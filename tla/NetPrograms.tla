------------------------------ MODULE NetPrograms -----------------------------
(* The network programs and the DHCP client. *)
EXTENDS Sequences, FiniteSets, Integers, SequencesExt

(***************************************************************************)
(* The network client library (lib/libnet/NetworkClient) and the programs  *)
(* that use it, netcat, netping and netsend, as two processes that share   *)
(* the socket factory, the sockets and the ARP file of one network server. *)
(* A call of the server is one step; calls of the two processes interleave.*)
(* What the server does with a datagram is abstracted: a datagram is a     *)
(* number, delivered to the socket bound to a port, in order, or lost.     *)
(***************************************************************************)
CONSTANTS Clients, Programs, MaxSockets, MaxQueue, LineSize, QueueSize, Counts, Datagrams,
          Mounts,       \* sequences of mounted network device names
          Names         \* the names given as DEVICE; a name is a sequence of characters
VARIABLE nc

NoSocket == [owner |-> "none", port |-> 0, queue |-> <<>>, got |-> 0]
NetClient_Init ==
  nc = [pc |-> [c \in Clients |-> "start"], prog |-> [c \in Clients |-> "none"], device |-> [c \in Clients |-> 0],
        fd |-> [c \in Clients |-> 0], path |-> [c \in Clients |-> 0], line |-> [c \in Clients |-> <<>>],
        left |-> [c \in Clients |-> 0], sent |-> [c \in Clients |-> 0], shown |-> [c \in Clients |-> <<>>],
        taken |-> [c \in Clients |-> <<>>],
        sockets |-> <<>>, arp |-> 0, answer |-> [c \in Clients |-> 0], mounts |-> <<>>, name |-> <<>>, wire |-> 0]
At(c, where) == nc.pc[c] = where
Goto(c, where) == [nc.pc EXCEPT ![c] = where]

(* NetworkClient::initialize: the length of the common prefix, 0 after a   *)
(* difference; the last mount among the longest ones is taken.             *)
Shorter(a, b) == IF Len(a) < Len(b) THEN Len(a) ELSE Len(b)
Common(mount, name) ==
  IF \A j \in 1 .. Shorter(mount, name) : mount[j] = name[j] THEN Shorter(mount, name) ELSE 0
Matching(mounts, name) ==
  {i \in DOMAIN mounts : /\ \A k \in DOMAIN mounts : Common(mounts[k], name) <= Common(mounts[i], name)
                         /\ \A k \in i + 1 .. Len(mounts) : Common(mounts[k], name) < Common(mounts[i], name)}
initialize(c) ==
  \E prog \in Programs, mounts \in Mounts, name \in Names :
    /\ At(c, "start")
    /\ nc.mounts \in {<<>>, mounts} /\ nc.name \in {<<>>, name}
    /\ nc' = [nc EXCEPT !.prog[c] = prog, !.mounts = mounts, !.name = name,
                        !.device[c] = IF mounts = <<>> THEN 0 ELSE CHOOSE i \in Matching(mounts, name) : TRUE,
                        !.pc = Goto(c, IF mounts = <<>> THEN "failed" ELSE "client")]

(* createSocket: the factory of the protocol is opened (0); ARP has one    *)
(* file for all processes and needs no factory.                            *)
createSocket(c) ==
  /\ At(c, "client")
  /\ nc' = [nc EXCEPT !.fd[c] = 0, !.pc = Goto(c, IF nc.prog[c] = "arp" THEN "arp" ELSE "factory")]

(* writeSocketInfo, for bindSocket and connectSocket: a read of the        *)
(* factory makes a socket and answers with its path ...                    *)
ReadFactory(c) ==
  /\ At(c, "factory")
  /\ nc' = IF Len(nc.sockets) < MaxSockets
           THEN [nc EXCEPT !.sockets = Append(@, [NoSocket EXCEPT !.owner = c]), !.path[c] = Len(nc.sockets) + 1,
                           !.pc = Goto(c, "stat")]
           ELSE [nc EXCEPT !.pc = Goto(c, "failed")]
StatSocket(c) ==
  /\ At(c, "stat")
  /\ nc' = [nc EXCEPT !.fd[c] = nc.path[c], !.pc = Goto(c, "info")]
(* ... and the address, port and action are written to it. *)
Ports(c) == IF nc.prog[c] = "listen" THEN {1} ELSE {2, 3}
Unbound(port) == [i \in DOMAIN nc.sockets |-> [nc.sockets[i] EXCEPT !.port = IF @ = port THEN 0 ELSE @]]
WriteInfo(c) ==
  \E port \in Ports(c) :
    /\ At(c, "info")
    /\ nc' = [nc EXCEPT !.sockets = [Unbound(port) EXCEPT ![nc.fd[c]].port = port],
                        !.pc = Goto(c, CASE nc.prog[c] = "listen" -> "receive" [] nc.prog[c] = "send" -> "read"
                                         [] nc.prog[c] = "icmp" -> "echo" [] OTHER -> "batch"),
                        !.left[c] = 0]

(* A datagram arrives for a port. *)
Arrive ==
  \E i \in DOMAIN nc.sockets :
    /\ nc.sockets[i].port = 1 /\ nc.wire < Datagrams
    /\ nc' = [nc EXCEPT !.wire = @ + 1,
                        !.sockets[i].queue = IF Len(@) < MaxQueue THEN Append(@, nc.wire + 1) ELSE @]

(* netcat -l: exec, udpReceive (recvfrom, read) and printLine.  *)
udpReceive(c) ==
  LET s == nc.sockets[nc.fd[c]] IN
    /\ At(c, "receive") /\ s.queue # <<>>
    /\ nc' = [nc EXCEPT !.sockets[nc.fd[c]].queue = Tail(@), !.line[c] = <<Head(s.queue)>>,
                        !.taken[c] = Append(@, Head(s.queue)), !.pc = Goto(c, "print")]
printLine(c) ==
  /\ At(c, "print")
  /\ nc' = [nc EXCEPT !.shown[c] = Append(@, nc.line[c]), !.line[c] = <<>>, !.pc = Goto(c, "receive")]

(* netcat: readLine takes characters until a line end or a full buffer,    *)
(* then the line end and a terminator follow; a line with one dot ends it.     *)
readLine(c) ==
  \E ch \in {"x", ".", "bs", "nl"} :
    /\ At(c, "read")
    /\ nc' = IF ch = "nl" \/ Len(nc.line[c]) >= LineSize - 3
             THEN [nc EXCEPT !.pc = Goto(c, "line")]
             ELSE [nc EXCEPT !.line[c] = IF ch # "bs" THEN Append(@, ch)
                                         ELSE IF @ = <<>> THEN @ ELSE SubSeq(@, 1, Len(@) - 1)]
EndLine(c) ==
  /\ At(c, "line")
  /\ nc' = [nc EXCEPT !.line[c] = @ \o <<"cr", "nl">>, !.pc = Goto(c, IF nc.line[c] = <<".">> THEN "done" ELSE "sendto")]
udpSend(c) ==
  /\ At(c, "sendto")
  /\ nc' = [nc EXCEPT !.line[c] = <<>>, !.sent[c] = IF @ < 2 THEN @ + 1 ELSE @, !.pc = Goto(c, "read")]

(* netping -i: write the request, wait for a reply, check its type. *)
icmpPing(c) ==
  /\ At(c, "echo")
  /\ nc' = [nc EXCEPT !.pc = Goto(c, "reply")]
NetClient_Reply ==
  \E i \in DOMAIN nc.sockets, type \in {1, 2} :
    /\ \E c \in Clients : nc.fd[c] = i /\ At(c, "reply") /\ nc.prog[c] = "icmp"
    /\ nc.sockets[i].got = 0
    /\ nc' = [nc EXCEPT !.sockets[i].got = type]
EchoReply(c) ==
  LET got == nc.sockets[nc.fd[c]].got IN
    /\ At(c, "reply") /\ got # 0
    /\ nc' = [nc EXCEPT !.sockets[nc.fd[c]].got = 0, !.pc = Goto(c, IF got = 1 THEN "done" ELSE "failed")]

(* netping -a: the address asked for is written to the one ARP file, the   *)
(* Ethernet address is read from it.                                       *)
AddressOf(c) == IF c = CHOOSE d \in Clients : TRUE THEN 1 ELSE 2
arpPing(c) ==
  /\ At(c, "arp")
  /\ nc' = [nc EXCEPT !.arp = AddressOf(c), !.pc = Goto(c, "arpread")]
ReadARP(c) ==
  /\ At(c, "arpread")
  /\ nc' = [nc EXCEPT !.answer[c] = nc.arp, !.pc = Goto(c, "done")]

(* netsend: COUNT datagrams in batches of at most QueueSize.  A batch may  *)
(* fail in the server, which ends the program.                             *)
Batch(count, i) == IF count - i >= QueueSize THEN QueueSize ELSE count - i
Start(c) ==
  \E count \in Counts :
    /\ At(c, "batch") /\ nc.left[c] = 0 /\ nc.sent[c] = 0
    /\ nc' = [nc EXCEPT !.left[c] = count, !.pc = Goto(c, IF count = 0 THEN "done" ELSE "sendmsg")]
udpSendMultiple(c) ==
  /\ At(c, "sendmsg")
  /\ \/ LET num == Batch(nc.left[c], nc.sent[c]) IN
          nc' = [nc EXCEPT !.sent[c] = @ + num, !.pc = Goto(c, IF nc.sent[c] + num < nc.left[c] THEN "sendmsg" ELSE "done")]
     \/ nc' = [nc EXCEPT !.pc = Goto(c, "failed")]

NetClient_Next ==
  \/ Arrive
  \/ NetClient_Reply
  \/ \E c \in Clients :
       \/ initialize(c)
       \/ createSocket(c)
       \/ ReadFactory(c)
       \/ StatSocket(c)
       \/ WriteInfo(c)
       \/ udpReceive(c)
       \/ printLine(c)
       \/ readLine(c)
       \/ EndLine(c)
       \/ udpSend(c)
       \/ icmpPing(c)
       \/ EchoReply(c)
       \/ arpPing(c)
       \/ ReadARP(c)
       \/ Start(c)
       \/ udpSendMultiple(c)

-----------------------------------------------------------------------------
(* A client talks through the socket the factory made for it, although     *)
(* another client's socket may be made between its read and its stat.      *)
OwnSocket == \A c \in Clients : nc.fd[c] # 0 => nc.sockets[nc.fd[c]].owner = c

(* A line with its line end and terminator fits netcat's buffer. *)
LineFits == \A c \in Clients : nc.prog[c] = "send" => Len(nc.line[c]) + 1 <= LineSize

(* netcat prints every datagram its socket delivered, once and in order.   *)
PrintsReceived ==
  \A c \in Clients : nc.prog[c] = "listen" =>
    nc.shown[c] \o (IF At(c, "print") THEN <<nc.line[c]>> ELSE <<>>) = [i \in DOMAIN nc.taken[c] |-> <<nc.taken[c][i]>>]

(* netsend succeeds only after it sent COUNT datagrams, not one more. *)
CountSent == \A c \in Clients : nc.prog[c] = "netsend" /\ At(c, "done") => nc.sent[c] = nc.left[c]

(* A device that has the whole given name as its prefix is preferred to    *)
(* one that has not: "Find closest matching device".                       *)
ClosestDevice ==
  \A c \in Clients : nc.device[c] # 0 /\ (\E i \in DOMAIN nc.mounts : Common(nc.mounts[i], nc.name) = Len(nc.name))
    => Common(nc.mounts[nc.device[c]], nc.name) = Len(nc.name)

(* "Find closest matching device": a device with exactly the given name is *)
(* the closest one.                                                        *)
ExactDevice ==
  \A c \in Clients : nc.device[c] # 0 /\ (\E i \in DOMAIN nc.mounts : nc.mounts[i] = nc.name) => nc.mounts[nc.device[c]] = nc.name

(* "Received ARP response for": the address netping prints is the one of   *)
(* the host it asked for.                                                  *)
OwnARPAnswer == \A c \in Clients : nc.answer[c] \in {0, AddressOf(c)}

-------------------------------------------------------------------------------
(***************************************************************************)
(* The DHCP client (bin/dhcpc) with the servers on its network.  A message *)
(* is a record of the header fields and options that are looked at.        *)
(* Requests are broadcast and reach every server or are lost; replies are  *)
(* broadcast too, so the socket also receives those for other clients,     *)
(* which count their transactions from the same number.                    *)
(***************************************************************************)

CONSTANTS
  Servers,        \* DHCP servers
  Pool,           \* addresses that a server has to give
  MaximumRetries, \* DhcpClient::MaximumRetries
  MaxTroubles,    \* bound: lost messages, waits without an answer, foreign replies
  NoAddress, NoServer

VARIABLE dhcp

Me    == "me"
Other == "other"

(* DhcpClient::initialize has bound the socket. *)
DhcpClient_Init ==
  dhcp = [pc |-> "discover", attempt |-> 1, m_transactionId |-> 2,
          ipAddr |-> NoAddress, ipServer |-> NoServer,
          queue |-> <<>>, requests |-> [s \in Servers |-> <<>>],
          leases |-> {}, address |-> NoAddress, troubles |-> 0]

(* The next round of the loop of exec(), with a transaction of its own. *)
Continue(d) ==
  IF d.attempt = MaximumRetries
    THEN [d EXCEPT !.pc = "failed"]
    ELSE [d EXCEPT !.pc = "discover", !.attempt = @ + 1, !.m_transactionId = @ + 1,
                   !.ipAddr = NoAddress, !.ipServer = NoServer]

-----------------------------------------------------------------------------
(* The client *)

sendBootRequest(messageType) ==
  LET message == [type |-> messageType, transactionId |-> dhcp.m_transactionId,
                  requestedIP |-> dhcp.ipAddr, serverIdentifier |-> dhcp.ipServer]
  IN  [dhcp EXCEPT !.requests = [s \in Servers |-> Append(@[s], message)]]

discover == dhcp.pc = "discover" /\ dhcp' = [sendBootRequest("Discover") EXCEPT !.pc = "offer"]

request == dhcp.pc = "request" /\ dhcp' = [sendBootRequest("Request") EXCEPT !.pc = "acknowledge"]

(* sendto() fails, when the server has no packet for the request. *)
udpSend_fails ==
  /\ dhcp.pc \in {"discover", "request"}
  /\ dhcp.troubles < MaxTroubles
  /\ dhcp' = Continue([dhcp EXCEPT !.troubles = @ + 1])

(* Mutant: the ethernet address is not compared. *)
Accepted_any_hardware(reply, messageType) ==
  /\ reply.transactionId = dhcp.m_transactionId
  /\ reply.type = messageType

Accepted(reply, messageType) ==
  /\ reply.clientHardware = Me
  /\ reply.transactionId = dhcp.m_transactionId
  /\ reply.type = messageType

(* One datagram is read; when it is not the expected one, the attempt ends. *)
receiveBootResponse(messageType, next) ==
  LET reply == Head(dhcp.queue)
      d     == [dhcp EXCEPT !.queue = Tail(@)]
  IN  dhcp' = IF Accepted(reply, messageType)
                THEN [d EXCEPT !.pc = next, !.ipAddr = reply.yourAddress, !.ipServer = reply.server]
                ELSE Continue(d)

offer == dhcp.pc = "offer" /\ dhcp.queue # <<>> /\ receiveBootResponse("Offer", "request")

acknowledge == dhcp.pc = "acknowledge" /\ dhcp.queue # <<>> /\ receiveBootResponse("Ack", "set")

(* waitSocket() returns after ReceiveTimeoutMs. *)
udpReceive_timeout ==
  /\ dhcp.pc \in {"offer", "acknowledge"} /\ dhcp.queue = <<>>
  /\ dhcp.troubles < MaxTroubles
  /\ dhcp' = Continue([dhcp EXCEPT !.troubles = @ + 1])

setIpAddress ==
  /\ dhcp.pc = "set"
  /\ dhcp' = [dhcp EXCEPT !.pc = "done", !.address = dhcp.ipAddr]

-----------------------------------------------------------------------------
(* The network and the servers *)

DhcpClient_Reply(hardware, id, type, address, s) ==
  [clientHardware |-> hardware, transactionId |-> id, type |-> type, yourAddress |-> address, server |-> s]

(* A server offers an address of its pool; it gives the one that it is      *)
(* asked for, when the request names this server.                           *)
Serve(s) ==
  LET message == Head(dhcp.requests[s])
      d       == [dhcp EXCEPT !.requests[s] = Tail(@)]
  IN  /\ dhcp.requests[s] # <<>>
      /\ \/ /\ message.type = "Discover"
            /\ \E a \in Pool[s] :
                 dhcp' = [d EXCEPT !.queue = Append(@, DhcpClient_Reply(Me, message.transactionId, "Offer", a, s))]
         \/ /\ message.type = "Request" /\ message.serverIdentifier = s
            /\ dhcp' = [d EXCEPT !.queue  = Append(@, DhcpClient_Reply(Me, message.transactionId, "Ack", message.requestedIP, s)),
                                 !.leases = @ \cup {<<message.transactionId, message.requestedIP>>}]
         \/ /\ message.type = "Request" /\ message.serverIdentifier # s
            /\ dhcp' = d

(* A request does not reach a server, or its reply is lost. *)
Lose(s) ==
  /\ dhcp.requests[s] # <<>> /\ dhcp.troubles < MaxTroubles
  /\ dhcp' = [dhcp EXCEPT !.requests[s] = Tail(@), !.troubles = @ + 1]

(* A server answers another client. *)
Foreign(s) ==
  /\ dhcp.troubles < MaxTroubles
  /\ \E type \in {"Offer", "Ack"}, a \in Pool[s] :
       dhcp' = [dhcp EXCEPT !.queue = Append(@, DhcpClient_Reply(Other, dhcp.m_transactionId, type, a, s)),
                            !.troubles = @ + 1]

DhcpClient_Next ==
  \/ discover
  \/ offer
  \/ request
  \/ acknowledge
  \/ udpSend_fails
  \/ udpReceive_timeout
  \/ setIpAddress
  \/ \E s \in Servers : Serve(s) \/ Lose(s) \/ Foreign(s)

-----------------------------------------------------------------------------
(* The address that is set is one that a server has given to this client in *)
(* the transaction of the last attempt, whatever answers of earlier         *)
(* attempts, or for other clients, arrived (receiveBootResponse).           *)
AddressLeased == dhcp.pc = "done" => <<dhcp.m_transactionId, dhcp.address>> \in dhcp.leases

(* "Keep retrying until we have an address": when nothing is lost or late,  *)
(* the client does not give up (exec).                                      *)
AnsweredClientSucceeds == dhcp.pc = "failed" => dhcp.troubles > 0
===============================================================================
