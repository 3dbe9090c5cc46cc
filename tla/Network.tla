------------------------------- MODULE Network ------------------------------
(***************************************************************************)
(* The network server of the sun8i Ethernet device: address resolution     *)
(* with its retries (lib/libnet/ARP.cpp), sending and receiving through    *)
(* UDP sockets, replies to ARP and ICMP echo requests, the packet queues,  *)
(* requests that are retried, the sleep timeout of the message loop, and   *)
(* the transmit and receive rings of server/network/sun8i/Sun8iEmac.cpp.   *)
(*                                                                         *)
(* The server is one process: the handling of a message, of an interrupt   *)
(* or a round of retries is a step, between which the device, the other    *)
(* hosts, the clients and the clock go on.  Its data is the record net;    *)
(* the operators take such a record and return it as the function of that  *)
(* name leaves it, with the return value in net.result; net.ring is the    *)
(* set of descriptors that the device owns.  The contents of frames are    *)
(* left out, and the calls to VMCtl succeed.  That no wakeup is lost       *)
(* between the channels and the sleep is shown in DeviceServer.            *)
(***************************************************************************)
EXTENDS Integers, Sequences, SequencesExt

CONSTANTS
  Clients,     \* programs, each with one bound UDP socket
  Hosts,       \* the other hosts
  Broadcast,   \* the broadcast address
  MaxPackets,  \* NetworkQueue::MaxPackets: packets of a queue, descriptors of a ring
  QueueSize,   \* bound: packets that wait in a socket
  MaxRetries,  \* ARP::MaxRetries
  Timeout,     \* the 500 msec of address resolution, in clock ticks
  MaxWait,     \* bound: timeout of a WaitFile, in clock ticks
  MaxReceived, \* bound: frames in the receive ring
  None         \* no packet, no timeout, no frame

ASSUME NetworkAssumption ==
  /\ {MaxPackets, QueueSize, Timeout, MaxWait, MaxReceived} \subseteq Nat \ {0}
  /\ MaxRetries \in Nat
  /\ None \notin Int

VARIABLES
  net,     \* the objects of the server
  awake,   \* the server is not in sleepUntilWakeup()
  call,    \* the call of each client
  hw,      \* the next descriptor of the transmit ring that the device reads
  received, \* the frames in the receive ring
  status,  \* the interrupt status register of the device
  irq,     \* the interrupt is enabled at the interrupt controller
  event    \* an InterruptEvent is in the kernel event channel

vars == <<net, awake, call, hw, received, status, irq, event>>

Packets == 1 .. MaxPackets
Slots   == 0 .. MaxPackets - 1

-----------------------------------------------------------------------------
(* Index: an item goes to the lowest vacant position. *)
occupied(idx) == {i \in DOMAIN idx : idx[i] # None}

lowest(S) == CHOOSE i \in S : \A j \in S : i <= j

insert(idx, x) == [idx EXCEPT ![lowest(DOMAIN idx \ occupied(idx))] = x]

-----------------------------------------------------------------------------
(* Sending *)

Return(n, result) == [n EXCEPT !.result = result]

(* getTransmitPacket() takes the first free packet, the protocols fill it   *)
(* in, and Sun8iEmac::transmit() queues it for startDMA().  The test for a  *)
(* full queue fails: it has room for all packets.                           *)
transmit(n) ==
  IF occupied(n.free) = {}
    THEN Return(n, "RetryAgain")
    ELSE LET i == lowest(occupied(n.free))
         IN  [n EXCEPT !.free[i] = None, !.pending = Append(@, n.free[i]), !.result = "Success"]

(* ChannelServer::setTimeout *)
setTimeout(n) == [n EXCEPT !.expiry = Timeout]

(* Mutant: the attempts are not counted. *)
sendRequest_uncounted(n, h) ==
  transmit([n EXCEPT !.arp[h] = [valid |-> FALSE, retryCount |-> @.retryCount, timer |-> Timeout]])

(* An attempt counts, and the timer is set, whether or not a packet is free. *)
sendRequest(n, h) ==
  IF n.arp[h].retryCount + 1 > MaxRetries
    THEN Return([n EXCEPT !.arp[h].retryCount = 0], "NotFound")
    ELSE transmit([n EXCEPT !.arp[h] = [valid |-> FALSE, retryCount |-> @.retryCount + 1,
                                        timer |-> Timeout]])


(* A valid entry stays valid.  Without one, a request is sent when the last *)
(* one has timed out, and the caller has to try again.                      *)
lookupAddress(n, h) ==
  IF h = Broadcast \/ n.arp[h].valid
    THEN Return(n, "Success")
    ELSE LET m == IF n.arp[h].timer > 0 THEN Return(n, "RetryAgain") ELSE sendRequest(n, h)
         IN  IF m.result = "NotFound" THEN m ELSE Return(setTimeout(m), "RetryAgain")

(* UDP::sendPacket and ICMP::sendPacket, through IPV4::getTransmitPacket. *)
sendPacket(n, h) ==
  LET m == lookupAddress(n, h)
  IN  IF m.result = "Success" THEN transmit(m) ELSE m

-----------------------------------------------------------------------------
(* Requests of clients.  A request in m_requests is named by its client.    *)

(* Mutant: the timeout of the server is moved only when it is set. *)
waitFileHandler_unset(n, c, deadline) ==
  CASE n.queue[c] > 0  -> Return(n, "Success")
    [] n.queue[c] = 0 /\ deadline = None -> Return(n, "RetryAgain")
    [] n.queue[c] = 0 /\ deadline = 0    -> Return(n, "TimedOut")
    [] OTHER -> Return([n EXCEPT !.expiry = IF @ # None /\ @ > deadline THEN deadline ELSE @],
                       "RetryAgain")

(* WaitFile looks for data, then at the timeout of the request; the timeout *)
(* of the server moves only to an earlier time.                             *)
waitFileHandler(n, c, deadline) ==
  CASE n.queue[c] > 0  -> Return(n, "Success")
    [] n.queue[c] = 0 /\ deadline = None -> Return(n, "RetryAgain")
    [] n.queue[c] = 0 /\ deadline = 0    -> Return(n, "TimedOut")
    [] OTHER -> Return([n EXCEPT !.expiry = IF @ = None \/ @ > deadline THEN deadline ELSE @],
                       "RetryAgain")

(* UDPSocket::read *)
read(n, c) ==
  IF n.queue[c] = 0 THEN Return(n, "RetryAgain")
                    ELSE Return([n EXCEPT !.queue[c] = @ - 1], "Success")

(* processRequest sends the response unless the request has to be retried. *)
processRequest(n, c) ==
  LET m == CASE call[c].op = "write" -> sendPacket(n, call[c].host)
             [] call[c].op = "read"  -> read(n, c)
             [] call[c].op = "wait"  -> waitFileHandler(n, c, call[c].deadline)
  IN  IF m.result = "RetryAgain" THEN m ELSE [m EXCEPT !.answer[c] = m.result]

pathHandler(n, c) ==
  LET m == processRequest(n, c)
  IN  IF m.result = "RetryAgain" THEN [m EXCEPT !.requests = Append(@, c)] ELSE m

(* One round of FileSystemServer::retryRequests.  After the removal of a    *)
(* request the iterator skips the one behind it.                            *)
retryOne(r, c) ==
  IF r.skip
    THEN [r EXCEPT !.net.requests = Append(@, c), !.skip = FALSE]
    ELSE LET m == processRequest(r.net, c)
         IN  IF m.result = "RetryAgain"
               THEN [r EXCEPT !.net = [m EXCEPT !.requests = Append(@, c)]]
               ELSE [net |-> m, skip |-> TRUE, restart |-> TRUE]

retryRound(n) ==
  FoldLeft(retryOne, [net |-> [n EXCEPT !.requests = << >>], skip |-> FALSE, restart |-> FALSE],
           n.requests)

-----------------------------------------------------------------------------
(* The device *)

(* Nothing is handed over while the packets of the last transmission have   *)
(* not been released.                                                       *)
startDMA(n) ==
  IF n.packets # << >>
    THEN n
    ELSE [n EXCEPT
            !.packets = n.pending,
            !.pending = << >>,
            !.ring = @ \cup {(n.transmitIndex + i) % MaxPackets : i \in 0 .. Len(n.pending) - 1},
            !.transmitIndex = (@ + Len(n.pending)) % MaxPackets]

(* NetworkServer::retryRequests repeats the rounds until none completes a   *)
(* request, then starts the transmission.                                   *)
RECURSIVE retryRequests(_)
retryRequests(n) ==
  LET r == retryRound(n)
  IN  IF r.restart THEN retryRequests(r.net) ELSE startDMA(r.net)

updateCacheEntry(n, h) == [n EXCEPT !.arp[h].valid = TRUE]

sendReply(n, h) == transmit(n)

ARPProcess(n, frame) ==
  LET m == updateCacheEntry(n, frame.host)
  IN  IF frame.kind = "Request" THEN sendReply(m, frame.host) ELSE m

(* A reply that finds no packet or no address is not sent. *)
ICMPProcess(n, frame) == sendPacket(n, frame.host)

(* A datagram for a socket whose queue is full is dropped. *)
UDPProcess(n, frame) ==
  [n EXCEPT !.queue[frame.socket] = IF @ < QueueSize THEN @ + 1 ELSE @]

(* Ethernet::process and IPV4::process *)
process(n, frame) ==
  CASE frame.kind \in {"Request", "Reply"} -> ARPProcess(n, frame)
    [] frame.kind = "Echo" -> ICMPProcess(n, frame)
    [] frame.kind = "Data" -> UDPProcess(n, frame)

(* Mutant: the packets stay on the list of those in transmission. *)
released_kept(n) == [n EXCEPT !.free = FoldLeft(insert, @, n.packets)]

(* A transmit interrupt releases the packets of the whole transmission. *)
released(n) == [n EXCEPT !.free = FoldLeft(insert, @, n.packets), !.packets = << >>]

-----------------------------------------------------------------------------
(* What the other hosts send to us; a socket is named by its client. *)
Incoming == [kind : {"Request", "Reply", "Echo"}, host : Hosts]
              \cup [kind : {"Data"}, socket : Clients]

Idle == [op |-> "none", host |-> None, deadline |-> None]

Call ==
  {Idle}
    \cup [op : {"write"}, host : Hosts \cup {Broadcast}, deadline : {None}]
    \cup [op : {"read"}, host : {None}, deadline : {None}]
    \cup [op : {"wait"}, host : {None}, deadline : 0 .. MaxWait \cup {None}]

(* A started server with an address and nothing in its caches. *)
Init ==
  /\ net = [arp           |-> [h \in Hosts |-> [valid |-> FALSE, retryCount |-> 0, timer |-> 0]],
            free          |-> [s \in Slots |-> s + 1],
            pending       |-> << >>,
            packets       |-> << >>,
            ring          |-> {},
            transmitIndex |-> 0,
            queue         |-> [c \in Clients |-> 0],
            requests      |-> << >>,
            answer        |-> [c \in Clients |-> None],
            expiry        |-> None,
            result        |-> "Success"]
  /\ awake = TRUE
  /\ call = [c \in Clients |-> Idle]
  /\ hw = 0 /\ received = << >> /\ status = {} /\ irq = TRUE /\ event = FALSE

(* The calls that the server has not read yet. *)
Messages ==
  {c \in Clients : call[c] # Idle /\ net.answer[c] = None /\ c \notin ToSet(net.requests)}

-----------------------------------------------------------------------------
(* Clients make one call at a time. *)
Send(c, m) ==
  /\ call[c] = Idle
  /\ m # Idle
  /\ call' = [call EXCEPT ![c] = m]
  /\ UNCHANGED <<net, awake, hw, received, status, irq, event>>

Receive(c) ==
  /\ net.answer[c] # None
  /\ call' = [call EXCEPT ![c] = Idle]
  /\ net' = [net EXCEPT !.answer[c] = None]
  /\ UNCHANGED <<awake, hw, received, status, irq, event>>

(* readChannels() *)
Handle(c) ==
  /\ awake
  /\ c \in Messages
  /\ net' = Return(pathHandler(net, c), "Success")
  /\ UNCHANGED <<awake, call, hw, received, status, irq, event>>

(* readKernelEvents(): Sun8iEmac::interrupt clears the status, releases the *)
(* packets that were transmitted, processes all received frames and enables *)
(* the interrupt again; DeviceServer::interruptHandler then retries.        *)
Serve ==
  /\ awake
  /\ event
  /\ event' = FALSE
  /\ status' = {}
  /\ received' = << >>
  /\ irq' = TRUE
  /\ LET n == IF "Transmit" \in status THEN released(net) ELSE net
     IN  net' = Return(retryRequests(FoldLeft(process, n, received)), "Success")
  /\ UNCHANGED <<awake, call, hw>>

(* The end of processAll(), with nothing more to read, and EnterSleep. *)
Sleep ==
  /\ awake
  /\ ~event /\ Messages = {}
  /\ net' = Return(retryRequests(net), "Success")
  /\ awake' = FALSE
  /\ UNCHANGED <<call, hw, received, status, irq, event>>

(* What ends the sleep: a wakeup, or the timer that the kernel finds expired. *)
Awaited == event \/ Messages # {} \/ (net.expiry # None /\ net.expiry <= 0)

(* sleepUntilWakeup() returns and looks at the timeout itself. *)
Wakeup ==
  /\ ~awake
  /\ Awaited
  /\ awake' = TRUE
  /\ net' = IF net.expiry # None /\ net.expiry < 0
              THEN Return(retryRequests([net EXCEPT !.expiry = None]), "Success") ELSE net
  /\ UNCHANGED <<call, hw, received, status, irq, event>>

-----------------------------------------------------------------------------
(* Time: all timers are the number of ticks that are left, and -1 is the    *)
(* past for the timeout that is compared with <.                            *)
Tick ==
  /\ net' = [net EXCEPT
               !.arp = [h \in Hosts |-> [@[h] EXCEPT !.timer = IF @ > 0 THEN @ - 1 ELSE 0]],
               !.expiry = IF @ = None THEN None ELSE IF @ > 0 THEN @ - 1 ELSE -1]
  /\ call' = [c \in Clients |-> [call[c] EXCEPT !.deadline =
                                   IF @ = None THEN None ELSE IF @ > 0 THEN @ - 1 ELSE 0]]
  /\ UNCHANGED <<awake, hw, received, status, irq, event>>

(* The device sends the frame of the next descriptor and gives the          *)
(* descriptor back.                                                         *)
Transmit ==
  /\ hw \in net.ring
  /\ net' = [net EXCEPT !.ring = @ \ {hw}]
  /\ hw' = (hw + 1) % MaxPackets
  /\ status' = status \cup {"Transmit"}
  /\ UNCHANGED <<awake, call, received, irq, event>>

(* A frame arrives: an answer, soon, late or twice, or something else.  The *)
(* device drops it when it has no free descriptor.                          *)
Arrive(frame) ==
  /\ Len(received) < MaxReceived
  /\ received' = Append(received, frame)
  /\ status' = status \cup {"Receive"}
  /\ UNCHANGED <<net, awake, call, hw, irq, event>>

(* The kernel masks the interrupt and raises the event. *)
Interrupt ==
  /\ irq /\ status # {}
  /\ irq' = FALSE
  /\ event' = TRUE
  /\ UNCHANGED <<net, awake, call, hw, received, status>>

Next ==
  \/ \E c \in Clients, m \in Call : Send(c, m)
  \/ \E c \in Clients : Receive(c) \/ Handle(c)
  \/ Serve
  \/ Sleep
  \/ Wakeup
  \/ Tick
  \/ Transmit
  \/ \E f \in Incoming : Arrive(f)
  \/ Interrupt

Spec == Init /\ [][Next]_vars

-----------------------------------------------------------------------------
(* Every packet of the transmit queue is free, pending or in transmission,  *)
(* and only one of these: none is lost on a path of the protocols and none  *)
(* is released twice by the interrupts of one transmission.                 *)
PacketsAccounted ==
  \A p \in Packets :
    Len(SelectSeq(net.pending \o net.packets \o [i \in 1 .. MaxPackets |-> net.free[i - 1]],
                  LAMBDA q : q = p)) = 1

(* The transmit ring still has something to send, or the interrupt that     *)
(* says so is on its way.                                                   *)
Transmitting == "Transmit" \in status \/ event \/ net.ring # {}


(* The comments in Sun8iEmac::startDMA: when m_transmitPackets is empty the *)
(* device is not transmitting any more, and the ring is free.               *)
TransmitterReady ==
  net.packets = << >> => net.ring = {}

-----------------------------------------------------------------------------
(* The server is scheduled and interrupts do not keep it from the channels  *)
(* for ever; time passes, the device transmits what it is given and its     *)
(* interrupts are taken.  Only Serve withdraws the event, and only Sleep    *)
(* and Wakeup change awake: their fairness needs no more than that.         *)
Fairness ==
  /\ WF_event(awake /\ event /\ event' = FALSE)
  /\ WF_awake(awake /\ ~event /\ Messages = {} /\ awake' = FALSE)
  /\ WF_awake(~awake /\ Awaited /\ awake' = TRUE)
  /\ \A c \in Clients : WF_vars(Handle(c))
  /\ WF_vars(Tick) /\ WF_vars(Transmit) /\ WF_vars(Interrupt)

(* From some time on, the other hosts do not ask for anything that takes a  *)
(* packet to answer.                                                        *)
Unflooded == <>[](\A f \in ToSet(received) : f.kind \in {"Reply", "Data"})

(* The device and the driver are at the same descriptor of an empty ring.   *)
(* Packets that are released before they are transmitted let the driver     *)
(* fill a descriptor again that the device has not read, after which they   *)
(* are not, and a packet is left in the ring until more follow.             *)
InStep == net.ring = {} => hw = net.transmitIndex

(* A write is answered, whatever gets lost: with success once the address   *)
(* is known, with NotFound after the last attempt.  Only requests of other  *)
(* hosts that never stop can take every packet before it, and a device and  *)
(* a driver that are out of step can keep all packets for ever.             *)
WriteAnswered ==
  Unflooded /\ []InStep => \A c \in Clients : call[c].op = "write" ~> net.answer[c] # None

(* A wait with a timeout is answered, after the timeout at the latest. *)
TimedWaitAnswered ==
  \A c \in Clients : call[c].op = "wait" /\ call[c].deadline # None ~> net.answer[c] # None
=============================================================================
