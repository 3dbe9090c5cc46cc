----------------------------- MODULE Protocols -----------------------------
(***************************************************************************)
(* The protocols of a network server (lib/libnet): Ethernet, ARP, IPV4,    *)
(* ICMP and UDP with their sockets.  A frame is the sequence of its bytes, *)
(* put together and taken apart at the offsets of the code.  The hosts are *)
(* joined by a wire that may lose frames, or there is one host with the    *)
(* loopback device, which processes a frame as it is transmitted.  The     *)
(* retries of ARP and the queue of the device are in module Network.       *)
(*                                                                         *)
(* An operator takes the record of the network and returns it as the       *)
(* function of that name leaves it, with the return value in s.result.     *)
(***************************************************************************)
EXTENDS Integers, Sequences, SequencesExt

CONSTANTS
  Hosts,      \* the hosts on the wire, numbers
  Pids,       \* the programs, numbers
  Senders,    \* bound: the programs that send datagrams
  Ports,      \* UDP ports
  Payloads,   \* what a program sends
  Pings,      \* payloads of the echo requests of other programs
  Texts,      \* the numbers in addresses that are written as text
  Stale,      \* bytes that an earlier frame may have left behind
  MaxSockets, \* UDP::MaxUdpSockets, ICMP::MaxIcmpSockets
  MaxPackets, \* NetworkQueue::MaxPackets: of the device, and of a UDP socket
  MinFrame,   \* the size to which the device pads a frame
  MaxSize,    \* NetworkDevice::m_maximumPacketSize
  MaxLost,    \* bound: frames that are lost
  MaxCalls    \* bound: calls of a program

VARIABLE net

-----------------------------------------------------------------------------
(* Numbers in a frame.  The processor is little endian.  An address is the  *)
(* sequence of its bytes, the most significant first.                       *)
be16(v) == <<v \div 256, v % 256>>

le16(v) == <<v % 256, v \div 256>>

Bytes(f, offset, size) == SubSeq(f, offset + 1, offset + size)

readBe16(f, offset) == f[offset + 1] * 256 + f[offset + 2]

Zero      == <<0, 0, 0, 0>>
Broadcast == <<255, 255, 255, 255>>
IP(n)     == <<10, 0, 0, n>>

Ether(n)  == <<2, 0, 0, 0, 0, n>>
EtherAll  == [i \in 1 .. 6 |-> 255]

EtherSize == 14
IpSize    == 20
Offset    == EtherSize + IpSize

(* An address as text: four numbers, cut to bytes. *)
toAddress(text) == IF Len(text) # 4 THEN Zero ELSE [i \in 1 .. 4 |-> text[i] % 256]

-----------------------------------------------------------------------------
(* Checksums *)

RECURSIVE Sum(_, _, _, _)

(* Of the words of b from position i on, with the weights of their bytes. *)
Sum(b, i, first, second) ==
  CASE i > Len(b) -> 0
    [] i = Len(b) -> b[i] * first
    [] i < Len(b) -> b[i] * first + b[i + 1] * second + Sum(b, i + 2, first, second)

(* Mutant: the last byte of an odd number is left out. *)
calculateSum_even(b) == Sum(SubSeq(b, 1, Len(b) - (Len(b) % 2)), 1, 1, 256)

(* Sum of little endian words; a last single byte is the low one. *)
calculateSum(b) == Sum(b, 1, 1, 256)

Carry(sum) == (sum \div 65536) + (sum % 65536)

(* Of the bytes b, of which an odd last one is read as a big endian word,   *)
(* together with the byte that follows it in memory.  Two carries are       *)
(* enough for the sums of a frame.                                          *)
checksum(b, following) ==
  LET even == Len(b) - (Len(b) % 2)
      sum  == calculateSum(SubSeq(b, 1, even))
                + (IF even = Len(b) THEN 0 ELSE (b[Len(b)] * 256 + following) * 256)
  IN  65535 - Carry(Carry(sum))

udp_checksum(source, destination, udp) ==
  LET pseudo == source \o destination \o <<0, 17>> \o be16(Len(udp))
      sum    == Carry(calculateSum(pseudo) + calculateSum(udp))
  IN  65535 - ((sum + (sum \div 65536)) % 65536)

-----------------------------------------------------------------------------
(* Frames *)
Return(s, result) == [s EXCEPT !.result = result]

(* The end of a request of a program.  One that returned RetryAgain is      *)
(* retried as a whole by the server; it counts when it sent a datagram.     *)
Done(s, pid) ==
  LET again == s.result = "RetryAgain" /\ \A n \in Hosts : s.host[n].id = net.host[n].id
  IN  [s EXCEPT !.calls[pid] = IF again THEN @ ELSE @ + 1, !.result = "Success"]

etherHeader(n, destination, type) == destination \o Ether(n) \o be16(type)

arpHeader(s, n, operation, ether, target) ==
  be16(1) \o be16(2048) \o <<6, 4>> \o be16(operation)
    \o Ether(n) \o s.host[n].address \o ether \o target

ipHeader(s, n, destination, protocol, payloadSize) ==
  LET header(sum) == <<69, 0>> \o be16(payloadSize + IpSize) \o be16(s.host[n].id) \o <<64, 0, 64, protocol>>
                       \o sum \o s.host[n].address \o destination
  IN  header(le16(checksum(header(<<0, 0>>), 0)))

udpHeader(s, n, destination, sourcePort, destPort, payload) ==
  LET udp(sum) == be16(sourcePort) \o be16(destPort) \o be16(8 + Len(payload)) \o sum \o payload
  IN  udp(le16(udp_checksum(s.host[n].address, destination, udp(<<0, 0>>))))

(* The header comes with a checksum, which is replaced. *)
icmpHeader(header, payload, following) ==
  LET icmp(sum) == Bytes(header, 0, 2) \o sum \o Bytes(header, 4, 4) \o payload
  IN  icmp(le16(checksum(icmp(<<0, 0>>), following)))

Padded(f) == f \o [i \in 1 .. (IF Len(f) < MinFrame THEN MinFrame - Len(f) ELSE 0) |-> 0]

-----------------------------------------------------------------------------
RECURSIVE process(_, _, _)

(* Sun8iEmac::transmit, or Loopback::transmit. *)
transmit(s, n, f) ==
  IF s.loopback THEN process(s, n, f)
                ELSE Return([s EXCEPT !.wire[n] = Append(@, Padded(f))], "Success")

(* Ethernet::getTransmitPacket takes a packet of the queue. *)
Transmit(s, n, f) ==
  IF Len(s.wire[n]) = MaxPackets THEN Return(s, "RetryAgain") ELSE transmit(s, n, f)

sendRequest(s, n, target) ==
  Transmit(s, n, etherHeader(n, EtherAll, 2054) \o arpHeader(s, n, 1, EtherAll, target))

sendReply(s, n, ether, target) ==
  Transmit(s, n, etherHeader(n, ether, 2054) \o arpHeader(s, n, 2, ether, target))

updateCacheEntry(s, n, address, ether) == [s EXCEPT !.host[n].arp = (address :> ether) @@ @]

(* A request is sent again when its time is over, which is long after its   *)
(* frame and the reply have gone.                                           *)
lookupAddress(s, n, address) ==
  CASE address \in DOMAIN s.host[n].arp \cup {Broadcast} -> Return(s, "Success")
    [] OTHER -> Return(IF \E m \in Hosts : s.wire[m] # <<>> THEN s ELSE sendRequest(s, n, address), "RetryAgain")

EtherOf(s, n, address) ==
  IF address \in DOMAIN s.host[n].arp THEN s.host[n].arp[address] ELSE EtherAll

(* IPV4::getTransmitPacket for a payload of that size, which follows. *)
sendIP(s, n, destination, protocol, size, payload) ==
  LET m == lookupAddress(s, n, destination)
  IN  IF m.result # "Success" \/ Len(m.wire[n]) = MaxPackets
        THEN Return(m, "RetryAgain")
        ELSE transmit([m EXCEPT !.host[n].id = @ + 1], n,
                      etherHeader(n, EtherOf(m, n, destination), 2048)
                        \o ipHeader(m, n, destination, protocol, size) \o payload)

udp_sendPacket(s, n, port, to, payload) ==
  sendIP(s, n, to.address, 17, 8 + Len(payload), udpHeader(s, n, to.address, port, to.port, payload))

(* The payload is cut to the maximum size; the length that the IP header    *)
(* tells was written before.                                                *)
icmp_sendPacket(s, n, destination, header, payload) ==
  LET room   == MaxSize - Offset - 8
      amount == IF Len(payload) > room THEN room ELSE Len(payload)
  IN  sendIP(s, n, destination, 1, 8 + Len(payload),
             icmpHeader(header, SubSeq(payload, 1, amount), s.stale))

-----------------------------------------------------------------------------
(* Receiving *)

(* A request for the address of the host is answered, and tells the address *)
(* of its sender.                                                           *)
arp_process(s, n, f) ==
  LET operation   == readBe16(f, EtherSize + 6)
      etherSender == Bytes(f, EtherSize + 8, 6)
      ipSender    == Bytes(f, EtherSize + 14, 4)
      ipTarget    == Bytes(f, EtherSize + 24, 4)
      known       == updateCacheEntry(s, n, ipSender, etherSender)
  IN  CASE operation = 1 /\ ipTarget = s.host[n].address -> sendReply(known, n, Bytes(f, 6, 6), ipSender)
        [] operation = 1 /\ ipTarget # s.host[n].address -> Return(s, "Success")
        [] operation = 2 -> Return(known, "Success")

(* A reply goes to every socket of that address that has none yet. *)
icmp_process(s, n, f) ==
  LET source == Bytes(f, EtherSize + 12, 4)
      header == Bytes(f, Offset, 8)
      socks  == s.host[n].sockets
  IN  CASE f[Offset + 1] = 8 -> icmp_sendPacket(s, n, source, <<0>> \o Bytes(f, Offset + 1, 7),
                                                SubSeq(f, Offset + 9, Len(f)))
        [] f[Offset + 1] = 0 ->
             Return([s EXCEPT !.host[n].sockets =
                       [i \in DOMAIN socks |->
                          IF socks[i].address = source /\ socks[i].queue = <<>>
                            THEN [socks[i] EXCEPT !.queue = <<header>>] ELSE socks[i]]], "Success")

(* UDPSocket::process drops the datagram when its queue is full. *)
udp_process(s, n, f) ==
  LET port == readBe16(f, Offset + 2)
      host == s.host[n]
      sock == {i \in DOMAIN host.sockets : port \in DOMAIN host.ports /\ host.sockets[i].inode = host.ports[port]}
  IN  IF port \notin DOMAIN host.ports
        THEN Return(s, "NotFound")
        ELSE Return([s EXCEPT !.host[n].sockets =
                       [i \in DOMAIN host.sockets |->
                          IF i \in sock /\ Len(host.sockets[i].queue) < MaxPackets
                            THEN [host.sockets[i] EXCEPT !.queue = Append(@, f)] ELSE host.sockets[i]]],
                    "Success")

(* A host without an address takes the datagrams for every address. *)
ip_process(s, n, f) ==
  LET destination == Bytes(f, EtherSize + 16, 4)
      protocol    == f[EtherSize + 10]
  IN  CASE destination # s.host[n].address /\ destination # Broadcast /\ s.host[n].address # Zero
             -> Return(s, "NotFound")
        [] OTHER -> CASE protocol = 1  -> icmp_process(s, n, f)
                      [] protocol = 17 -> udp_process(s, n, f)
                      [] OTHER -> Return(s, "InvalidArgument")

(* NetworkDevice::process and Ethernet::process *)
process(s, n, f) ==
  CASE readBe16(f, 12) = 2054 -> arp_process(s, n, f)
    [] readBe16(f, 12) = 2048 -> ip_process(s, n, f)
    [] OTHER -> Return(s, "InvalidArgument")

-----------------------------------------------------------------------------
(* Sockets.  The m_ports table and the file of a socket refer to the object,*)
(* which is known by its inode number.                                      *)
Vacant(host) == (0 .. MaxSockets - 1) \ DOMAIN host.sockets

(* UDPFactory::read, ICMPFactory::read: a socket at the first vacant place. *)
createSocket(n, pid) ==
  LET i == CHOOSE j \in Vacant(net.host[n]) : \A k \in Vacant(net.host[n]) : j <= k
  IN  IF Vacant(net.host[n]) = {}
        THEN net' = Done(Return(net, "IOError"), pid)
        ELSE net' = Done([net EXCEPT
               !.inode = @ + 1,
               !.host[n].sockets = (i :> [pid |-> pid, inode |-> net.inode, address |-> Zero, port |-> 0,
                                          queue |-> <<>>, bound |-> {}]) @@ @], pid)

(* Mutant: the ports stay. *)
unregisterSockets_ports_kept(n, pid) ==
  net' = [net EXCEPT !.calls[pid] = MaxCalls,
            !.host[n].sockets = [i \in {j \in DOMAIN @ : @[j].pid # pid} |-> @[i]]]

(* Of a program that has ended: its ports, and then its sockets. *)
unregisterSockets(n, pid) ==
  LET host == net.host[n]
      own  == {i \in DOMAIN host.sockets : host.sockets[i].pid = pid}
      gone == {host.sockets[i].inode : i \in own}
  IN  net' = [net EXCEPT !.calls[pid] = MaxCalls,
                !.host[n].ports   = [p \in {q \in DOMAIN @ : @[q] \notin gone} |-> @[p]],
                !.host[n].sockets = [i \in DOMAIN @ \ own |-> @[i]]]

(* UDPSocket::write with Listen, and UDP::bind.  Port 0 asks for a random   *)
(* one, which may be 0 again.  A port that is in use changes its socket.    *)
listen(n, i, port) ==
  LET sock == net.host[n].sockets[i]
  IN  \E p \in IF port = 0 THEN Ports \cup {0} ELSE {port} :
        net' = Done([net EXCEPT
                  !.host[n].sockets[i].port  = p,
                  !.host[n].sockets[i].bound = @ \cup {p},
                  !.host[n].ports = IF p = 0 THEN @ ELSE (p :> sock.inode) @@ @], sock.pid)

Datagram(n, i, to, payload) ==
  [source |-> net.host[n].address, sourcePort |-> net.host[n].sockets[i].port, to |-> to, payload |-> payload]

(* SendMultiple stops at the first datagram that fails; SendSingle is the   *)
(* case of one datagram.                                                    *)
sendmsg(n, i, to, payloads) ==
  LET sock == net.host[n].sockets[i]
      send(s, payload) == IF s.result = "Success" THEN udp_sendPacket(s, n, sock.port, to, payload) ELSE s
  IN  net' = Done([FoldLeft(send, net, payloads) EXCEPT
                     !.sent = @ \cup {Datagram(n, i, to, payloads[k]) : k \in DOMAIN payloads}], sock.pid)

(* Mutant: the port of the sender is read in the order of the processor. *)
recvfrom_native(n, i) ==
  LET f == Head(net.host[n].sockets[i].queue)
  IN  net' = [net EXCEPT
                !.host[n].sockets[i].queue = Tail(@),
                !.got = [address |-> Bytes(f, EtherSize + 12, 4),
                         port    |-> f[Offset + 1] + f[Offset + 2] * 256,
                         payload |-> SubSeq(f, Offset + 9, Len(f)),
                         bound   |-> net.host[n].sockets[i].bound]]

(* UDPSocket::read.  The size comes from the frame, not from its headers. *)
recvfrom(n, i) ==
  LET f == Head(net.host[n].sockets[i].queue)
  IN  net' = [net EXCEPT
                !.host[n].sockets[i].queue = Tail(@),
                !.got = [address |-> Bytes(f, EtherSize + 12, 4),
                         port    |-> readBe16(f, Offset),
                         payload |-> SubSeq(f, Offset + 9, Len(f)),
                         bound   |-> net.host[n].sockets[i].bound]]

(* ICMPSocket: the first write tells the address, the next ones a header. *)
connect(n, i, address) ==
  /\ net.host[n].sockets[i].address = Zero
  /\ net' = Done([net EXCEPT !.host[n].sockets[i].address = address], net.host[n].sockets[i].pid)

EchoRequest(id) == <<8, 0, 0, 0>> \o le16(id) \o le16(1)

echo(n, i) ==
  LET sock == net.host[n].sockets[i]
  IN  /\ sock.address # Zero
      /\ net' = Done(icmp_sendPacket(net, n, sock.address, EchoRequest(1), <<>>), sock.pid)

ICMPSocket_read(n, i) == net' = [net EXCEPT !.host[n].sockets[i].queue = Tail(@)]

(* ARPSocket: the address is looked up by the write, and by the read. *)
ARPSocket(n, pid, address) == net' = Done(lookupAddress(net, n, address), pid)

(* IPV4Address::write of an address in text. *)
setAddress(n, pid, text) == net' = Done([net EXCEPT !.host[n].address = toAddress(text)], pid)

-----------------------------------------------------------------------------
(* The wire between two hosts.  A frame is taken by the host it is for, or  *)
(* lost.                                                                    *)
Receive(n, m, stale) ==
  LET f == Head(net.wire[m])
      s == [net EXCEPT !.wire[m] = Tail(@), !.stale = stale]
  IN  /\ net.wire[m] # <<>>
      /\ net' = IF Bytes(f, 0, 6) \in {Ether(n), EtherAll}
                  THEN [process(s, n, f) EXCEPT !.result = "Success", !.stale = 0]
                  ELSE [s EXCEPT !.stale = 0]

Lose(m) ==
  /\ net.wire[m] # <<>> /\ net.lost < MaxLost
  /\ net' = [net EXCEPT !.wire[m] = Tail(@), !.lost = @ + 1]

(* A program of host m, other than those of this module, sends an echo      *)
(* request.                                                                 *)
Ping(n, m, pid, payload) ==
  /\ Len(net.wire[m]) < MaxPackets
  /\ net' = Done([net EXCEPT
              !.wire[m] = Append(@, Padded(etherHeader(m, Ether(n), 2048)
                            \o ipHeader(net, m, IP(n), 1, 8 + Len(payload)) \o icmpHeader(EchoRequest(7), payload, 0)))], pid)

Init ==
  \E loop \in BOOLEAN, use \in {"UDP", "ICMP", "ARP"} :
    net = [loopback |-> loop, use |-> use, result |-> "Success", stale |-> 0, calls |-> [p \in Pids |-> 0],
           inode |-> 1, lost |-> 0, wire |-> [n \in Hosts |-> <<>>], sent |-> {},
           got  |-> [address |-> Zero, port |-> 0, payload |-> <<>>, bound |-> {}],
           host |-> [n \in Hosts |-> [address |-> IP(n), id |-> 1, arp |-> [a \in {} |-> EtherAll],
                                      ports |-> [p \in {} |-> 0], sockets |-> [i \in {} |-> 0]]]]

(* With the loopback device there is one host. *)
Running == IF net.loopback THEN {1} ELSE Hosts

(* The hosts that a program of host n talks to. *)
Peers(n) == IF net.loopback THEN {n} ELSE Hosts \ {n}

Home(pid) == IF net.loopback THEN 1 ELSE pid

UDP(n, pid, own) ==
  \/ createSocket(n, pid)
  \/ unregisterSockets(n, pid)
  \/ \E i \in own, port \in Ports \cup {0} : listen(n, i, port)
  \/ pid \in Senders /\ \E i \in own, a \in {IP(m) : m \in Peers(n)} \cup {Broadcast}, port \in Ports, b \in Payloads :
       sendmsg(n, i, [address |-> a, port |-> port], b)

ICMP(n, pid, own) ==
  \/ createSocket(n, pid)
  \/ unregisterSockets(n, pid)
  \/ \E i \in own : echo(n, i) \/ \E m \in Peers(n) : connect(n, i, IP(m))
  \/ \E m \in Running \ {n}, b \in Pings : Ping(m, n, pid, b)

ARP(n, pid) == (\E m \in Peers(n) : ARPSocket(n, pid, IP(m))) \/ (\E t \in Texts : setAddress(n, pid, t))

Program(pid) ==
  LET n   == Home(pid)
      own == {i \in DOMAIN net.host[n].sockets : net.host[n].sockets[i].pid = pid}
  IN  \/ \E i \in own : net.host[n].sockets[i].queue # <<>> /\ net.use = "UDP"  /\ recvfrom(n, i)
      \/ \E i \in own : net.host[n].sockets[i].queue # <<>> /\ net.use = "ICMP" /\ ICMPSocket_read(n, i)
      \/ net.calls[pid] < MaxCalls /\ net.use = "UDP"  /\ UDP(n, pid, own)
      \/ net.calls[pid] < MaxCalls /\ net.use = "ICMP" /\ ICMP(n, pid, own)
      \/ net.calls[pid] < MaxCalls /\ net.use = "ARP"  /\ ARP(n, pid)

Next ==
  \/ \E pid \in Pids : Program(pid)
  \/ \E n \in Running : Lose(n)
  \/ \E n \in Running, m \in Running, b \in Stale : n # m /\ Receive(n, m, b)

-----------------------------------------------------------------------------
(* A datagram that a program reads was sent with that payload by the        *)
(* address and the port it is told, to a port that the socket was bound to, *)
(* whatever was lost, or bound and closed meanwhile.  Only the zeros that a *)
(* device appends may follow (UDP::sendPacket, UDPSocket::read).            *)
DatagramsIntact ==
  net.got.bound # {} =>
    \E d \in net.sent :
      /\ d.source = net.got.address /\ d.sourcePort = net.got.port
      /\ d.to.port \in net.got.bound
      /\ IsPrefix(d.payload, net.got.payload)
      /\ \A k \in DOMAIN net.got.payload : k > Len(d.payload) => net.got.payload[k] = 0

(* A port leads to a socket that exists, also after programs have ended     *)
(* whose sockets shared or took over a port (UDP::unregisterSockets).       *)
PortsLive ==
  \A n \in Hosts : \A p \in DOMAIN net.host[n].ports :
    \E i \in DOMAIN net.host[n].sockets : net.host[n].sockets[i].inode = net.host[n].ports[p]

(* The definition of the Internet checksum: the big endian words, with a    *)
(* zero byte after an odd number, add up to all ones.                       *)
Verifies(b) == Carry(Carry(Sum(b, 1, 256, 1))) = 65535

Frames == UNION {{net.wire[n][k] : k \in DOMAIN net.wire[n]} : n \in Hosts}

IpFrames(protocol) == {f \in Frames : readBe16(f, 12) = 2048 /\ f[EtherSize + 10] = protocol}

(* What follows the IP header, in the length that it tells. *)
Segment(f) == Bytes(f, Offset, readBe16(f, EtherSize + 2) - IpSize)

(* The receiver of a datagram finds both checksums right (IPV4::checksum,   *)
(* UDP::checksum).                                                          *)
DatagramsVerify ==
  \A f \in IpFrames(17) :
    /\ Verifies(Bytes(f, EtherSize, IpSize))
    /\ Verifies(Bytes(f, EtherSize + 12, 8) \o <<0, 17>> \o be16(Len(Segment(f))) \o Segment(f))

(* The receiver of an echo request or reply finds its checksum right        *)
(* (ICMP::sendPacket, which takes IPV4::checksum).                          *)
EchoVerifies == \A f \in IpFrames(1) : Len(f) >= Offset + Len(Segment(f)) => Verifies(Segment(f))

=============================================================================
