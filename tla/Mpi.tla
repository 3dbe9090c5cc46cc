---------------------------------- MODULE Mpi ---------------------------------
(* The message passing interface and the programs that use it. *)
EXTENDS Integers, Sequences, FiniteSets, SequencesExt

(* Message passing (lib/libmpi): a master program and its ranks.  On a       *)
(* FreeNOS machine the master (MpiTarget) starts one rank per core and       *)
(* shares a memory channel in each direction with it.  On another host the   *)
(* master (MpiHost) speaks UDP with the proxy server of every machine        *)
(* (server/mpiproxy), which holds the channels on its behalf.                *)

CONSTANTS Nodes,              \* rank -> ip address of its proxy and core
          Capacity,           \* messages a channel holds
          IntSize,            \* sizeof(int)
          HeaderSize, MaximumPacketSize,
          MaxPackets,         \* NetworkQueue::MaxPackets
          NumOfParallelStart,
          Counts,             \* data counts of one call
          MaxItems,           \* bound: items sent in each direction
          MaxCalls            \* bound: calls of the master program
VARIABLE mpi

Ranks == DOMAIN Nodes
Hosts == {Nodes[r].ip : r \in Ranks}
coreCount == Cardinality(Ranks) + 1
Types == {"MPI_INT", "MPI_UNSIGNED_CHAR"}
Idle == [operation |-> "none", rank |-> 0, count |-> 0, data |-> <<>>]

(* The master (on host or target), the proxies, and the ranks with their two *)
(* channels.  An item is known by its number; sent, received and read count  *)
(* the items of each direction.                                              *)
Mpi_Init ==
  \E backend \in {"MpiHost", "MpiTarget"}, type \in Types :
    mpi = [backend |-> backend, type |-> type, pc |-> "initialize", index |-> 1, first |-> 1, call |-> Idle, calls |-> 0, left |-> 0,
           socket |-> <<>>, buffers |-> [r \in Ranks |-> <<>>], received |-> [r \in Ranks |-> <<>>], sent |-> [r \in Ranks |-> 0],
           queue |-> [h \in Hosts |-> <<>>], job |-> [h \in Hosts |-> Idle], packets |-> [h \in Hosts |-> <<>>],
           memory |-> [h \in Hosts |-> FALSE], pids |-> [h \in Hosts |-> {}],
           base |-> [r \in Ranks |-> <<>>], slave |-> [r \in Ranks |-> <<>>], rank |-> [r \in Ranks |-> "none"],
           toRank |-> [r \in Ranks |-> <<>>], fromRank |-> [r \in Ranks |-> <<>>], read |-> [r \in Ranks |-> <<>>], written |-> [r \in Ranks |-> 0]]

(* getMemoryBaseRead and getMemoryBaseWrite: in pages from the start of the  *)
(* memory, as process me sees the channels it shares with process other.     *)
getMemoryBaseRead(me, other) == IF me = 0 THEN 2 * other ELSE (2 * other) + (2 * coreCount)

(* A form that gives both sides the same pages for writing.                  *)
getMemoryBaseWrite_same(me, other) == (2 * other) + (2 * coreCount)
getMemoryBaseWrite(me, other) == IF me = 0 THEN (2 * other) + (2 * coreCount) ELSE 2 * other

\* A rank's program starts: initializeSlave
Mpi_initializeSlave(s, r) ==
  [s EXCEPT !.rank[r] = "running", !.slave[r] = <<getMemoryBaseRead(r, r), getMemoryBaseWrite(r, r)>>]

(* MpiTarget::initializeMaster: own program read, decompressed and started   *)
(* on each core in turn; any step may fail.                                  *)
initializeMaster ==
  /\ mpi.backend = "MpiTarget" /\ mpi.pc = "initialize"
  /\ \/ mpi' = [mpi EXCEPT !.pc = "failed"]
     \/ /\ mpi.index \in Ranks
        /\ mpi' = [Mpi_initializeSlave(mpi, mpi.index) EXCEPT !.index = @ + 1]
     \/ /\ mpi.index \notin Ranks
        /\ mpi' = [mpi EXCEPT !.pc = "idle", !.base = [r \in Ranks |-> <<getMemoryBaseRead(0, r), getMemoryBaseWrite(0, r)>>]]

(* MpiHost::startProcesses: up to NumOfParallelStart requests, then their    *)
(* acknowledgements in rank order.                                           *)
sendPacket(s, r, op, count, data) ==
  [s EXCEPT !.queue[Nodes[r].ip] = Append(@, [operation |-> op, rank |-> r, count |-> count, data |-> data])]

startProcesses ==
  /\ mpi.backend = "MpiHost" /\ mpi.pc = "initialize"
  /\ IF mpi.index \in Ranks /\ mpi.index - mpi.first < NumOfParallelStart
     THEN mpi' = [sendPacket(mpi, mpi.index, "Exec", 0, <<>>) EXCEPT !.index = @ + 1]
     ELSE mpi' = [mpi EXCEPT !.pc = "acknowledge"]

(* A form that waits for all but the last acknowledgement of a batch.        *)
Acknowledged_off_by_one(s, p) ==
  IF s.first + 2 < s.index THEN [s EXCEPT !.first = @ + 1]
  ELSE [s EXCEPT !.first = s.index, !.pc = IF s.index \in Ranks THEN "initialize" ELSE "idle"]

Acknowledged(s, p) ==
  IF s.first + 1 < s.index THEN [s EXCEPT !.first = @ + 1]
  ELSE [s EXCEPT !.first = s.index, !.pc = IF s.index \in Ranks THEN "initialize" ELSE "idle"]

(* The item numbers of a call, and their bytes in a packet.                  *)
Items(from, count) == [i \in 1..count |-> from + i]
Size(type) == IF type = "MPI_INT" THEN IntSize ELSE 1
Byte(type, items, b) ==
  LET k == ((b - 1) \div Size(type)) + 1 IN
  IF k \in DOMAIN items /\ (b - 1) % Size(type) = 0 THEN items[k] ELSE 0
Bytes(type, items) == [b \in 1..(Len(items) * (Size(type) + 1)) |-> Byte(type, items, b)]

(* MPI_Send on the master: MpiHost::send in one packet, or MpiTarget::send   *)
(* item by item.                                                             *)
Call(op, r, c) == [mpi EXCEPT !.calls = @ + 1, !.left = c, !.call = [operation |-> op, rank |-> r, count |-> c, data |-> <<>>]]

MPI_Send(r, c) ==
  /\ mpi.pc = "idle" /\ mpi.calls < MaxCalls /\ mpi.sent[r] + c <= MaxItems
  /\ IF mpi.backend = "MpiTarget" THEN mpi' = [Call("Send", r, c) EXCEPT !.pc = "send"]
     ELSE IF (c * Size(mpi.type)) + HeaderSize > MaximumPacketSize THEN mpi' = [mpi EXCEPT !.calls = @ + 1]
     ELSE mpi' = [sendPacket(mpi, r, "Send", c, Items(mpi.sent[r], c)) EXCEPT !.calls = @ + 1, !.sent[r] = @ + c]

send ==
  /\ mpi.pc = "send" /\ Len(mpi.toRank[mpi.call.rank]) < Capacity
  /\ mpi' = [mpi EXCEPT !.toRank[mpi.call.rank] = Append(@, mpi.sent[mpi.call.rank] + 1), !.sent[mpi.call.rank] = @ + 1,
                        !.left = @ - 1, !.pc = IF mpi.left = 1 THEN "idle" ELSE "send"]

(* MPI_Recv on the master.                                                   *)
MPI_Recv(r, c) ==
  /\ mpi.pc = "idle" /\ mpi.calls < MaxCalls /\ Len(mpi.received[r]) + c <= MaxItems
  /\ mpi' = IF mpi.backend = "MpiTarget" THEN [Call("Recv", r, c) EXCEPT !.pc = "receive"]
            ELSE [sendPacket(Call("Recv", r, c), r, "Recv", c, <<>>) EXCEPT !.pc = "receive"]

receive_target ==
  /\ mpi.backend = "MpiTarget" /\ mpi.pc = "receive" /\ mpi.fromRank[mpi.call.rank] # <<>>
  /\ mpi' = [mpi EXCEPT !.received[mpi.call.rank] = Append(@, Head(mpi.fromRank[mpi.call.rank])),
                        !.fromRank[mpi.call.rank] = Tail(@), !.left = @ - 1, !.pc = IF mpi.left = 1 THEN "idle" ELSE "receive"]

(* MpiHost::receive takes item j of a packet from byte j, whatever its type. *)
Decoded(type, bytes, j) ==
  IF type = "MPI_UNSIGNED_CHAR" THEN bytes[j]
  ELSE LET d[i \in 0..IntSize] == IF i = 0 THEN 0 ELSE d[i - 1] + (bytes[j + i - 1] * (256 ^ (i - 1))) IN d[IntSize]

Received(s, p) ==
  [s EXCEPT !.received[s.call.rank] = @ \o [j \in 1..p.count |-> Decoded(s.type, p.data, j)], !.left = @ - p.count,
            !.pc = IF s.left <= p.count THEN "idle" ELSE "receive"]

(* MPI_Finalize: MpiHost::terminate goes through the ranks one by one.       *)
MPI_Finalize ==
  /\ mpi.pc = "idle"
  /\ mpi' = IF mpi.backend = "MpiTarget" THEN [mpi EXCEPT !.pc = "done"]
            ELSE [sendPacket(mpi, 1, "Terminate", 0, <<>>) EXCEPT !.pc = "terminate", !.first = 1]

Terminated(s, p) ==
  IF s.first + 1 \notin Ranks THEN [s EXCEPT !.pc = "done"]
  ELSE [sendPacket(s, s.first + 1, "Terminate", 0, <<>>) EXCEPT !.first = @ + 1]

(* What the caller does with the packet it asked for. *)
Done(op, s, p) ==
  CASE op = "Exec"      -> Acknowledged(s, p)
    [] op = "Recv"      -> Received(s, p)
    [] op = "Terminate" -> Terminated(s, p)

(* receivePacket(rank, operation): first what was buffered of the rank; then *)
(* the socket, where packets of other ranks go to their buffers and another  *)
(* operation of this rank is an error.                                       *)
Buffered(r, op) == SelectSeq(mpi.buffers[r], LAMBDA p : p.operation = op)

Matches(p, r) == p.ip = Nodes[r].ip /\ p.core = Nodes[r].core

Other(p) == {r \in Ranks : Matches(p, r)}

receivePacket(r, op) ==
  IF Buffered(r, op) # <<>>
  THEN mpi' = Done(op, [mpi EXCEPT !.buffers[r] = RemoveFirst(@, Head(Buffered(r, op)))], Head(Buffered(r, op)))
  ELSE /\ mpi.socket # <<>>
       /\ LET p == Head(mpi.socket) IN
          IF Matches(p, r)
          THEN IF p.operation = op THEN mpi' = Done(op, [mpi EXCEPT !.socket = Tail(@)], p)
               ELSE mpi' = [mpi EXCEPT !.socket = Tail(@), !.pc = "failed"]
          ELSE mpi' = [mpi EXCEPT !.socket = Tail(@),
                                  !.buffers = [o \in Ranks |-> IF o \in Other(p) THEN Append(@[o], p) ELSE @[o]]]

acknowledge == mpi.pc = "acknowledge" /\ receivePacket(mpi.first, "Exec")

receive_host == mpi.backend = "MpiHost" /\ mpi.pc = "receive" /\ receivePacket(mpi.call.rank, "Recv")

terminate == mpi.pc = "terminate" /\ receivePacket(mpi.first, "Terminate")

(* The proxy of host h.  Reply hands a packet to the host's socket.          *)
Packet(h, r, op, count, data) == [ip |-> h, core |-> Nodes[r].core, operation |-> op, count |-> count, data |-> data]
Reply(s, h, r, op) == [s EXCEPT !.socket = Append(@, Packet(h, r, op, 0, <<>>)), !.queue[h] = Tail(@)]

Request(h, op) == mpi.job[h] = Idle /\ mpi.queue[h] # <<>> /\ Head(mpi.queue[h]).operation = op

(* createChannels: memory for all ranks with the first of this proxy.        *)
createChannels(s, h, r) ==
  [s EXCEPT !.memory[h] = TRUE, !.base[r] = <<2 * r, (2 * coreCount) + (2 * r)>>]

(* processExec: no acknowledgement when the channels cannot be made; a       *)
(* program that cannot be started is acknowledged.                           *)
processExec(h) ==
  /\ Request(h, "Exec")
  /\ LET r == Head(mpi.queue[h]).rank IN
     \/ mpi' = [mpi EXCEPT !.queue[h] = Tail(@)]
     \/ mpi' = Reply(createChannels(mpi, h, r), h, r, "Exec")
     \/ mpi' = Reply([createChannels(Mpi_initializeSlave(mpi, r), h, r) EXCEPT !.pids[h] = @ \cup {Nodes[r].core}], h, r, "Exec")

(* processSend: every item goes to the channel, waiting while it is full.    *)
processSend(h) ==
  \/ /\ Request(h, "Send")
     /\ mpi' = [mpi EXCEPT !.queue[h] = Tail(@), !.job[h] = Head(mpi.queue[h])]
  \/ /\ mpi.job[h].operation = "Send"
     /\ LET r == mpi.job[h].rank IN
        /\ Len(mpi.toRank[r]) < Capacity
        /\ mpi' = [mpi EXCEPT !.toRank[r] = Append(@, Head(mpi.job[h].data)),
                              !.job[h] = IF Len(mpi.job[h].data) = 1 THEN Idle ELSE [@ EXCEPT !.data = Tail(@)]]

(* processRecv: items are read as they come and packed until the packet is   *)
(* full; the packets leave together when MaxPackets are ready or all items   *)
(* are there.                                                                *)
Full(items) == HeaderSize + (Len(items) * (Size(mpi.type) + 1)) >= MaximumPacketSize

(* A form that starts every packet of a batch in the first slot.             *)
Flush_last(s, h, r) == [s EXCEPT !.packets[h] = <<>>,
                                 !.socket = Append(@, Packet(h, r, "Recv", Len(Last(s.packets[h])), Bytes(s.type, Last(s.packets[h]))))]
Flush(s, h, r) ==
  [s EXCEPT !.packets[h] = <<>>,
            !.socket = @ \o [k \in 1..Len(s.packets[h]) |-> Packet(h, r, "Recv", Len(s.packets[h][k]), Bytes(s.type, s.packets[h][k]))]]

Pack(packets, item) ==
  IF packets = <<>> \/ Full(Last(packets)) THEN Append(packets, <<item>>)
  ELSE [packets EXCEPT ![Len(packets)] = Append(@, item)]

processRecv(h) ==
  \/ /\ Request(h, "Recv")
     /\ mpi' = [mpi EXCEPT !.queue[h] = Tail(@), !.job[h] = Head(mpi.queue[h])]
  \/ /\ mpi.job[h].operation = "Recv"
     /\ LET r == mpi.job[h].rank
            packed == Pack(mpi.packets[h], Head(mpi.fromRank[r]))
            s == [mpi EXCEPT !.fromRank[r] = Tail(@), !.packets[h] = packed, !.job[h].count = @ - 1]
        IN /\ mpi.fromRank[r] # <<>>
           /\ mpi' = IF mpi.job[h].count = 1 THEN [Flush(s, h, r) EXCEPT !.job[h] = Idle]
                     ELSE IF Len(packed) = MaxPackets /\ Full(Last(packed)) THEN Flush(s, h, r) ELSE s

(* processTerminate: wait for the program of core 0 alone, then give the     *)
(* memory of all channels back.                                              *)
Mpi_processTerminate(h) ==
  /\ Request(h, "Terminate")
  /\ 0 \in mpi.pids[h] => \A r \in Ranks : Nodes[r] = [ip |-> h, core |-> 0] => mpi.rank[r] # "running"
  /\ mpi' = Reply([mpi EXCEPT !.pids[h] = {}, !.memory[h] = FALSE], h, Head(mpi.queue[h]).rank, "Terminate")

(* A rank: MpiTarget::send and receive with the master, one item at a time.  *)
rank_send(r) ==
  /\ mpi.rank[r] = "running" /\ mpi.written[r] < MaxItems /\ Len(mpi.fromRank[r]) < Capacity
  /\ mpi' = [mpi EXCEPT !.fromRank[r] = Append(@, mpi.written[r] + 1), !.written[r] = @ + 1]

rank_receive(r) ==
  /\ mpi.rank[r] = "running" /\ mpi.toRank[r] # <<>>
  /\ mpi' = [mpi EXCEPT !.toRank[r] = Tail(@), !.read[r] = Append(@, Head(mpi.toRank[r]))]

rank_exit(r) ==
  /\ mpi.rank[r] = "running"
  /\ mpi' = [mpi EXCEPT !.rank[r] = "exited"]

Mpi_Next ==
  \/ initializeMaster \/ startProcesses \/ acknowledge \/ send \/ receive_target \/ receive_host \/ MPI_Finalize \/ terminate
  \/ \E r \in Ranks : rank_send(r) \/ rank_receive(r) \/ rank_exit(r) \/ \E c \in Counts : MPI_Send(r, c) \/ MPI_Recv(r, c)
  \/ \E h \in Hosts : processExec(h) \/ processSend(h) \/ processRecv(h) \/ Mpi_processTerminate(h)

InOrder(items) == \A i \in DOMAIN items : items[i] = i

(* What the master receives from a rank, and a rank from the master, is what *)
(* the other sent, in order and without gaps, through channels that fill up, *)
(* packets that fill up and replies of several proxies in any order.         *)
DataInOrder ==
  \A r \in Ranks : InOrder(mpi.read[r]) /\ (mpi.backend = "MpiTarget" \/ mpi.type = "MPI_UNSIGNED_CHAR" => InOrder(mpi.received[r]))

(* The same for integers that MpiHost receives.                              *)
IntegersInOrder == \A r \in Ranks : InOrder(mpi.received[r])

(* Between two calls of the host no reply is under way or buffered that a    *)
(* later call could take for its own.                                        *)
RepliesConsumed == mpi.pc = "idle" => mpi.socket = <<>> /\ \A r \in Ranks : mpi.buffers[r] = <<>>

(* Master and rank use the same pages for a channel, each the ones the other *)
(* does not write, and no page twice.                                        *)
ChannelsPaired ==
  /\ \A r \in Ranks : mpi.base[r] # <<>> /\ mpi.slave[r] # <<>> => mpi.base[r] = Reverse(mpi.slave[r])
  /\ \A r, o \in Ranks, i, j \in 1..2 :
       mpi.slave[r] # <<>> /\ mpi.slave[o] # <<>> /\ (r # o \/ i # j) =>
         /\ mpi.slave[r][i] + 1 < mpi.slave[o][j] \/ mpi.slave[o][j] + 1 < mpi.slave[r][i]
         /\ mpi.slave[r][i] + 1 < 4 * coreCount

(* A proxy keeps the channel memory while one of its ranks still runs.       *)
MemoryHeld == \A r \in Ranks : mpi.backend = "MpiHost" /\ mpi.rank[r] = "running" => mpi.memory[Nodes[r].ip]

-------------------------------------------------------------------------------
(***************************************************************************)
(* Programs on the message passing interface: the prime sieve on one core  *)
(* and on several (bin/prime, bin/mpiprime), the ping (bin/mpiping), and   *)
(* how such a program is started from a hosts file by MpiHost and the      *)
(* proxy server (server/mpiproxy).  Messages between ranks arrive once and *)
(* in order, which the module Mpi checks.  A behaviour is one job.         *)
(***************************************************************************)
CONSTANTS Numbers,    \* arguments NUMBER of the sieve
          Cores,      \* numbers of cores
          Files,      \* hosts files: sequences of lines
          Commands    \* what the user gave the program: sequences of words
VARIABLE mp

NoPrime == [n |-> 0, cores |-> 1, at |-> <<"done">>, sent |-> <<{}>>, next |-> 1, out |-> <<>>]
NoPing == [cores |-> 1, at |-> <<"done">>, sent |-> <<0>>, got |-> <<0>>, index |-> 1]
NoLaunch == [lines |-> <<>>, user |-> <<>>, pc |-> "done", nodes |-> <<>>, index |-> 1, proxy |-> "down", base |-> 0, bases |-> 0,
             pids |-> [c \in 0..1 |-> 0], procs |-> <<>>, held |-> 0, failed |-> 0]

(* SievePrime::searchSequential: what is left set of a map of n entries.    *)
searchSequential(n) ==
  LET map[j \in 0 .. n - 1] == \A i \in 2 .. j - 1 : j % i = 0 => ~ map[i] IN map
sqrt(n) == CHOOSE r \in 0 .. n : r * r <= n /\ (r + 1) * (r + 1) > n
(* Numbers first up to before last that no prime below root divides. *)
Marked(root, first, last) ==
  LET map == searchSequential(root) IN {i \in first .. last - 1 : \A k \in 2 .. root - 1 : map[k] => i % k # 0}
reportResult(n, numbers) == SelectSeq([i \in 1 .. n |-> i - 1], LAMBDA i : i \in numbers)
Left(root) == {i \in 0 .. root - 1 : searchSequential(root)[i]}
(* SievePrime::exec prints what remains of the whole map. *)
SievePrime(n) == reportResult(n, Left(sqrt(n)) \cup Marked(sqrt(n), sqrt(n), n))

(* MpiPrime::exec: the range is rounded up to the cores and divided. *)
Rounded(n, cores) == IF n % cores # 0 THEN (n + cores) - (n % cores) ELSE n
numbersPerCore(n, cores) == (n - sqrt(n)) \div cores
numberStart(n, cores, id) == sqrt(n) + (id * numbersPerCore(n, cores))
searchParallel(n, cores, id) == Marked(sqrt(n), numberStart(n, cores, id), numberStart(n, cores, id) + numbersPerCore(n, cores))
Search(id) ==
  /\ mp.prime.at[id + 1] = "search"
  /\ mp' = [mp EXCEPT !.prime.at[id + 1] = "collect"]
(* MpiPrime::collect: a worker sends its map, entries counted from zero ... *)
Send(id) ==
  LET p == mp.prime IN
    /\ id # 0 /\ p.at[id + 1] = "collect"
    /\ mp' = [mp EXCEPT !.prime.sent[id + 1] = {i - numberStart(p.n, p.cores, id) : i \in searchParallel(p.n, p.cores, id)},
                        !.prime.at[id + 1] = "done"]
(* ... the master reports its own and then those of the workers in turn.    *)
Report ==
  LET p == mp.prime IN
    /\ p.at[1] = "collect"
    /\ mp' = [mp EXCEPT !.prime.out = reportResult(p.n, Left(sqrt(p.n))) \o reportResult(p.n, searchParallel(p.n, p.cores, 0)), !.prime.at[1] = "receive"]
Shift(p, i) == (numbersPerCore(p.n, p.cores) * i) + sqrt(p.n)
Receive ==
  LET p == mp.prime IN
    /\ p.at[1] = "receive"
    /\ IF p.next = p.cores THEN mp' = [mp EXCEPT !.prime.at[1] = "done"]
       ELSE /\ p.at[p.next + 1] = "done"
            /\ mp' = [mp EXCEPT !.prime.out = @ \o reportResult(p.n, {i + Shift(p, p.next) : i \in p.sent[p.next + 1]}), !.prime.next = @ + 1]

(* MpiPing::exec: the master pings every rank and waits for its pong, a     *)
(* rank waits for the ping and answers.  A rank whose initialization failed *)
(* ends at once.                                                            *)
Ping ==
  LET g == mp.ping IN
    /\ g.at[1] = "run" /\ g.index < g.cores
    /\ g.sent[g.index + 1] = 0
    /\ mp' = [mp EXCEPT !.ping.sent[g.index + 1] = 1]
Pong ==
  LET g == mp.ping IN
    /\ g.at[1] = "run" /\ g.index < g.cores
    /\ g.sent[g.index + 1] = 1 /\ g.got[g.index + 1] = 2
    /\ mp' = [mp EXCEPT !.ping.index = @ + 1]
Finalize == mp.ping.at[1] = "run" /\ mp.ping.index >= mp.ping.cores /\ mp' = [mp EXCEPT !.ping.at[1] = "done"]
Slave(r) ==
  LET g == mp.ping IN
    /\ r + 1 \in 2 .. g.cores /\ g.at[r + 1] = "run"
    /\ \/ g.got[r + 1] = 0 /\ g.sent[r + 1] = 1 /\ mp' = [mp EXCEPT !.ping.got[r + 1] = 1]
       \/ g.got[r + 1] = 1 /\ mp' = [mp EXCEPT !.ping.got[r + 1] = 2, !.ping.at[r + 1] = "done"]
MPI_Init_fails(r) ==
  /\ r + 1 \in 2 .. mp.ping.cores /\ mp.ping.at[r + 1] = "run" /\ mp.ping.got[r + 1] = 0
  /\ mp' = [mp EXCEPT !.ping.at[r + 1] = "failed"]

(* MpiHost::initialize reads the hosts file: a line is a comment, a node's  *)
(* core, or anything else.                                                  *)
parseHostsFile(lines) ==
  LET nodes == SelectSeq(lines, LAMBDA l : l # "#") IN
    IF \E i \in DOMAIN nodes : nodes[i] \notin {"core0", "core1"} THEN <<FALSE, <<>>>>
    ELSE <<TRUE, [i \in DOMAIN nodes |-> IF nodes[i] = "core0" THEN 0 ELSE 1]>>
initialize ==
  LET l == mp.launch  read == parseHostsFile(l.lines) IN
    /\ l.pc = "initialize" /\ l.proxy # "down"
    /\ mp' = IF read[1] THEN [mp EXCEPT !.launch.nodes = read[2], !.launch.pc = "start"] ELSE [mp EXCEPT !.launch.pc = "done"]
(* MpiProxy::initialize: any of its calls may fail. *)
proxy_initialize ==
  /\ mp.launch.pc = "initialize" /\ mp.launch.proxy = "down"
  /\ \E s \in {"up", "failed"} : mp' = [mp EXCEPT !.launch.proxy = s]

(* The command is one line of words, which the proxy splits at the spaces:  *)
(* an empty word is lost, one with a space in it becomes two.               *)
Words(word) == CASE word = "" -> <<>> [] word = "a b" -> <<"a", "b">> [] OTHER -> <<word>>
Split(user) == FlattenSeq([i \in DOMAIN user |-> Words(user[i])])
slaveCommand(base, rank, count, user) == <<"program", "--slave", base, rank, count>> \o Split(user)
MpiPrograms_initializeSlave(argv) == [base |-> argv[3], rank |-> argv[4], count |-> argv[5], args |-> <<argv[1]>> \o SubSeq(argv, 6, Len(argv))]

(* processExec: the channels, then the process, here or on another core.    *)
(* The answer tells whether it was started, which the master does not read. *)
Base(l) == IF l.base # 0 THEN l.base ELSE l.bases + 1
Channels(l) == [l EXCEPT !.base = Base(l), !.bases = IF l.base # 0 THEN @ ELSE @ + 1, !.index = @ + 1]
Count(l) == Len(l.nodes) + 1
Started(l, core) ==
  LET me == MpiPrograms_initializeSlave(slaveCommand(Base(l), l.index, Count(l), l.user)) IN
    [Channels(l) EXCEPT !.procs = Append(@, [base |-> me.base, rank |-> me.rank, count |-> me.count, args |-> me.args, core |-> core, running |-> TRUE])]
Exec(l, core) == l.pc = "start" /\ l.proxy = "up" /\ l.index \in DOMAIN l.nodes /\ l.nodes[l.index] = core
Failure(l, buffer) == [Channels(l) EXCEPT !.failed = @ + 1, !.held = @ + buffer]
startLocalProcess ==
  LET l == mp.launch IN
    /\ Exec(l, 0)
    /\ \/ mp' = [mp EXCEPT !.launch = [Started(l, 0) EXCEPT !.pids[0] = Len(l.procs) + 1]]
       \/ mp' = [mp EXCEPT !.launch = Failure(l, 0)]
startRemoteProcess ==
  LET l == mp.launch IN
    /\ Exec(l, 1)
    /\ \/ mp' = [mp EXCEPT !.launch = [Started(l, 1) EXCEPT !.pids[1] = 99]]
       \/ mp' = [mp EXCEPT !.launch = Failure(l, 0)]     \* the program cannot be read or there is no memory
       \/ mp' = [mp EXCEPT !.launch = Failure(l, 1)]     \* it cannot be decompressed or started
Run ==
  LET l == mp.launch IN
    /\ l.pc = "start" /\ (l.proxy = "failed" \/ l.index \notin DOMAIN l.nodes)
    /\ mp' = [mp EXCEPT !.launch.pc = IF l.proxy = "failed" THEN "done" ELSE "terminate"]
Exit(p) ==
  /\ p \in DOMAIN mp.launch.procs /\ mp.launch.procs[p].running
  /\ mp' = [mp EXCEPT !.launch.procs[p].running = FALSE]
(* processTerminate waits for the process noted for its own core. *)
MpiPrograms_processTerminate ==
  LET l == mp.launch IN
    /\ l.pc = "terminate" /\ (l.pids[0] # 0 => ~ l.procs[l.pids[0]].running)
    /\ mp' = [mp EXCEPT !.launch.pids = [c \in 0..1 |-> 0], !.launch.base = 0, !.launch.pc = "done"]

MpiPrograms_Init ==
  \/ \E n \in Numbers, cores \in Cores :
       mp = [prime |-> [NoPrime EXCEPT !.n = Rounded(n, cores), !.cores = cores, !.at = [i \in 1..cores |-> "search"], !.sent = [i \in 1..cores |-> {}]],
             ping |-> NoPing, launch |-> NoLaunch]
  \/ \E cores \in Cores :
       mp = [prime |-> NoPrime, launch |-> NoLaunch,
             ping |-> [NoPing EXCEPT !.cores = cores, !.at = [i \in 1..cores |-> "run"], !.sent = [i \in 1..cores |-> 0], !.got = [i \in 1..cores |-> 0]]]
  \/ \E lines \in Files, user \in Commands :
       mp = [prime |-> NoPrime, ping |-> NoPing, launch |-> [NoLaunch EXCEPT !.lines = lines, !.user = user, !.pc = "initialize"]]

MpiPrograms_Next ==
  \/ \E id \in 0 .. mp.prime.cores - 1 : Search(id) \/ Send(id)
  \/ Report
  \/ Receive
  \/ Ping
  \/ Pong
  \/ Finalize
  \/ \E r \in 1 .. mp.ping.cores : Slave(r) \/ MPI_Init_fails(r)
  \/ initialize
  \/ proxy_initialize
  \/ startLocalProcess
  \/ startRemoteProcess
  \/ Run
  \/ \E p \in DOMAIN mp.launch.procs : Exit(p)
  \/ MpiPrograms_processTerminate

-----------------------------------------------------------------------------
IsPrime(i) == i >= 2 /\ \A d \in 2 .. i - 1 : i % d # 0
Reported == {mp.prime.out[i] : i \in DOMAIN mp.prime.out}

(* The numbers the master reports are in order and are those the sequential *)
(* program reports up to the end of the last core's range, among them every *)
(* prime there: no number is lost or reported twice where ranges meet.      *)
AsSequential ==
  LET p == mp.prime  end == numberStart(p.n, p.cores, p.cores) IN
    p.at[1] = "done" /\ p.n > 0 =>
      /\ p.out = SelectSeq(SievePrime(p.n), LAMBDA i : i < end)
      /\ \A i \in 2 .. end - 1 : IsPrime(i) => i \in Reported

(* The master reports a pong of a rank only if that rank answered, and ends *)
(* well only if all did.                                                    *)
EveryPong == \A r \in 1 .. mp.ping.cores - 1 : r < mp.ping.index \/ mp.ping.at[1] = "done" => mp.ping.got[r + 1] = 2

(* Ranks follow the lines of the hosts file, know their number and that of  *)
(* all ranks, share the proxy's memory until it terminates, and see the     *)
(* plain words the user gave.                                               *)
RanksStarted ==
  \A p \in DOMAIN mp.launch.procs : LET l == mp.launch  proc == l.procs[p] IN
    /\ proc.core = l.nodes[proc.rank] /\ proc.count = Count(l)
    /\ l.pc # "done" => proc.base = l.base
    /\ (\A i \in DOMAIN l.user : l.user[i] \notin {"", "a b"}) => proc.args = <<"program">> \o l.user

(* With one rank on its own core the proxy confirms the termination after   *)
(* that rank has ended, and holds no buffer unless starting a rank failed.  *)
LocalWaited ==
  LET l == mp.launch IN l.pc = "done" =>
    /\ l.failed = 0 => l.held = 0
    /\ Cardinality({p \in DOMAIN l.procs : l.procs[p].core = 0}) = 1 => \A p \in DOMAIN l.procs : l.procs[p].core = 0 => ~ l.procs[p].running

(* "Send acknowledge of start": the program runs with all ranks started. *)
AllStarted == mp.launch.pc = "terminate" => mp.launch.failed = 0
(* "Compute prime numbers": only primes are reported. *)
OnlyPrimes == \A i \in Reported : IsPrime(i)
(* "Make sure n is divisible by the number of workers": all of the range is searched. *)
WholeRange == mp.prime.at[1] = "done" => \A i \in 2 .. mp.prime.n - 1 : IsPrime(i) => i \in Reported
(* "Loop PIDs of active processes and wait for each to terminate". *)
EveryLocalWaited == mp.launch.pc = "done" => \A p \in DOMAIN mp.launch.procs : mp.launch.procs[p].core = 0 => ~ mp.launch.procs[p].running
(* "Cleanup uncompressed program buffer". *)
BufferCleaned == mp.launch.held = 0
(* "Pass the rest of the arguments to the user program". *)
ArgumentsPassed == \A p \in DOMAIN mp.launch.procs : mp.launch.procs[p].args = <<"program">> \o mp.launch.user
===============================================================================
