------------------------------ MODULE CoreServer ------------------------------
(* The core server (server/core): core 0 loads the kernel, boots the other   *)
(* cores and starts programs on them for its clients (lib/libruntime         *)
(* CoreClient).  Master and slaves exchange messages over one MemoryChannel  *)
(* in each direction; a slave sleeps until the master's inter-processor      *)
(* interrupt (IPI) wakes it.                                                 *)
EXTENDS Integers, Sequences, FiniteSets

CONSTANTS Cores,            \* the cores, numbered from 0
          Clients,
          Capacity,         \* messages a channel holds
          Memory,           \* the machines: pages of memory, of the parts of a core,
                            \* and of a part's last page (0 or 1)
          Granule,          \* MegaByte(4), in pages
          MaxCalls          \* bound: requests
VARIABLE core

Slaves == Cores \ {0}
None == [client |-> "none", result |-> "none"]

(* CoreServer::initialize on core 0, in this order.                          *)
Steps == <<"loadKernel", "discoverCores", "prepareCoreInfo", "setupChannels", "bootAll", "unloadKernel">>

(* The master, each slave and its two channels, and the clients.             *)
Init ==
  \E m \in Memory :
    core = [memory |-> m, step |-> 1, info |-> <<>>, buffers |-> {}, channels |-> FALSE,
            master |-> "initialize", current |-> None, requests |-> <<>>, calls |-> 0,
            slave |-> [n \in Slaves |-> "off"], got |-> [n \in Slaves |-> None],
            toSlave |-> [n \in Slaves |-> <<>>], fromSlave |-> [n \in Slaves |-> <<>>],
            ipi |-> [n \in Slaves |-> FALSE], wakeups |-> [n \in Slaves |-> 0],
            client |-> [c \in Clients |-> "idle"], dropped |-> {}]

(* A form that lets the boot image of a core follow its kernel in the same   *)
(* page.                                                                     *)
AfterPage_unaligned(address, size, part) == address + size

(* The next part of a core's memory starts behind the page in which the last *)
(* one ended (a whole page further when it ended on a boundary; pages are    *)
(* the unit here, part is the used share of a last page).                    *)
AfterPage(address, size, part) == address + size + 1

(* prepareCoreInfo: memory per core, rounded down, and what each core keeps  *)
(* in it.                                                                    *)
prepareCoreInfo(m) ==
  LET per == ((m.size \div Cardinality(Cores)) \div Granule) * Granule
      image(n) == AfterPage((per * n) + m.offset, m.kernel, m.part)
      heap(n) == AfterPage(image(n), m.image, m.part)
      channel(n) == AfterPage(heap(n), m.heap, m.part)
  IN [n \in Slaves |->
        [memory |-> per * n, size |-> per - 1, kernel |-> (per * n) + m.offset, kernelEnd |-> (per * n) + m.offset + m.kernel + m.part,
         image |-> image(n), imageEnd |-> image(n) + m.image + m.part, heap |-> heap(n), heapEnd |-> heap(n) + m.heap,
         channel |-> channel(n), channelEnd |-> channel(n) + 4]]

(* loadKernel reads and decompresses the kernel.  Its early returns keep the  *)
(* buffers that are mapped by then.                                          *)
loadKernel ==
  \/ core' = [core EXCEPT !.step = @ + 1, !.buffers = {"image"}]
  \/ \E kept \in {{}, {"compressed"}, {"compressed", "image"}} :
       core' = [core EXCEPT !.master = "idle", !.buffers = kept]
discoverCores == core' = [core EXCEPT !.step = @ + 1]
prepare == core' = [core EXCEPT !.step = @ + 1, !.info = prepareCoreInfo(core.memory)]
(* setupChannels: the data pages a core writes its messages to, and those it *)
(* reads from, as the core (me) sees the memory channels of core n.          *)
setupChannels(me, n, info) ==
  IF me = 0 THEN [write |-> info.channel + 2, read |-> info.channel] ELSE [write |-> info.channel, read |-> info.channel + 2]

setup == core' = [core EXCEPT !.step = @ + 1, !.channels = TRUE]

(* prepareCore claims the memory of core n and copies kernel and boot image  *)
(* there; the core is started in either case, and without them never answers. *)
prepareCore(n, copied) == IF copied THEN "test" ELSE "dead"

(* bootCore starts core n.  On Sunxi the master then polls the flag that the  *)
(* core raises when it has booted: at a core that never does (hung) it waits *)
(* for ever, and the cores behind it stay off.                               *)
bootCore(n, failed, hung) ==
  IF \E k \in hung : k < n THEN "off" ELSE prepareCore(n, n \notin failed)

bootAll == \E failed \in SUBSET Slaves : \E hung \in SUBSET failed :
  core' = [core EXCEPT !.step = @ + 1, !.slave = [n \in Slaves |-> bootCore(n, failed, hung)],
                       !.master = IF hung # {} THEN "booting" ELSE @]
unloadKernel == core' = [core EXCEPT !.step = @ + 1, !.buffers = {}, !.master = "test"]

initialize ==
  /\ core.master = "initialize"
  /\ CASE Steps[core.step] = "loadKernel" -> loadKernel
       [] Steps[core.step] = "discoverCores" -> discoverCores
       [] Steps[core.step] = "prepareCoreInfo" -> prepare
       [] Steps[core.step] = "setupChannels" -> setup
       [] Steps[core.step] = "bootAll" -> bootAll
       [] OTHER -> unloadKernel

(* No cores are found, or the image is not released: main goes on, to the    *)
(* test only when there are cores.                                           *)
initialize_fails ==
  /\ core.master = "initialize"
  /\ Steps[core.step] \in {"discoverCores", "unloadKernel"}
  /\ core' = [core EXCEPT !.master = IF core.channels THEN "test" ELSE "idle"]

(* CoreServer::test: each slave sends a pong, the master awaits them all.    *)
test_slave(n) ==
  /\ core.slave[n] = "test" /\ Len(core.fromSlave[n]) < Capacity
  /\ core' = [core EXCEPT !.slave[n] = "read", !.fromSlave[n] = Append(@, [client |-> "pong", result |-> "pong"])]

(* A form that does not take the answers out of the channels.                *)
test_master_leaves ==
  /\ core.master = "test"
  /\ \A n \in Slaves : core.fromSlave[n] # <<>>
  /\ core' = [core EXCEPT !.master = "idle"]

test_master ==
  /\ core.master = "test"
  /\ \A n \in Slaves : core.fromSlave[n] # <<>>
  /\ core' = [core EXCEPT !.master = "idle", !.fromSlave = [n \in Slaves |-> Tail(@[n])]]

(* CoreClient::request: one request at a time, then wait for the reply.      *)
createProcess_call(c, n) ==
  /\ core.client[c] = "idle" /\ core.calls < MaxCalls
  /\ core' = [core EXCEPT !.client[c] = "waiting", !.calls = @ + 1,
                          !.requests = Append(@, [client |-> c, action |-> "CreateProcess", target |-> n])]

getCoreCount_call(c) ==
  /\ core.client[c] = "idle" /\ core.calls < MaxCalls
  /\ core' = [core EXCEPT !.client[c] = "waiting", !.calls = @ + 1,
                          !.requests = Append(@, [client |-> c, action |-> "GetCoreCount", target |-> 0])]

getCoreCount ==
  /\ core.master = "idle" /\ core.requests # <<>>
  /\ Head(core.requests).action = "GetCoreCount"
  /\ core' = [core EXCEPT !.requests = Tail(@), !.client[Head(core.requests).client] = "Success"]

(* The handler registered without a reply: when an address cannot be looked  *)
(* up, the core has no channel or the channel is full, it returns and        *)
(* nothing is sent.                                                          *)
createProcess_fails ==
  /\ core.master = "idle" /\ core.requests # <<>>
  /\ Head(core.requests).action = "CreateProcess"
  /\ core' = [core EXCEPT !.requests = Tail(@), !.dropped = @ \cup {Head(core.requests).client}]

(* sendToSlave: write and flush the channel, then the IPI.                   *)
sendToSlave ==
  /\ core.master = "idle" /\ core.requests # <<>>
  /\ LET r == Head(core.requests) IN
     /\ core.channels /\ r.action = "CreateProcess" /\ r.target \in Slaves /\ Len(core.toSlave[r.target]) < Capacity
     /\ core' = [core EXCEPT !.requests = Tail(@), !.current = r, !.master = "ipi",
                             !.toSlave[r.target] = Append(@, [client |-> r.client, result |-> "none"])]

sendIPI ==
  /\ core.master = "ipi"
  /\ core' = [core EXCEPT !.master = "receive", !.ipi[core.current.target] = TRUE]

(* receiveFromSlave and the reply to the client.                             *)
receiveFromSlave ==
  /\ core.master = "receive"
  /\ LET n == core.current.target IN
     /\ core.fromSlave[n] # <<>>
     /\ core' = [core EXCEPT !.master = "idle", !.fromSlave[n] = Tail(@), !.current = None,
                             !.client[core.current.client] = IF Head(core.fromSlave[n]).client = core.current.client
                                                             THEN Head(core.fromSlave[n]).result ELSE "wrong"]

return(c) ==
  /\ core.client[c] \notin {"idle", "waiting"}
  /\ core' = [core EXCEPT !.client[c] = "idle"]

(* receiveFromMaster on slave n: try to read, then waitIPI in either case.   *)
receiveFromMaster(n) ==
  /\ core.slave[n] = "read"
  /\ core' = IF core.toSlave[n] = <<>> THEN [core EXCEPT !.slave[n] = "waitIPI"]
             ELSE [core EXCEPT !.slave[n] = "waitIPI", !.got[n] = Head(core.toSlave[n]), !.toSlave[n] = Tail(@)]

(* waitIPI: EnableIRQ, which the controllers ignore for the IPI, then        *)
(* EnterSleep unless a wakeup came before.                                   *)
Resumed(n) == IF core.got[n] = None THEN "read" ELSE "handle"

waitIPI(n) ==
  /\ core.slave[n] = "waitIPI"
  /\ core' = [core EXCEPT !.slave[n] = "EnterSleep"]

(* A form that sleeps although a wakeup came before.                         *)
EnterSleep_ignores_wakeup(n) ==
  /\ core.slave[n] = "EnterSleep"
  /\ core' = [core EXCEPT !.slave[n] = "sleep"]

EnterSleep(n) ==
  /\ core.slave[n] = "EnterSleep"
  /\ core' = IF core.wakeups[n] > 0 THEN [core EXCEPT !.wakeups[n] = 0, !.slave[n] = Resumed(n)]
             ELSE [core EXCEPT !.slave[n] = "sleep"]

(* The kernel of the slave core delivers the interrupt: it wakes the core    *)
(* server up, and counts the wakeup.                                         *)
IPI(n) ==
  /\ core.ipi[n]
  /\ core' = [core EXCEPT !.ipi[n] = FALSE, !.wakeups[n] = 1,
                          !.slave[n] = IF @ = "sleep" THEN Resumed(n) ELSE @]

(* createProcess on the slave: reply, then wait for the program to end.      *)
createProcess(n) ==
  /\ core.slave[n] = "handle" /\ Len(core.fromSlave[n]) < Capacity
  /\ \E r \in {"Success", "IOError", "InvalidArgument"} :
       core' = [core EXCEPT !.fromSlave[n] = Append(@, [client |-> core.got[n].client, result |-> r]), !.got[n] = None,
                            !.slave[n] = IF r = "Success" THEN "waitpid" ELSE "read"]

waitpid(n) ==
  /\ core.slave[n] = "waitpid"
  /\ core' = [core EXCEPT !.slave[n] = "read"]

Next ==
  \/ initialize \/ initialize_fails \/ test_master \/ getCoreCount \/ createProcess_fails \/ sendToSlave \/ sendIPI \/ receiveFromSlave
  \/ \E c \in Clients : getCoreCount_call(c) \/ return(c) \/ \E n \in Cores : createProcess_call(c, n)
  \/ \E n \in Slaves : test_slave(n) \/ receiveFromMaster(n) \/ waitIPI(n) \/ EnterSleep(n) \/ IPI(n) \/ createProcess(n) \/ waitpid(n)

Interrupted(n) == core.ipi[n] \/ (core.master = "ipi" /\ core.current.target = n)

(* A slave that sleeps while it has a message to handle, in its channel or   *)
(* already read, has an interrupt coming, whichever way its reading and its  *)
(* two waits for one message fall between the master's write and its IPI.    *)
NoLostIPI ==
  \A n \in Slaves : core.slave[n] = "sleep" /\ (core.toSlave[n] # <<>> \/ core.got[n] # None) => Interrupted(n)

(* A slave never sleeps on a message that it has not read without an         *)
(* interrupt coming.                                                         *)
NoUnreadIPI == \A n \in Slaves : core.slave[n] = "sleep" /\ core.toSlave[n] # <<>> => Interrupted(n)

(* The reply a client gets is the one to its own request.                    *)
OwnReply == \A c \in Clients : core.client[c] # "wrong"

(* The memory of the cores does not overlap, and what a core keeps in its    *)
(* memory (kernel, boot image, heap, channel pages) lies in it one after the *)
(* other when it is large enough for their sum.                              *)
CoresApart ==
  core.info # <<>> =>
    /\ \A n, m \in Slaves : n < m => core.info[n].memory + core.info[n].size < core.info[m].memory
    /\ \A n \in Slaves :
         LET i == core.info[n] IN
         /\ setupChannels(0, n, i).write = setupChannels(n, n, i).read /\ setupChannels(0, n, i).read = setupChannels(n, n, i).write
         /\ i.memory <= i.kernel /\ i.kernelEnd <= i.image /\ i.imageEnd <= i.heap /\ i.heapEnd <= i.channel
         /\ core.memory.offset + core.memory.kernel + core.memory.image + core.memory.heap + 7 <= i.size =>
              i.channelEnd <= i.memory + i.size

(* Every request is answered: no client waits that is neither queued nor     *)
(* being served.                                                             *)
EveryRequestAnswered == \A c \in core.dropped : core.client[c] # "waiting"

=============================================================================
