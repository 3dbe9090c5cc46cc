---------------------------- MODULE DeviceServer ----------------------------
(***************************************************************************)
(* Programs that read and write the serial device: remote procedure calls  *)
(* through ChannelClient (syncSendReceive) to the message loop of a        *)
(* ChannelServer that is a FileSystemServer with its list of requests to   *)
(* retry, a DeviceServer, and the driver of an NS16550 UART; the kernel's  *)
(* wakeup and sleep calls, its event channel and its masking of IRQs.      *)
(*                                                                         *)
(* A kernel call, a read or a write of a channel and an access to the      *)
(* UART is one step each: between any two of them another process or an    *)
(* interrupt may run.  A channel is the bounded queue that module          *)
(* MemoryChannel implements; the set up of channels is in Connections.     *)
(***************************************************************************)
EXTENDS Naturals, Sequences, Functions

CONSTANTS
  Clients,    \* the programs
  Server,     \* the device server
  None,       \* no request
  NumIds,     \* bound: consecutive requests of a client that are told apart
  Capacity,   \* bound: messages in a channel
  MaxEvents,  \* bound: capacity of the kernel event channel
  MaxFifo     \* bound: characters in the receive FIFO

(* A FileSystemMessage, as far as it tells one request from another. *)
FileSystemMessage == [from : Clients, action : {"ReadFile", "WriteFile"}, id : 0 .. NumIds - 1]

ASSUME DeviceServerAssumption ==
  /\ Server \notin Clients
  /\ {NumIds, Capacity, MaxEvents, MaxFifo} \subseteq Nat \ {0}
  /\ None \notin FileSystemMessage

VARIABLES
  asleep,     \* the processes in state Sleeping
  wakeups,    \* the processes whose m_wakeups is not zero
  kev,        \* the kernel event channel of the server
  req, rsp,   \* the channels from and to each client
  cpc, call,  \* where each client is, and its request
  registered, \* the clients in m_registry of the server
  pc,         \* where the server is
  keys, at,   \* readChannels(): the channels still to read, and the current one
  cur, got,   \* the request being processed, and whether it completed
  requests,   \* m_requests
  pos,        \* the iterator of retryRequests(), 0 outside it
  restart,    \* restartNeeded
  after,      \* where retryAllRequests() returns to
  irq,        \* the interrupt controller passes the interrupt of the UART
  ier,        \* the UART has its receive interrupt enabled
  fifo,       \* characters in the receive FIFO
  lost,       \* history: an event did not fit in the event channel
  orphaned,   \* history: started while the server had a request of a predecessor
  wrong       \* history: clients that took the answer to another request

kernel == <<asleep, wakeups, kev, lost>>
loop   == <<registered, keys, at>>
retry  == <<requests, pos, restart, after>>
work   == <<cur, got>>
uart   == <<irq, ier, fifo>>
client == <<cpc, call, orphaned, wrong>>
vars   == <<kernel, loop, retry, work, uart, client, req, rsp, pc>>

Init ==
  /\ asleep = {} /\ wakeups = {} /\ kev = << >> /\ lost = FALSE
  /\ req = [c \in Clients |-> << >>] /\ rsp = req
  /\ cpc = [c \in Clients |-> "dead"]
  /\ call = [c \in Clients |-> [from |-> c, action |-> "ReadFile", id |-> 0]]
  /\ orphaned = {} /\ wrong = {}
  /\ registered = {} /\ keys = {} /\ at = {}
  /\ pc = "events"
  /\ cur = None /\ got = FALSE
  /\ requests = << >> /\ pos = 0 /\ restart = FALSE /\ after = "events"
  /\ irq = TRUE /\ ier = TRUE /\ fifo = 0

-----------------------------------------------------------------------------
(* The kernel. *)

(* Mutant: a wakeup of a process that does not sleep is not counted. *)
wakeup_uncounted(p) ==
  /\ wakeups' = IF p \in asleep THEN wakeups \cup {p} ELSE wakeups
  /\ asleep' = asleep \ {p}

(* Process::wakeup: the counter also counts the wakeup that ends a sleep, so *)
(* that the next sleep of the process is skipped.                            *)
wakeup(p) ==
  /\ wakeups' = wakeups \cup {p}
  /\ asleep' = asleep \ {p}

(* Mutant: the process sleeps whatever happened since its last look. *)
sleep_always(p) ==
  /\ wakeups' = wakeups \ {p}
  /\ asleep' = asleep \cup {p}

(* Process::sleep with no timer. *)
sleep(p) ==
  /\ wakeups' = wakeups \ {p}
  /\ asleep' = IF p \in wakeups THEN asleep ELSE asleep \cup {p}

(* Process::raiseEvent in the server. *)
raiseEvent(e) ==
  /\ kev' = IF Len(kev) < MaxEvents THEN Append(kev, e) ELSE kev
  /\ lost' = (lost \/ Len(kev) = MaxEvents)

(* A character arrives at the UART. *)
Receive ==
  /\ fifo < MaxFifo
  /\ fifo' = fifo + 1
  /\ UNCHANGED <<kernel, loop, retry, work, irq, ier, client, req, rsp, pc>>

(* Kernel::executeIntVector: the IRQ is masked, and the server is notified. *)
Interrupt ==
  /\ irq /\ ier /\ fifo > 0
  /\ irq' = FALSE
  /\ raiseEvent([type |-> "InterruptEvent"])
  /\ wakeup(Server)
  /\ UNCHANGED <<loop, retry, work, ier, fifo, client, req, rsp, pc>>

-----------------------------------------------------------------------------
(* The clients: ChannelClient. *)

(* Mutant: the channel is not reset. *)
Start_stale(c) ==
  /\ cpc[c] = "dead"
  /\ c \notin registered \cup {e.pid : e \in {f \in Range(kev) : f.type # "InterruptEvent"}}
  /\ cpc' = [cpc EXCEPT ![c] = "idle"]
  /\ raiseEvent([type |-> "ShareCreated", pid |-> c])
  /\ wakeup(Server)
  /\ orphaned' = IF (cur # None /\ cur.from = c) \/ \E i \in DOMAIN requests : requests[i].from = c
                   THEN orphaned \cup {c} ELSE orphaned \ {c}
  /\ wrong' = wrong \ {c}
  /\ UNCHANGED <<loop, retry, work, uart, call, req, rsp, pc>>

(* A new program, whose channel with the server is made by connect(): the   *)
(* share can be created once the server has deleted the one with the        *)
(* previous process of the same identifier.                                 *)
Start(c) ==
  /\ cpc[c] = "dead"
  /\ c \notin registered \cup {e.pid : e \in {f \in Range(kev) : f.type # "InterruptEvent"}}
  /\ cpc' = [cpc EXCEPT ![c] = "idle"]
  /\ req' = [req EXCEPT ![c] = << >>]
  /\ rsp' = [rsp EXCEPT ![c] = << >>]
  /\ raiseEvent([type |-> "ShareCreated", pid |-> c])
  /\ wakeup(Server)
  /\ orphaned' = IF (cur # None /\ cur.from = c) \/ \E i \in DOMAIN requests : requests[i].from = c
                   THEN orphaned \cup {c} ELSE orphaned \ {c}
  /\ wrong' = wrong \ {c}
  /\ UNCHANGED <<loop, retry, work, uart, call, pc>>

(* The program terminates, wherever it is. *)
Terminate(c) ==
  /\ cpc[c] # "dead"
  /\ cpc' = [cpc EXCEPT ![c] = "dead"]
  /\ raiseEvent([type |-> "ProcessTerminated", pid |-> c])
  /\ wakeups' = (wakeups \ {c}) \cup {Server}
  /\ asleep' = asleep \ {c, Server}
  /\ UNCHANGED <<loop, retry, work, uart, call, orphaned, wrong, req, rsp, pc>>

(* The client takes a step that leaves the server and the UART alone. *)
ClientAt(c, from, to) ==
  /\ cpc[c] = from
  /\ c \notin asleep
  /\ cpc' = [cpc EXCEPT ![c] = to]
  /\ UNCHANGED <<loop, retry, work, uart, orphaned, kev, lost, pc>>

(* A read or a write of the device; id tells a request from the next one. *)
Operation(c, a) ==
  /\ ClientAt(c, "idle", "send")
  /\ call' = [call EXCEPT ![c] = [from |-> c, action |-> a, id |-> (@.id + 1) % NumIds]]
  /\ UNCHANGED <<asleep, wakeups, req, rsp, wrong>>

(* syncSendTo(): the message is written, then the server is woken up; when  *)
(* the channel is full the client wakes the server and tries again.         *)
SyncSendTo(c) ==
  LET full == Len(req[c]) = Capacity
  IN  /\ ClientAt(c, "send", IF full THEN "full" ELSE "wake")
      /\ req' = [req EXCEPT ![c] = IF full THEN @ ELSE Append(@, call[c])]
      /\ UNCHANGED <<asleep, wakeups, rsp, call, wrong>>

WakeServer(c) ==
  /\ ClientAt(c, cpc[c], IF cpc[c] = "wake" THEN "receive" ELSE "send")
  /\ cpc[c] \in {"wake", "full"}
  /\ wakeup(Server)
  /\ UNCHANGED <<req, rsp, call, wrong>>

(* syncReceiveFrom(): the answer is taken as it comes, whatever it answers. *)
SyncReceiveFrom(c) ==
  /\ ClientAt(c, "receive", IF rsp[c] = << >> THEN "sleep" ELSE "idle")
  /\ rsp' = [rsp EXCEPT ![c] = IF @ = << >> THEN @ ELSE Tail(@)]
  /\ wrong' = IF rsp[c] # << >> /\ Head(rsp[c]) # call[c] THEN wrong \cup {c} ELSE wrong
  /\ UNCHANGED <<asleep, wakeups, req, call>>

ClientSleep(c) ==
  /\ ClientAt(c, "sleep", "receive")
  /\ sleep(c)
  /\ UNCHANGED <<req, rsp, call, wrong>>

-----------------------------------------------------------------------------
(* The server: ChannelServer::run. *)

(* The server goes on at label l. *)
ServerAt(l) ==
  /\ Server \notin asleep
  /\ pc = l
  /\ UNCHANGED client

(* A call of retryAllRequests() that continues at l. *)
RetryAll(l) ==
  /\ pc' = "retry"
  /\ after' = l
  /\ pos' = 1
  /\ restart' = FALSE
  /\ UNCHANGED requests

(* readKernelEvents(): a ShareCreated event is accepted; for a terminated   *)
(* process the channel is unregistered and the share deleted.               *)
ReadKernelEvent ==
  /\ ServerAt("events")
  /\ kev # << >>
  /\ kev' = Tail(kev)
  /\ LET e == Head(kev)
     IN  /\ pc' = IF e.type = "InterruptEvent" THEN "interrupt" ELSE "events"
         /\ registered' = CASE e.type = "ShareCreated" -> registered \cup {e.pid}
                            [] e.type = "ProcessTerminated" -> registered \ {e.pid}
                            [] OTHER -> registered
  /\ UNCHANGED <<asleep, wakeups, lost, keys, at, retry, work, uart, req, rsp>>

(* The event channel is empty: readChannels() takes the registered channels. *)
EventsRead ==
  /\ ServerAt("events")
  /\ kev = << >>
  /\ keys' = registered
  /\ pc' = "channels"
  /\ UNCHANGED <<kernel, registered, at, retry, work, uart, req, rsp>>

(* Mutant: the interrupt stays enabled in the UART. *)
InterruptHandler_enabled ==
  /\ ServerAt("interrupt")
  /\ RetryAll("events")
  /\ UNCHANGED <<kernel, loop, work, uart, req, rsp>>

(* DeviceServer::interruptHandler: the driver masks the receive interrupt.  *)
InterruptHandler ==
  /\ ServerAt("interrupt")
  /\ ier' = FALSE
  /\ RetryAll("events")
  /\ UNCHANGED <<kernel, loop, work, irq, fifo, req, rsp>>

(* readChannels(): the next message of channel c goes to pathHandler(). *)
ReadChannel(c) ==
  /\ ServerAt("channels")
  /\ c \in keys /\ at \subseteq {c}
  /\ req[c] # << >>
  /\ req' = [req EXCEPT ![c] = Tail(@)]
  /\ cur' = Head(req[c])
  /\ at' = {c}
  /\ pc' = "process"
  /\ UNCHANGED <<kernel, registered, keys, got, retry, uart, rsp>>

(* Channel c is empty: on to the next. *)
NextChannel(c) ==
  /\ ServerAt("channels")
  /\ c \in keys /\ at \subseteq {c}
  /\ req[c] = << >>
  /\ keys' = keys \ {c}
  /\ at' = {}
  /\ UNCHANGED <<kernel, registered, retry, work, uart, req, rsp, pc>>

ChannelsRead ==
  /\ ServerAt("channels")
  /\ keys = {}
  /\ RetryAll("sleep")
  /\ UNCHANGED <<kernel, loop, work, uart, req, rsp>>

(* processRequest() of the request in cur, a write: it completes. *)
ProcessWrite ==
  /\ ServerAt("process")
  /\ cur.action = "WriteFile"
  /\ got' = TRUE
  /\ pc' = "send"
  /\ UNCHANGED <<kernel, loop, retry, cur, uart, req, rsp>>

(* NS16550::read takes what there is, at most what was asked for. *)
ProcessRead ==
  /\ ServerAt("process")
  /\ cur.action = "ReadFile"
  /\ got' = (fifo > 0)
  /\ fifo' \in IF fifo > 0 THEN 0 .. fifo - 1 ELSE {0}
  /\ pc' = "enable"
  /\ UNCHANGED <<kernel, loop, retry, cur, irq, ier, req, rsp>>

(* Mutant: a completed request stays in m_requests. *)
Done_kept ==
  /\ cur' = None /\ got' = FALSE
  /\ IF pos = 0
       THEN pc' = "channels" /\ UNCHANGED retry
       ELSE pc' = "retry" /\ pos' = pos + 1 /\ UNCHANGED <<requests, restart, after>>

(* List::remove of the element at position i. *)
RemoveAt(s, i) == SubSeq(s, 1, i - 1) \o SubSeq(s, i + 1, Len(s))

(* The request in cur is done with: readChannels() goes on, or              *)
(* retryRequests() removes it, where the iterator is moved by the removal   *)
(* and moved again by the loop.                                             *)
Done ==
  /\ cur' = None /\ got' = FALSE
  /\ IF pos = 0
       THEN pc' = "channels" /\ UNCHANGED retry
       ELSE /\ pc' = "retry"
            /\ requests' = RemoveAt(requests, pos)
            /\ pos' = pos + 1
            /\ restart' = TRUE
            /\ UNCHANGED after

(* RetryAgain: pathHandler() keeps the request, retryRequests() leaves it. *)
Again ==
  /\ cur' = None /\ got' = FALSE
  /\ IF pos = 0
       THEN pc' = "channels" /\ requests' = Append(requests, cur) /\ UNCHANGED pos
       ELSE pc' = "retry" /\ pos' = pos + 1 /\ UNCHANGED requests
  /\ UNCHANGED <<restart, after>>

(* Mutant: the interrupts are enabled again only after a character was read. *)
ReenableInterrupts_read ==
  /\ ServerAt("enable")
  /\ ier' = (ier \/ got)
  /\ irq' = IF ier \/ ~got THEN irq ELSE TRUE
  /\ IF got THEN pc' = "send" /\ UNCHANGED <<work, retry>> ELSE Again
  /\ UNCHANGED <<kernel, loop, fifo, req, rsp>>

(* NS16550::read enables the interrupts again, in the UART and by EnableIRQ, *)
(* when it finds them disabled in the UART.                                  *)
ReenableInterrupts ==
  /\ ServerAt("enable")
  /\ ier' = TRUE
  /\ irq' = IF ier THEN irq ELSE TRUE
  /\ IF got THEN pc' = "send" /\ UNCHANGED <<work, retry>> ELSE Again
  /\ UNCHANGED <<kernel, loop, fifo, req, rsp>>

(* sendResponse(): without a channel, or with a full one, there is no answer. *)
SendResponse ==
  LET c == cur.from
  IN  /\ ServerAt("send")
      /\ IF c \in registered /\ Len(rsp[c]) < Capacity
           THEN /\ rsp' = [rsp EXCEPT ![c] = Append(@, cur)]
                /\ pc' = "wake"
                /\ UNCHANGED <<work, retry>>
           ELSE Done /\ UNCHANGED rsp
      /\ UNCHANGED <<kernel, loop, uart, req>>

(* The end of sendResponse(): Wakeup of a process that may have gone. *)
WakeClient ==
  /\ ServerAt("wake")
  /\ IF cpc[cur.from] = "dead" THEN UNCHANGED <<asleep, wakeups>> ELSE wakeup(cur.from)
  /\ Done
  /\ UNCHANGED <<kev, lost, loop, uart, req, rsp>>

(* retryRequests(): the next request. *)
RetryRequest ==
  /\ ServerAt("retry")
  /\ pos <= Len(requests)
  /\ cur' = requests[pos]
  /\ pc' = "process"
  /\ UNCHANGED <<kernel, loop, retry, got, uart, req, rsp>>

(* retryAllRequests(): again, until a pass completed no request. *)
RetryDone ==
  /\ ServerAt("retry")
  /\ pos > Len(requests)
  /\ IF restart THEN RetryAll(after)
                ELSE /\ pc' = after
                     /\ after' = "events" /\ pos' = 0
                     /\ UNCHANGED <<requests, restart>>
  /\ UNCHANGED <<kernel, loop, work, uart, req, rsp>>

(* sleepUntilWakeup(), with no timeout set. *)
SleepUntilWakeup ==
  /\ ServerAt("sleep")
  /\ sleep(Server)
  /\ pc' = "events"
  /\ UNCHANGED <<kev, lost, loop, retry, work, uart, req, rsp>>

-----------------------------------------------------------------------------
ClientStep(c) == SyncSendTo(c) \/ WakeServer(c) \/ SyncReceiveFrom(c) \/ ClientSleep(c)

ServerStep ==
  \/ ReadKernelEvent \/ EventsRead \/ InterruptHandler
  \/ \E c \in Clients : ReadChannel(c) \/ NextChannel(c)
  \/ ChannelsRead
  \/ ProcessWrite \/ ProcessRead \/ ReenableInterrupts \/ SendResponse \/ WakeClient
  \/ RetryRequest \/ RetryDone \/ SleepUntilWakeup

Next ==
  \/ Receive \/ Interrupt \/ ServerStep
  \/ \E c \in Clients : \/ Start(c) \/ Terminate(c) \/ ClientStep(c)
                        \/ \E a \in {"ReadFile", "WriteFile"} : Operation(c, a)

Spec == Init /\ [][Next]_vars

-----------------------------------------------------------------------------
(* No wakeup is lost: a process sleeps only when it has nothing to do, or   *)
(* when the process that gave it something to do is about to wake it up.    *)
(* "We must guarantee that the next sleep will be skipped" if a wakeup      *)
(* comes between the last look at the channels and the call of sleep.       *)
NoLostWakeup ==
  /\ Server \in asleep =>
       kev = << >> /\ \A c \in registered : req[c] # << >> => cpc[c] = "wake"
  /\ \A c \in Clients \cap asleep :
       rsp[c] # << >> => pc = "wake" /\ cur.from = c

(* The server never sleeps on a request that the UART could complete: while *)
(* a request waits, both interrupt masks are open, so that the next         *)
(* character interrupts.  It does not hold once an event was lost, since    *)
(* nothing but its handling opens the interrupt controller's mask again.    *)
WaitsForInterrupt ==
  Server \in asleep /\ requests # << >> /\ ~lost
    => \/ \A i \in DOMAIN requests : requests[i].action = "WriteFile"
       \/ irq /\ ier

(* A client gets the answer to its own request, unless it was started while *)
(* the server held a request of a previous process with its identifier.     *)
AnswersMatch == wrong \subseteq orphaned

(* The places that hold a request of client c or the answer to it: the two  *)
(* channels, m_requests and the message in process.                         *)
Places(c) ==
  {<<"request", i>> : i \in DOMAIN req[c]} \cup {<<"response", i>> : i \in DOMAIN rsp[c]}
    \cup {<<"held", i>> : i \in {j \in DOMAIN requests : requests[j].from = c /\ (j # pos \/ cur = None)}}
    \cup (IF cur # None /\ cur.from = c /\ pc # "wake" THEN {<<"process", pos>>} ELSE {})

(* A waiting client has exactly one request or answer on its way, and one   *)
(* that does not wait has none: no answer meets a full channel, and no      *)
(* request is answered twice.                                               *)
OneInFlight ==
  \A c \in registered \ orphaned :
    cpc[c] # "dead" =>
      IF cpc[c] \in {"wake", "receive", "sleep"}
        THEN \E p \in Places(c) : Places(c) = {p}
        ELSE Places(c) = {}

(* Every write of the device is answered, whatever the other clients and    *)
(* the UART do, unless the event channel of the server overflowed.          *)
WriteAnswered ==
  \A c \in Clients :
    cpc[c] = "send" /\ call[c].action = "WriteFile" ~> cpc[c] \in {"idle", "dead"} \/ lost

(* A character does not stay in the FIFO while a client waits for one: it   *)
(* interrupts, or the server finds it, and some client gets it.             *)
CharacterDelivered ==
  \A c \in Clients :
    cpc[c] \in {"send", "wake", "receive", "sleep"} /\ call[c].action = "ReadFile" /\ fifo > 0
      ~> cpc[c] \in {"idle", "dead"} \/ fifo = 0 \/ lost

(* The server sleeps only when everything that a client waits for ends its  *)
(* sleep: a wakeup, an interrupt that is enabled, or one request or answer  *)
(* on its way for each client (ChannelServer.h, FileSystemServer.cpp).      *)
ServerWakes == NoLostWakeup /\ WaitsForInterrupt /\ OneInFlight
=============================================================================
