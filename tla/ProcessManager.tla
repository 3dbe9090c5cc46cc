--------------------------- MODULE ProcessManager ---------------------------
(***************************************************************************)
(* Process states, the run queue and the sleep timer queue of the FreeNOS  *)
(* kernel on one core: kernel/Process.cpp, kernel/Scheduler.cpp,           *)
(* kernel/ProcessManager.cpp and the handlers of kernel/API/ProcessCtl.cpp *)
(* and kernel/API/PrivExec.cpp that call them.                             *)
(*                                                                         *)
(* The kernel runs with interrupts disabled on a single core, so one API   *)
(* call, one clock tick or one device interrupt is one step.  The          *)
(* ProcessManager object is the record pm; the operators below take such a *)
(* record and return it as the C++ member function of that name leaves it, *)
(* and an action chains them in the order in which the handler calls them. *)
(***************************************************************************)
EXTENDS Integers, Sequences, Functions

CONSTANTS
  MaxProcs,    \* MAX_PROCS: slots of the process table and of both queues
  BootProcs,   \* number of programs in the boot image
  IdleServer,  \* process identifier the boot image gives to server/idle
  Vectors,     \* device interrupt vectors
  MaxSleep,    \* bound: longest sleep timer, in clock ticks
  MaxWakeups,  \* bound: m_wakeups stays at this value (the code tests for 0)
  Null         \* the ZERO pointer

PIDS == 0 .. MaxProcs - 1

ASSUME ConstantsAssumption ==
  /\ MaxProcs \in Nat \ {0}
  /\ BootProcs \in 1 .. MaxProcs
  /\ IdleServer \in 0 .. BootProcs - 1
  /\ MaxSleep \in Nat
  /\ MaxWakeups \in Nat \ {0}
  /\ Null \notin Int

VARIABLES
  pm,          \* the ProcessManager with its Scheduler and all Processes
  irqEnabled,  \* the vectors that the interrupt controller has unmasked
  idleServer   \* the process that runs server/idle, Null once it is removed

vars == <<pm, irqEnabled, idleServer>>

(***************************************************************************)
(* Process::State, and "None" for a free slot of m_procs.  A sleep timer is *)
(* the number of ticks until it expires; Never is the timer with frequency *)
(* zero, which Timer::isExpired never reports as expired.                   *)
(***************************************************************************)
States == {"None", "Ready", "Sleeping", "Waiting", "Stopped"}

Never == MaxSleep + 1

isExpired(t) == t = 0

-----------------------------------------------------------------------------
(* Queues.  Filters(s, S) is the one-element set of the subsequence of s    *)
(* that holds the members of S: f lists their positions in increasing order.*)
Filters(s, S) ==
  LET Positions == {i \in DOMAIN s : s[i] \in S}
      Listings  == {f \in UNION {[1 .. n -> Positions] : n \in 0 .. Len(s)} :
                      /\ \A i, j \in DOMAIN f : i < j => f[i] < f[j]
                      /\ Range(f) = Positions}
  IN  {[i \in DOMAIN f |-> s[f[i]]] : f \in Listings}

(* The sequences that list the set S without repetition. *)
Orders(S) == UNION {Bijection(1 .. n, S) : n \in 0 .. MaxProcs}

(* A position of p in s. *)
IndexOf(s, p) == CHOOSE i \in DOMAIN s : s[i] = p

(* Queue::remove(p), whose callers assert that it removes at most one item. *)
Without(s, p) ==
  IF p \in Range(s)
    THEN LET i == IndexOf(s, p)
         IN  SubSeq(s, 1, i - 1) \o SubSeq(s, i + 1, Len(s))
    ELSE s

Duplicate(s, p) == \E i, j \in DOMAIN s : i # j /\ s[i] = p /\ s[j] = p

-----------------------------------------------------------------------------
(* Scheduler *)

(* Scheduler::dequeue traverses the queue by popping each process and       *)
(* pushing it back, so what stood before p ends up behind what stood after. *)
dequeue(q, p) ==
  LET i == IndexOf(q, p)
  IN  SubSeq(q, i + 1, Len(q)) \o SubSeq(q, 1, i - 1)

(* Scheduler::select moves the head of the queue to its tail. *)
select(q) == IF q = << >> THEN q ELSE Append(Tail(q), Head(q))

(* Mutant: the idle process is preferred to the queue. *)
selected_idleFirst(m) == IF m.idle # Null \/ m.queue = << >> THEN m.idle ELSE Head(m.queue)

selected(m) == IF m.queue = << >> THEN m.idle ELSE Head(m.queue)

-----------------------------------------------------------------------------
(* Process: the constructor, and the changes of state of a process, which   *)
(* the handlers below make only from the states they are legal in.          *)
Process(m, p) == [m EXCEPT !.state[p] = "Stopped", !.wakeups[p] = 0, !.timer[p] = Never]

Waiting(m, p, id) == [m EXCEPT !.state[p] = "Waiting", !.waitId[p] = id]

(* Process::join of every process of S.  m_waitId is read only in the       *)
(* Waiting state and is reset here.                                         *)
Joined(m, S) ==
  [m EXCEPT !.state  = [q \in PIDS |-> IF q \in S THEN "Ready" ELSE @[q]],
            !.waitId = [q \in PIDS |-> IF q \in S THEN 0 ELSE @[q]]]

Stopped(m, p) == [m EXCEPT !.state[p] = "Stopped"]

Resumed(m, p) == [m EXCEPT !.state[p] = "Ready"]

-----------------------------------------------------------------------------
(* ProcessManager *)

(* A FATAL() prints a message and loops forever in the kernel. *)
FATAL(m) == [m EXCEPT !.fatal = TRUE]

(* Mutant: a woken process stays in the sleep timer queue. *)
enqueueProcess_keepsTimer(m, p) ==
  IF m.state[p] # "Ready" THEN m ELSE [m EXCEPT !.queue = Append(@, p)]

(* A process on the run queue is not in the sleep timer queue.  m_sleepTimer *)
(* is read only for a process in the latter, so the timer of one that was   *)
(* stopped in its sleep is reset here.                                      *)
enqueueProcess(m, p) ==
  CASE m.state[p] # "Ready"     -> m
    [] Duplicate(m.sleepers, p) -> FATAL(m)
    [] OTHER -> [m EXCEPT !.queue = Append(@, p), !.sleepers = Without(@, p),
                          !.timer[p] = Never]

dequeueProcess(m, p, ignoreState) ==
  CASE m.state[p] = "Ready" /\ ~ignoreState -> m
    [] p \notin Range(m.queue)              -> FATAL(m)
    [] OTHER                                -> [m EXCEPT !.queue = dequeue(@, p)]

(* Process::wakeup counts the wakeup; only a sleeping process gets up. *)
counted(n) == IF n < MaxWakeups THEN n + 1 ELSE n

wakeup(m, p) ==
  IF m.state[p] = "Sleeping"
    THEN enqueueProcess([m EXCEPT !.wakeups[p] = counted(@), !.state[p] = "Ready"], p)
    ELSE [m EXCEPT !.wakeups[p] = counted(@)]

(* Every process of S gets a wakeup; those of Woken get up, listed by w, and *)
(* leave the sleep timer queue, which is then r.                             *)
Awakened(m, S, Woken, w, r) ==
  [m EXCEPT
     !.wakeups  = [p \in PIDS |-> IF p \in S THEN counted(@[p]) ELSE @[p]],
     !.state    = [p \in PIDS |-> IF p \in Woken THEN "Ready" ELSE @[p]],
     !.timer    = [p \in PIDS |-> IF p \in Woken THEN Never ELSE @[p]],
     !.queue    = @ \o w,
     !.sleepers = r]

(* wakeup() of every process of the sequence s, in its order. *)
wakeupAll(m, s) ==
  LET Woken == {p \in Range(s) : m.state[p] = "Sleeping"}
  IN  {Awakened(m, Range(s), Woken, w, r)
        : w \in Filters(s, Woken), r \in Filters(m.sleepers, PIDS \ Woken)}

(* The process to run is selected before the expired sleepers are woken, so *)
(* these run at the earliest in the next schedule().                        *)
Running(m, r) == [m EXCEPT !.queue = select(@), !.sleepers = r, !.current = selected(m)]

schedule(m) ==
  LET expired == {p \in Range(m.sleepers) : isExpired(m.timer[p])}
  IN  IF selected(m) = Null
        THEN {FATAL(m)}
        ELSE UNION {wakeupAll(Running(m, r), e)
                      : e \in Filters(m.sleepers, expired),
                        r \in Filters(m.sleepers, PIDS \ expired)}

(* ProcessManager::create: the lowest free slot of m_procs, not yet ready;  *)
(* nothing when there is none.                                              *)
create(m) ==
  {Process(m, pid) : pid \in {p \in PIDS : /\ m.state[p] = "None"
                                          /\ \A q \in PIDS : m.state[q] = "None" => p <= q}}

resume(m, p) == enqueueProcess(Resumed(m, p), p)

(* Mutant: a stopped process stays on the run queue. *)
stop_queued(m, p) == Stopped(m, p)

stop(m, p) ==
  IF m.state[p] = "Ready" THEN dequeueProcess(Stopped(m, p), p, FALSE) ELSE Stopped(m, p)

setIdle(m, p) == [dequeueProcess(m, p, TRUE) EXCEPT !.idle = p]

wait(m, p) == dequeueProcess(Waiting(m, m.current, p), m.current, FALSE)

(* sleep without a timer, and with one: only the latter enters the sleep    *)
(* timer queue, after an assertion that the process is not in it.           *)
sleep(m) == dequeueProcess([m EXCEPT !.state[m.current] = "Sleeping"], m.current, FALSE)

(* Mutant: the process is not put in the sleep timer queue. *)
sleepTimer_unqueued(m, t) == sleep([m EXCEPT !.timer[m.current] = t])

sleepTimer(m, t) ==
  LET asleep == sleep([m EXCEPT !.timer[m.current] = t])
  IN  IF m.current \in Range(m.sleepers)
        THEN FATAL(asleep)
        ELSE [asleep EXCEPT !.sleepers = Append(@, m.current)]

(* remove(), up to the deletion of the process: its waiters join in the     *)
(* order of their identifiers.                                              *)

Waiters(m, p) == {q \in PIDS : m.state[q] = "Waiting" /\ m.waitId[q] = p}

(* Mutant: the interrupt notification lists keep the removed process. *)
Unreferenced_keepsNotify(m, p, w, r) ==
  [m EXCEPT
     !.idle     = IF @ = p THEN Null ELSE @,
     !.current  = IF @ = p THEN Null ELSE @,
     !.queue    = @ \o w,
     !.sleepers = r]

(* Nothing but the queues refers to p any more, and the processes of w are   *)
(* on the run queue and not in the sleep timer queue.                        *)
Unreferenced(m, p, w, r) ==
  [m EXCEPT
     !.idle     = IF @ = p THEN Null ELSE @,
     !.current  = IF @ = p THEN Null ELSE @,
     !.queue    = @ \o w,
     !.sleepers = r,
     !.notify   = [v \in Vectors |-> Without(@[v], p)]]

AllPIDs == [i \in 1 .. MaxProcs |-> i - 1]

joinAll(m, p) ==
  {Unreferenced(Joined(m, Waiters(m, p)), p, w, r)
    : w \in Filters(AllPIDs, Waiters(m, p)),
      r \in Filters(m.sleepers, PIDS \ Waiters(m, p))}

(* Mutant: the process is dequeued whatever its state. *)
unlink_anyState(m, p) ==
  [dequeueProcess(m, p, TRUE) EXCEPT !.sleepers = Without(@, p), !.state[p] = "None",
                       !.waitId[p] = 0, !.wakeups[p] = 0, !.timer[p] = Never]

unlink(m, p) ==
  LET dequeued == IF m.state[p] = "Ready" THEN dequeueProcess(m, p, TRUE) ELSE m
  IN  [dequeued EXCEPT !.sleepers = Without(@, p), !.state[p] = "None",
                       !.waitId[p] = 0, !.wakeups[p] = 0, !.timer[p] = Never]

(* The destructor of the process raises ProcessTerminated in the processes  *)
(* that share memory with it, listed by s; module ProcessShares models      *)
(* which these are.                                                         *)
remove(m, p, s) == UNION {wakeupAll(unlink(j, p), s) : j \in joinAll(m, p)}

-----------------------------------------------------------------------------
(* The boot image: every program is created ready to run, then Kernel::run  *)
(* calls schedule().                                                        *)
Booted ==
  [state    |-> [p \in PIDS |-> IF p < BootProcs THEN "Ready" ELSE "None"],
   waitId   |-> [p \in PIDS |-> 0],
   wakeups  |-> [p \in PIDS |-> 0],
   timer    |-> [p \in PIDS |-> Never],
   queue    |-> [i \in 1 .. BootProcs |-> i - 1],
   sleepers |-> << >>,
   current  |-> Null,
   idle     |-> Null,
   notify   |-> [v \in Vectors |-> << >>],
   fatal    |-> FALSE]

Init ==
  /\ pm = [Booted EXCEPT !.queue = select(@), !.current = 0]
  /\ irqEnabled = {}
  /\ idleServer = IdleServer

Exists(p) == pm.state[p] # "None"

(* A user program traps into the kernel.  server/idle makes no other call   *)
(* than the ones of IdleMain.                                               *)
Trap == ~pm.fatal /\ pm.current # Null /\ pm.current # idleServer

(* What handlers leave alone when they only change the ProcessManager. *)
Keep == UNCHANGED <<irqEnabled, idleServer>>

Spawn ==
  /\ Trap
  /\ \E p \in PIDS : ~Exists(p)
  /\ pm' \in create(pm)
  /\ Keep

(* KillPID.  Only a caller that names itself SELF is rescheduled: one that  *)
(* passes its own identifier returns with m_current = ZERO.                 *)
KillPID(p, self) ==
  /\ Trap
  /\ Exists(p)
  /\ self => p = pm.current
  /\ \E peers \in SUBSET {q \in PIDS \ {p} : Exists(q)} :
       \E s \in Orders(peers) :
         \E m \in remove(pm, p, s) :
           IF self /\ ~m.fatal THEN pm' \in schedule(m) ELSE pm' = m
  /\ idleServer' = IF p = idleServer THEN Null ELSE idleServer
  /\ UNCHANGED irqEnabled

Schedule == Trap /\ pm' \in schedule(pm) /\ Keep

Stop(p, self) ==
  /\ Trap
  /\ pm.state[p] \in {"Ready", "Sleeping", "Stopped"}
  /\ self => p = pm.current
  /\ LET m == stop(pm, p)
     IN  IF self /\ ~m.fatal THEN pm' \in schedule(m) ELSE pm' = m
  /\ Keep

Resume(p) ==
  /\ Trap
  /\ pm.state[p] = "Stopped"
  /\ pm' = resume(pm, p)
  /\ Keep

(* Wakeup, and VMShare(Create), which raises ShareCreated in process p. *)
Wakeup(p) == Trap /\ Exists(p) /\ pm' = wakeup(pm, p) /\ Keep

WatchIRQ(p, v) ==
  /\ Trap
  /\ Exists(p)
  /\ p \notin Range(pm.notify[v])
  /\ pm' = [pm EXCEPT !.notify[v] = Append(@, p)]
  /\ Keep

EnableIRQ(v, on) ==
  /\ Trap
  /\ irqEnabled' = IF on THEN irqEnabled \cup {v} ELSE irqEnabled \ {v}
  /\ UNCHANGED <<pm, idleServer>>

WaitPID(p) ==
  /\ Trap
  /\ Exists(p)
  /\ pm.state[pm.current] = "Ready"
  /\ pm' \in schedule(wait(pm, p))
  /\ Keep

(* WaitTimer sleeps whether or not a wakeup is pending. *)
WaitTimer(t) ==
  /\ Trap
  /\ pm.state[pm.current] = "Ready"
  /\ pm' \in schedule(sleepTimer(pm, t))
  /\ Keep

(* EnterSleep without and with a timer.  With a pending wakeup it only      *)
(* resets the counter and returns.                                          *)
EnterSleep ==
  /\ Trap
  /\ pm.state[pm.current] = "Ready"
  /\ IF pm.wakeups[pm.current] = 0
       THEN pm' \in schedule(sleep(pm))
       ELSE pm' = [pm EXCEPT !.wakeups[pm.current] = 0]
  /\ Keep

EnterSleepTimer(t) ==
  /\ Trap
  /\ pm.state[pm.current] = "Ready"
  /\ pm.wakeups[pm.current] = 0
  /\ pm' \in schedule(sleepTimer(pm, t))
  /\ Keep

(* server/idle: PrivExec(Idle), followed by ProcessCtl(SELF, Schedule). *)
IdleMain ==
  /\ ~pm.fatal
  /\ pm.current # Null
  /\ pm.current = idleServer
  /\ \/ pm.idle # idleServer /\ pm' = setIdle(pm, idleServer)
     \/ pm.idle = idleServer /\ pm' \in schedule(pm)
  /\ Keep

(* The clock interrupt: Timer::tick(), then schedule(). *)

Ticked(m) ==
  [m EXCEPT !.timer = [p \in PIDS |-> IF @[p] \in 1 .. MaxSleep THEN @[p] - 1 ELSE @[p]]]

Clocktick == ~pm.fatal /\ pm' \in schedule(Ticked(pm)) /\ Keep

(* Kernel::executeIntVector masks the vector and raises InterruptEvent in   *)
(* the processes that watch it.                                             *)
Interrupt(v) ==
  /\ ~pm.fatal
  /\ v \in irqEnabled
  /\ irqEnabled' = irqEnabled \ {v}
  /\ pm' \in wakeupAll(pm, pm.notify[v])
  /\ UNCHANGED idleServer

Next ==
  \/ Spawn
  \/ \E p \in PIDS, self \in BOOLEAN : KillPID(p, self) \/ Stop(p, self)
  \/ Schedule
  \/ \E p \in PIDS : Resume(p) \/ Wakeup(p) \/ WaitPID(p)
  \/ \E p \in PIDS, v \in Vectors : WatchIRQ(p, v)
  \/ \E v \in Vectors, on \in BOOLEAN : EnableIRQ(v, on)
  \/ \E t \in 0 .. Never : WaitTimer(t) \/ EnterSleepTimer(t)
  \/ EnterSleep
  \/ IdleMain
  \/ Clocktick
  \/ \E v \in Vectors : Interrupt(v)

Spec == Init /\ [][Next]_vars

(* The clock interrupt keeps coming: clocktick() re-enables it each time. *)
FairSpec == Spec /\ WF_vars(Clocktick)

-----------------------------------------------------------------------------
Manager ==
  [state    : [PIDS -> States],
   waitId   : [PIDS -> PIDS],
   wakeups  : [PIDS -> 0 .. MaxWakeups],
   timer    : [PIDS -> 0 .. Never],
   queue    : Seq(PIDS),
   sleepers : Seq(PIDS),
   current  : PIDS \cup {Null},
   idle     : PIDS \cup {Null},
   notify   : [Vectors -> Seq(PIDS)],
   fatal    : BOOLEAN]

(* The types of the fields of the ProcessManager. *)
TypeOK ==
  /\ pm \in Manager
  /\ irqEnabled \subseteq Vectors
  /\ idleServer \in PIDS \cup {Null}

(* The run queue holds every ready process exactly once and nothing else,   *)
(* except the idle process, which setIdle() takes off the queue while its   *)
(* state stays Ready.  A process that is ready and not queued would never   *)
(* run again; one that is queued twice gets two turns and survives its own  *)
(* dequeue.                                                                 *)
RunQueueExact ==
  ~pm.fatal =>
    /\ IsInjective(pm.queue)
    /\ Range(pm.queue) = {p \in PIDS : pm.state[p] = "Ready"} \ {pm.idle}

(* The sleep timer queue holds a process at most once, which is what the    *)
(* assertions in sleep(), enqueueProcess() and remove() rely on; whoever is *)
(* in it is asleep or was stopped in its sleep, and nobody who sleeps on a  *)
(* running timer is missing from it.                                        *)
SleepersExact ==
  ~pm.fatal =>
    /\ IsInjective(pm.sleepers)
    /\ \A p \in Range(pm.sleepers) : pm.state[p] \in {"Sleeping", "Stopped"}
    /\ \A p \in PIDS : /\ pm.state[p] = "Sleeping"
                        /\ pm.timer[p] # Never
                        => p \in Range(pm.sleepers)

(* remove() leaves no pointer to the process it deletes: the queues, the    *)
(* interrupt notification lists, m_current, m_idle and the process that a   *)
(* waiter waits for all exist.                                              *)
NoDanglingProcess ==
  ~pm.fatal =>
    /\ \A p \in Range(pm.queue) \cup Range(pm.sleepers)
            \cup (UNION {Range(pm.notify[v]) : v \in Vectors})
            \cup ({pm.current, pm.idle} \ {Null}) : Exists(p)
    /\ \A p \in PIDS : pm.state[p] = "Waiting" => Exists(pm.waitId[p])

(* None of the FATAL() calls and assertions of ProcessManager and Scheduler *)
(* is reached, "no process found to run!" included, as long as nobody stops *)
(* or kills the process that runs server/idle.                              *)
NoFatal ==
  pm.fatal => idleServer = Null \/ pm.state[idleServer] = "Stopped"

(* The queues are exact and none of the FATAL() calls of ProcessManager and *)
(* Scheduler is reached while server/idle is neither stopped nor killed.    *)
Scheduled == RunQueueExact /\ SleepersExact /\ NoFatal

(* A stopped process stays stopped until it is resumed or removed: neither  *)
(* a wakeup, an event, an expiring sleep timer nor the end of a process it  *)
(* once waited for makes it run.  RecoveryServer::restartProcess depends on *)
(* this while it replaces the memory of the process.                        *)
StoppedUntilResumed ==
  [][\A p \in PIDS :
       pm.state[p] = "Stopped" /\ pm'.state[p] # "Stopped"
         => pm'.state[p] = "None" \/ Resume(p)]_vars

(* A waiting process goes on only when the process it waits for is removed, *)
(* or is removed itself; wakeups and events do not disturb it.              *)
WaitingUntilJoined ==
  [][\A p \in PIDS :
       pm.state[p] = "Waiting" /\ pm'.state[p] # "Waiting"
         => pm'.state[p] = "None" \/ pm'.state[pm.waitId[p]] = "None"]_vars

(* A process that sleeps on a timer does not sleep for ever. *)
TimedSleepEnds ==
  \A p \in PIDS : pm.state[p] = "Sleeping" /\ pm.timer[p] # Never
                     ~> pm.fatal \/ pm.state[p] # "Sleeping"

(* The idle process does not keep the processor while a process is ready:   *)
(* one that schedule() wakes after it selected the idle process runs after  *)
(* the next tick.                                                           *)
IdleYields ==
  []<>(pm.fatal \/ pm.queue = << >> \/ pm.current # pm.idle)
=============================================================================
