------------------------ MODULE ProcessManagerProofs ------------------------
(* Proofs of the safety of the process manager, for any number of processes, *)
(* interrupt vectors and ticks: create(), setIdle(), the clock and remove()  *)
(* keep the invariant, and so do the steps.                                  *)
EXTENDS ProcessOperationProofs

(* The provers that are tried on a leaf which names none, with their time. *)
USE ZenonT(5), SMTT(30)

-----------------------------------------------------------------------------
LEMMA CreateSound ==
  ASSUME NEW m \in Manager, NEW is \in PIDS \cup {Null}, Sound(m, is), ~m.fatal,
         NEW x \in create(m)
  PROVE  /\ x \in Manager /\ ~x.fatal /\ Sound(x, is)
         /\ \A q \in PIDS : x.state[q] # m.state[q] => m.state[q] = "None"
<1>1. PICK pid \in PIDS : m.state[pid] = "None" /\ x = Process(m, pid)
  BY DEF create
<1>2. /\ pid \in PIDS /\ m.state[pid] = "None"
  BY <1>1
<1>3. x = Process(m, pid)
  BY <1>1
<1>4. /\ ~x.fatal /\ x.state = [m.state EXCEPT ![pid] = "Stopped"] /\ x.queue = m.queue
      /\ x.sleepers = m.sleepers /\ x.timer = [m.timer EXCEPT ![pid] = Never]
      /\ x.waitId = m.waitId /\ x.current = m.current /\ x.idle = m.idle
      /\ x.notify = m.notify /\ x.wakeups = [m.wakeups EXCEPT ![pid] = 0]
  BY <1>3 DEF Process, Manager
<1>5. x \in Manager
  <2>1. x.state \in [PIDS -> States]
    BY <1>2, <1>4 DEF Manager, States
  <2>2. x.wakeups \in [PIDS -> 0 .. MaxWakeups]
    BY <1>2, <1>4, ConstantsAssumption DEF Manager
  <2>3. x.timer \in [PIDS -> 0 .. Never]
    <3>1. Never \in 0 .. Never
      BY ConstantsAssumption DEF Never
    <3>2. m.timer \in [PIDS -> 0 .. Never]
      BY DEF Manager
    <3> QED BY <1>2, <1>4, <3>1, <3>2
  <2> QED BY ZenonT(40), <1>3, <1>4, <2>1, <2>2, <2>3 DEF Manager, Process
<1>6. /\ x.state[pid] = "Stopped" /\ x.timer[pid] = Never
      /\ \A q \in PIDS \ {pid} : x.state[q] = m.state[q] /\ x.timer[q] = m.timer[q]
  BY <1>2, <1>4 DEF Manager
<1>7. /\ Lists(m.queue, Range(m.queue)) /\ Lists(m.sleepers, Range(m.sleepers))
      /\ pid \notin Range(m.queue) /\ pid # m.idle
  BY <1>2, UnreadyIsNotQueued
<1>8. Apart(m, x, pid)
  BY <1>4, <1>6, <1>7 DEF Apart
<1>9. Fits(x, pid)
  BY <1>4, <1>6, <1>7 DEF Fits
<1>10. QueuesExact(x) /\ RefsExist(x)
  BY <1>2, <1>5, <1>8, <1>9, FrameSound DEF Sound
<1>11. IdleReady(x, is)
  <2>1. x.current = m.current /\ x.idle = m.idle
    BY <1>4
  <2> QED BY <1>2, <1>6, <1>7, <2>1 DEF Sound, IdleReady, Manager
<1> QED BY <1>2, <1>4, <1>5, <1>6, <1>10, <1>11 DEF Sound

LEMMA SetIdleSound ==
  ASSUME NEW m \in Manager, NEW is \in PIDS, Sound(m, is), ~m.fatal,
         m.current = is, m.idle # is
  PROVE  /\ setIdle(m, is) \in Manager /\ ~setIdle(m, is).fatal /\ Sound(setIdle(m, is), is)
         /\ setIdle(m, is).state = m.state
<1> DEFINE x == setIdle(m, is)
<1>1. Null \notin PIDS
  BY ConstantsAssumption DEF PIDS
<1>2. m.state[is] = "Ready" /\ m.idle = Null
  BY <1>1 DEF Sound, IdleReady
<1>3. /\ Lists(m.queue, Range(m.queue)) /\ is \in Range(m.queue)
      /\ Range(m.queue) = ReadyProcs(m)
  <2>1. Lists(m.queue, ReadyProcs(m) \ {m.idle})
    BY DEF Sound, QueuesExact
  <2>2. ReadyProcs(m) \ {m.idle} = ReadyProcs(m) /\ is \in ReadyProcs(m)
    BY <1>1, <1>2 DEF ReadyProcs
  <2> QED BY Zenon, <2>1, <2>2, ListsRange
<1>4. Lists(dequeue(m.queue, is), ReadyProcs(m) \ {is}) /\ dequeue(m.queue, is) \in Seq(PIDS)
  BY <1>3, ListsDequeue, DequeueRange
<1>5. x = [m EXCEPT !.queue = dequeue(m.queue, is), !.idle = is]
  BY <1>3 DEF setIdle, dequeueProcess, Manager
<1>6. /\ x \in Manager /\ ~x.fatal /\ x.state = m.state /\ x.queue = dequeue(m.queue, is)
      /\ x.sleepers = m.sleepers /\ x.timer = m.timer /\ x.waitId = m.waitId
      /\ x.current = m.current /\ x.idle = is /\ x.notify = m.notify
  BY Zenon, <1>4, <1>5 DEF Manager
<1> HIDE DEF x
<1>7. QueuesExact(x)
  <2>1. ReadyProcs(x) = ReadyProcs(m)
    BY <1>6 DEF ReadyProcs
  <2> QED BY <1>4, <1>6, <2>1 DEF Sound, QueuesExact
<1>8. RefsExist(x)
  BY <1>6 DEF Sound, RefsExist
<1>9. IdleReady(x, is)
  BY <1>2, <1>6 DEF IdleReady
<1> QED BY <1>6, <1>7, <1>8, <1>9 DEF Sound, x

LEMMA TickedSound ==
  ASSUME NEW m \in Manager, NEW is \in PIDS \cup {Null}, Sound(m, is), ~m.fatal
  PROVE  /\ Ticked(m) \in Manager /\ ~Ticked(m).fatal /\ Sound(Ticked(m), is)
         /\ Ticked(m).state = m.state
<1> DEFINE x == Ticked(m)
<1>1. /\ ~x.fatal /\ x.state = m.state /\ x.queue = m.queue /\ x.sleepers = m.sleepers
      /\ x.timer = [p \in PIDS |-> IF m.timer[p] \in 1 .. MaxSleep THEN m.timer[p] - 1 ELSE m.timer[p]]
      /\ x.waitId = m.waitId /\ x.current = m.current /\ x.idle = m.idle /\ x.notify = m.notify
      /\ x.wakeups = m.wakeups
  BY DEF Ticked, Manager
<1>2. \A p \in PIDS : x.timer[p] \in 0 .. Never /\ (x.timer[p] # Never => m.timer[p] # Never)
  BY <1>1, ConstantsAssumption DEF Manager, Never
<1>3. x \in Manager
  <2>1. x.timer \in [PIDS -> 0 .. Never]
    BY <1>1, <1>2
  <2> QED BY Zenon, <1>1, <2>1 DEF Manager, Ticked
<1> HIDE DEF x
<1>4. QueuesExact(x)
  <2>1. ReadyProcs(x) = ReadyProcs(m)
    BY <1>1 DEF ReadyProcs
  <2> QED BY <1>1, <1>2, <2>1 DEF Sound, QueuesExact
<1>5. RefsExist(x)
  BY <1>1 DEF Sound, RefsExist
<1>6. IdleReady(x, is)
  BY <1>1 DEF Sound, IdleReady
<1> QED BY <1>1, <1>3, <1>4, <1>5, <1>6 DEF Sound, x

-----------------------------------------------------------------------------
(* remove(): the waiters of p join, nothing refers to p, and its slot of the  *)
(* process table is free.                                                     *)
LEMMA AllPIDsLists == Lists(AllPIDs, PIDS)
<1>1. MaxProcs \in Nat /\ AllPIDs = [i \in 1 .. MaxProcs |-> i - 1]
  BY ConstantsAssumption DEF AllPIDs
<1>2. AllPIDs \in [1 .. MaxProcs -> PIDS]
  BY <1>1 DEF PIDS
<1>3. AllPIDs \in Seq(PIDS)
  BY <1>1, <1>2
<1>4. IsInjective(AllPIDs)
  BY <1>1 DEF IsInjective
<1>5. Range(AllPIDs) = PIDS
  <2>1. Range(AllPIDs) \subseteq PIDS
    BY <1>1, <1>2 DEF Range
  <2>2. ASSUME NEW p \in PIDS PROVE p \in Range(AllPIDs)
    <3>1. p + 1 \in DOMAIN AllPIDs /\ AllPIDs[p + 1] = p
      BY <1>1 DEF PIDS
    <3> QED BY <3>1 DEF Range
  <2> QED BY <2>1, <2>2
<1> QED BY <1>3, <1>4, <1>5 DEF Lists

Joining(m, p, j) ==
  LET W == Waiters(m, p)
  IN  /\ j \in Manager
      /\ \A q \in PIDS : /\ q \in W => j.state[q] = "Ready"
                         /\ q \notin W => j.state[q] = m.state[q] /\ j.waitId[q] = m.waitId[q]
      /\ j.timer = m.timer /\ j.fatal = m.fatal
      /\ j.idle = (IF m.idle = p THEN Null ELSE m.idle)
      /\ j.current = (IF m.current = p THEN Null ELSE m.current)
      /\ \A v \in Vectors : j.notify[v] = Without(m.notify[v], p)
      /\ Lists(j.queue, Range(j.queue)) /\ Range(j.queue) = Range(m.queue) \cup W
      /\ Lists(j.sleepers, Range(j.sleepers)) /\ Range(j.sleepers) = Range(m.sleepers)

LEMMA JoinAllFields ==
  ASSUME NEW m \in Manager, NEW is \in PIDS \cup {Null}, Sound(m, is),
         NEW p \in PIDS, NEW j \in joinAll(m, p)
  PROVE  Joining(m, p, j)
<1> DEFINE W == Waiters(m, p)
           y == Joined(m, W)
<1>1. PICK w \in Filters(AllPIDs, W), r \in Filters(m.sleepers, PIDS \ W) :
        j = Unreferenced(y, p, w, r)
  BY DEF joinAll
<1>2. W \subseteq PIDS /\ \A q \in W : m.state[q] = "Waiting"
  BY DEF Waiters
<1>3. /\ y.state = [q \in PIDS |-> IF q \in W THEN "Ready" ELSE m.state[q]]
      /\ y.waitId = [q \in PIDS |-> IF q \in W THEN 0 ELSE m.waitId[q]]
      /\ y.timer = m.timer /\ y.wakeups = m.wakeups /\ y.fatal = m.fatal /\ y.idle = m.idle
      /\ y.current = m.current /\ y.notify = m.notify /\ y.queue = m.queue
  BY DEF Joined, Manager
<1>4. y \in Manager
  <2>1. y.state \in [PIDS -> States]
    BY <1>3 DEF Manager, States
  <2>2. y.waitId \in [PIDS -> PIDS]
    <3>1. 0 \in PIDS
      BY ConstantsAssumption DEF PIDS
    <3> QED BY <1>3, <3>1 DEF Manager
  <2> QED BY ZenonT(40), <2>1, <2>2 DEF Manager, Joined
<1>5. /\ Lists(m.queue, Range(m.queue)) /\ Range(m.queue) = ReadyProcs(m) \ {m.idle}
      /\ Lists(m.sleepers, Range(m.sleepers)) /\ Range(m.sleepers) \subseteq PIDS
  BY ListsRange DEF Sound, QueuesExact
<1> HIDE DEF W, y
<1>6. Lists(w, W)
  <2>1. Lists(w, PIDS \cap W)
    BY <1>1, AllPIDsLists, ListsFilters
  <2>2. PIDS \cap W = W
    BY <1>2
  <2> QED BY Zenon, <2>1, <2>2
<1>7. Lists(r, Range(m.sleepers))
  <2>1. Lists(r, Range(m.sleepers) \cap (PIDS \ W))
    BY <1>1, <1>5, ListsFilters
  <2>2. Range(m.sleepers) \cap (PIDS \ W) = Range(m.sleepers)
    BY <1>2, <1>5 DEF Sound, QueuesExact
  <2> QED BY <2>1, <2>2
<1>8. Lists(m.queue \o w, Range(m.queue) \cup W)
  <2>1. Range(m.queue) \cap W = {}
    BY <1>2, <1>5 DEF ReadyProcs
  <2> QED BY <1>5, <1>6, <2>1, ListsConcat
<1>9. \A v \in Vectors : Without(m.notify[v], p) \in Seq(PIDS)
  BY WithoutRange DEF Sound, RefsExist
<1>10. m.queue \o w \in Seq(PIDS) /\ r \in Seq(PIDS)
  BY <1>7, <1>8 DEF Lists
<1>11. /\ j.state = y.state /\ j.waitId = y.waitId /\ j.wakeups = y.wakeups /\ j.timer = y.timer
       /\ j.fatal = y.fatal /\ j.idle = (IF y.idle = p THEN Null ELSE y.idle)
       /\ j.current = (IF y.current = p THEN Null ELSE y.current)
       /\ j.notify = [v \in Vectors |-> Without(y.notify[v], p)]
       /\ j.queue = y.queue \o w /\ j.sleepers = r
  BY Zenon, <1>1, <1>4 DEF Unreferenced, Manager
<1>12. j \in Manager
  <2>1. j.notify \in [Vectors -> Seq(PIDS)]
    BY <1>3, <1>9, <1>11
  <2>2. j.idle \in PIDS \cup {Null} /\ j.current \in PIDS \cup {Null}
    BY <1>3, <1>11 DEF Manager
  <2>3. j.queue \in Seq(PIDS) /\ j.sleepers \in Seq(PIDS)
    BY <1>3, <1>10, <1>11
  <2> QED BY ZenonT(40), <1>1, <1>4, <1>11, <2>1, <2>2, <2>3 DEF Unreferenced, Manager
<1>13. \A q \in PIDS : /\ q \in W => j.state[q] = "Ready"
                       /\ q \notin W => j.state[q] = m.state[q] /\ j.waitId[q] = m.waitId[q]
  BY <1>3, <1>11
<1>14. /\ Lists(j.queue, Range(j.queue)) /\ Range(j.queue) = Range(m.queue) \cup W
       /\ Lists(j.sleepers, Range(j.sleepers)) /\ Range(j.sleepers) = Range(m.sleepers)
  BY <1>3, <1>7, <1>8, <1>11, ListsRange
<1>15. \A v \in Vectors : j.notify[v] = Without(m.notify[v], p)
  BY <1>3, <1>11
<1> QED BY <1>3, <1>11, <1>12, <1>13, <1>14, <1>15 DEF Joining, W

(* Who still runs server/idle once p is removed. *)
Remaining(is, p) == IF p = is THEN Null ELSE is

(* The slot of p is free, its waiters are ready, and nobody else changed. *)
RemovedState(m, p, x) ==
  \A q \in PIDS : x.state[q] = IF q = p THEN "None"
                               ELSE IF q \in Waiters(m, p) THEN "Ready" ELSE m.state[q]

LEMMA UnlinkSound ==
  ASSUME NEW m \in Manager, NEW is \in PIDS \cup {Null}, Sound(m, is), ~m.fatal,
         NEW p \in PIDS, m.state[p] # "None", NEW j, Joining(m, p, j)
  PROVE  /\ Held(unlink(j, p), Remaining(is, p)) /\ RemovedState(m, p, unlink(j, p))
         /\ Lists(unlink(j, p).sleepers, Range(unlink(j, p).sleepers))
<1> DEFINE W == Waiters(m, p)
           d == IF j.state[p] = "Ready" THEN dequeueProcess(j, p, TRUE) ELSE j
           x == unlink(j, p)
<1>1. /\ j \in Manager
      /\ \A q \in PIDS : /\ q \in W => j.state[q] = "Ready"
                         /\ q \notin W => j.state[q] = m.state[q] /\ j.waitId[q] = m.waitId[q]
      /\ j.timer = m.timer /\ ~j.fatal
      /\ j.idle = (IF m.idle = p THEN Null ELSE m.idle)
      /\ j.current = (IF m.current = p THEN Null ELSE m.current)
      /\ \A v \in Vectors : j.notify[v] = Without(m.notify[v], p)
      /\ Lists(j.queue, Range(j.queue)) /\ Range(j.queue) = Range(m.queue) \cup W
      /\ Lists(j.sleepers, Range(j.sleepers)) /\ Range(j.sleepers) = Range(m.sleepers)
  BY DEF Joining
<1>2. W \subseteq PIDS /\ \A q \in W : m.state[q] = "Waiting" /\ m.waitId[q] = p
  BY DEF Waiters
<1>3. \A q \in PIDS \ W : m.state[q] = "Waiting" => m.waitId[q] # p
  BY DEF Waiters
<1>4. /\ Range(m.queue) = ReadyProcs(m) \ {m.idle} /\ Range(m.sleepers) \subseteq PIDS
      /\ Null \notin PIDS
  BY ListsRange, ConstantsAssumption DEF Sound, QueuesExact, PIDS
<1> HIDE DEF W
<1>5. /\ d \in Manager /\ d.state = j.state /\ d.waitId = j.waitId /\ d.timer = j.timer
      /\ d.idle = j.idle /\ d.current = j.current /\ d.notify = j.notify
      /\ d.sleepers = j.sleepers /\ d.wakeups = j.wakeups
      /\ d.fatal => p = m.idle
      /\ ~d.fatal => Lists(d.queue, (Range(m.queue) \cup W) \ {p})
  <2>1. CASE j.state[p] # "Ready"
    <3>1. p \notin Range(m.queue) \cup W
      BY <1>1, <1>4, <2>1 DEF ReadyProcs
    <3>2. (Range(m.queue) \cup W) \ {p} = Range(j.queue)
      BY <1>1, <3>1
    <3> QED BY <1>1, <2>1, <3>2
  <2>2. CASE j.state[p] = "Ready" /\ p \in Range(j.queue)
    <3>1. d = [j EXCEPT !.queue = dequeue(j.queue, p)]
      BY <2>2 DEF dequeueProcess
    <3>2. Lists(dequeue(j.queue, p), Range(j.queue) \ {p}) /\ dequeue(j.queue, p) \in Seq(PIDS)
      BY ZenonT(40), <1>1, <2>2, ListsDequeue, DequeueRange
    <3> HIDE DEF d
    <3>3. /\ d \in Manager /\ d.state = j.state /\ d.waitId = j.waitId /\ d.timer = j.timer
          /\ d.idle = j.idle /\ d.current = j.current /\ d.notify = j.notify
          /\ d.sleepers = j.sleepers /\ d.wakeups = j.wakeups /\ ~d.fatal
          /\ d.queue = dequeue(j.queue, p)
      BY ZenonT(40), <1>1, <3>1, <3>2 DEF Manager
    <3> QED BY <1>1, <3>2, <3>3
  <2>3. CASE j.state[p] = "Ready" /\ p \notin Range(j.queue)
    <3>1. d = FATAL(j)
      BY <2>3 DEF dequeueProcess
    <3>2. p = m.idle
      BY <1>1, <1>4, <2>3 DEF ReadyProcs
    <3> HIDE DEF d
    <3> QED BY Zenon, <1>1, <3>1, <3>2 DEF FATAL, Manager
  <2> QED BY ZenonT(40), <2>1, <2>2, <2>3
<1>6. x = [d EXCEPT !.sleepers = Without(@, p), !.state[p] = "None",
                    !.waitId[p] = 0, !.wakeups[p] = 0, !.timer[p] = Never]
  BY DEF unlink
<1> HIDE DEF d
<1>7. /\ Lists(Without(j.sleepers, p), Range(Without(j.sleepers, p)))
      /\ Range(Without(j.sleepers, p)) = Range(m.sleepers) \ {p}
      /\ Without(j.sleepers, p) \in Seq(PIDS)
  BY <1>1, WithoutRange
<1>8. /\ x.sleepers = Without(j.sleepers, p) /\ x.queue = d.queue /\ x.fatal = d.fatal
      /\ x.idle = j.idle /\ x.current = j.current /\ x.notify = j.notify
      /\ x.state = [j.state EXCEPT ![p] = "None"] /\ x.waitId = [j.waitId EXCEPT ![p] = 0]
      /\ x.wakeups = [j.wakeups EXCEPT ![p] = 0] /\ x.timer = [j.timer EXCEPT ![p] = Never]
  <2>0. d \in Manager
    BY <1>5
  <2>1. /\ x.sleepers = Without(d.sleepers, p) /\ x.queue = d.queue /\ x.fatal = d.fatal
        /\ x.idle = d.idle /\ x.current = d.current /\ x.notify = d.notify
    BY <1>6, <2>0 DEF Manager
  <2>2. x.state = [d.state EXCEPT ![p] = "None"] /\ x.waitId = [d.waitId EXCEPT ![p] = 0]
    BY <1>6, <2>0 DEF Manager
  <2>3. x.wakeups = [d.wakeups EXCEPT ![p] = 0] /\ x.timer = [d.timer EXCEPT ![p] = Never]
    BY <1>6, <2>0 DEF Manager
  <2> QED BY <1>5, <2>1, <2>2, <2>3
<1>9. x \in Manager
  <2>1. x.state \in [PIDS -> States]
    <3>1. j.state \in [PIDS -> States] /\ "None" \in States
      BY <1>1 DEF Manager, States
    <3>2. x.state = [j.state EXCEPT ![p] = "None"]
      BY <1>8
    <3> QED BY <3>1, <3>2
  <2>2. x.waitId \in [PIDS -> PIDS]
    <3>1. j.waitId \in [PIDS -> PIDS]
      BY <1>1 DEF Manager
    <3>2. x.waitId = [j.waitId EXCEPT ![p] = 0]
      BY <1>8
    <3>3. 0 \in PIDS
      BY ConstantsAssumption DEF PIDS
    <3> QED BY <3>1, <3>2, <3>3
  <2>3. x.wakeups \in [PIDS -> 0 .. MaxWakeups]
    <3>1. j.wakeups \in [PIDS -> 0 .. MaxWakeups] /\ 0 \in 0 .. MaxWakeups
      BY <1>1, ConstantsAssumption DEF Manager
    <3>2. x.wakeups = [j.wakeups EXCEPT ![p] = 0]
      BY <1>8
    <3> QED BY <3>1, <3>2
  <2>4. x.timer \in [PIDS -> 0 .. Never]
    <3>1. j.timer \in [PIDS -> 0 .. Never]
      BY <1>1 DEF Manager
    <3>2. x.timer = [j.timer EXCEPT ![p] = Never]
      BY <1>8
    <3>3. Never \in 0 .. Never
      BY ConstantsAssumption DEF Never
    <3> QED BY <3>1, <3>2, <3>3
  <2>5. d \in Manager
    BY <1>5
  <2>6. x.sleepers \in Seq(PIDS)
    BY <1>7, <1>8
  <2> QED BY ZenonT(60), <1>6, <2>1, <2>2, <2>3, <2>4, <2>5, <2>6 DEF Manager
<1> HIDE DEF x
<1>10. /\ x.state[p] = "None" /\ x.timer[p] = Never
       /\ \A q \in PIDS \ {p} :
            /\ q \in W => x.state[q] = "Ready"
            /\ q \notin W => x.state[q] = m.state[q] /\ x.waitId[q] = m.waitId[q]
            /\ x.timer[q] = m.timer[q]
  <2>1. x.state[p] = "None" /\ x.timer[p] = Never
    BY <1>1, <1>8 DEF Manager
  <2>2. \A q \in PIDS \ {p} : x.state[q] = j.state[q] /\ x.timer[q] = j.timer[q] /\ x.waitId[q] = j.waitId[q]
    BY <1>1, <1>8 DEF Manager
  <2> QED BY <1>1, <2>1, <2>2
<1>11. RemovedState(m, p, x)
  BY <1>10 DEF RemovedState, W
<1>12. ASSUME ~x.fatal PROVE QueuesExact(x)
  <2>1. Lists(x.queue, (Range(m.queue) \cup W) \ {p})
    BY <1>5, <1>8, <1>12
  <2>2. \A q \in PIDS : q \in (Range(m.queue) \cup W) \ {p} <=> q \in ReadyProcs(x) \ {x.idle}
    <3>1. m.idle \notin W
      <4>1. m.idle = Null \/ m.state[m.idle] = "Ready"
        BY DEF Sound, IdleReady
      <4> QED BY <1>2, <1>4, <4>1
    <3>2. x.idle = IF m.idle = p THEN Null ELSE m.idle
      BY <1>1, <1>8
    <3> QED BY <1>4, <1>10, <3>1, <3>2 DEF ReadyProcs
  <2>3. (Range(m.queue) \cup W) \ {p} = ReadyProcs(x) \ {x.idle}
    BY <1>2, <1>4, <2>2 DEF ReadyProcs
  <2>4. Lists(x.queue, ReadyProcs(x) \ {x.idle})
    BY <2>1, <2>3
  <2>5. Lists(x.sleepers, Range(x.sleepers)) /\ Range(x.sleepers) = Range(m.sleepers) \ {p}
    BY Zenon, <1>7, <1>8
  <2>6. ASSUME NEW q \in Range(x.sleepers) PROVE x.state[q] \in {"Sleeping", "Stopped"}
    <3>1. q \in PIDS \ {p} /\ m.state[q] \in {"Sleeping", "Stopped"}
      BY <1>4, <2>5 DEF Sound, QueuesExact
    <3> QED BY <1>2, <1>10, <3>1
  <2>7. ASSUME NEW q \in PIDS, x.timer[q] # Never
        PROVE  x.state[q] = "Stopped" \/ (x.state[q] = "Sleeping" /\ q \in Range(x.sleepers))
    <3>1. q # p /\ m.timer[q] # Never
      BY <1>10, <2>7
    <3>2. m.state[q] = "Stopped" \/ (m.state[q] = "Sleeping" /\ q \in Range(m.sleepers))
      BY <3>1 DEF Sound, QueuesExact
    <3> QED BY <1>2, <1>10, <2>5, <3>1, <3>2
  <2> QED BY <2>4, <2>5, <2>6, <2>7 DEF QueuesExact
<1>13. \A q \in PIDS \ {p} : m.state[q] # "None" => x.state[q] # "None"
  BY <1>10
<1>14. RefsExist(x)
  <2>1. ASSUME NEW v \in Vectors
        PROVE  /\ Lists(x.notify[v], Range(x.notify[v]))
               /\ \A q \in Range(x.notify[v]) : x.state[q] # "None"
    <3>1. Lists(m.notify[v], Range(m.notify[v])) /\ \A q \in Range(m.notify[v]) : m.state[q] # "None"
      BY DEF Sound, RefsExist
    <3>2. /\ Lists(x.notify[v], Range(x.notify[v]))
          /\ Range(x.notify[v]) = Range(m.notify[v]) \ {p} /\ Range(m.notify[v]) \subseteq PIDS
      BY <1>1, <1>8, <3>1, WithoutRange, ListsRange
    <3> QED BY <1>13, <3>1, <3>2
  <2>2. x.current # Null => x.state[x.current] # "None"
    <3>1. x.current = IF m.current = p THEN Null ELSE m.current
      BY <1>1, <1>8
    <3> QED BY <1>13, <3>1 DEF Sound, RefsExist, Manager
  <2>3. ASSUME NEW q \in PIDS, x.state[q] = "Waiting" PROVE x.state[x.waitId[q]] # "None"
    <3>1. q # p /\ q \notin W
      BY <1>10, <2>3
    <3>2. m.state[q] = "Waiting" /\ x.waitId[q] = m.waitId[q] /\ m.waitId[q] \in PIDS
      BY <1>10, <2>3, <3>1 DEF Manager
    <3>3. m.waitId[q] # p
      BY <1>3, <3>1, <3>2
    <3> QED BY <1>13, <3>2, <3>3 DEF Sound, RefsExist
  <2> QED BY <2>1, <2>2, <2>3 DEF RefsExist
<1>15. IdleReady(x, Remaining(is, p))
  <2>1. /\ x.idle = (IF m.idle = p THEN Null ELSE m.idle)
        /\ x.current = (IF m.current = p THEN Null ELSE m.current)
    BY <1>1, <1>8
  <2>2. \A q \in PIDS \ {p} : m.state[q] \in {"Ready", "Stopped"} => x.state[q] = m.state[q]
    BY <1>2, <1>10
  <2> QED BY <1>4, <2>1, <2>2 DEF Sound, IdleReady, Remaining, Manager
<1>16. FatalExcused(x, Remaining(is, p))
  <2>1. x.fatal => p = is
    BY <1>4, <1>5, <1>8 DEF Sound, IdleReady
  <2> QED BY <2>1 DEF FatalExcused, Remaining
<1> QED BY ZenonT(40), <1>7, <1>8, <1>9, <1>11, <1>12, <1>14, <1>15, <1>16 DEF Held, Sound, x

LEMMA RemoveSound ==
  ASSUME NEW m \in Manager, NEW is \in PIDS \cup {Null}, Sound(m, is), ~m.fatal,
         NEW p \in PIDS, m.state[p] # "None",
         NEW s, Lists(s, Range(s)), NEW x \in remove(m, p, s)
  PROVE  /\ Held(x, Remaining(is, p))
         /\ \E u \in Manager : RemovedState(m, p, u) /\ OnlySleepersRise(u, x)
<1>1. PICK j \in joinAll(m, p) : x \in wakeupAll(unlink(j, p), s)
  BY DEF remove
<1> DEFINE u == unlink(j, p)
<1>2. Joining(m, p, j)
  BY <1>1, JoinAllFields
<1>3. Held(u, Remaining(is, p)) /\ RemovedState(m, p, u) /\ Lists(u.sleepers, Range(u.sleepers))
  BY <1>2, UnlinkSound
<1>4. x \in wakeupAll(u, s) /\ u \in Manager
  BY <1>1, <1>3 DEF Held
<1>5. Remaining(is, p) \in PIDS \cup {Null}
  BY DEF Remaining
<1> HIDE DEF u
<1>6. CASE ~u.fatal
  <2>1. Held(x, Remaining(is, p)) /\ OnlySleepersRise(u, x)
    BY <1>3, <1>4, <1>5, <1>6, WakeupAllSound DEF Held
  <2> QED BY <1>3, <1>4, <2>1
<1>7. CASE u.fatal
  <2>1. Woke(u, x, Asleep(u, Range(s)))
    BY <1>3, <1>4, WakeupAllFields
  <2>2. x \in Manager /\ x.fatal
    BY <1>7, <2>1 DEF Woke
  <2>3. OnlySleepersRise(u, x)
    BY <2>1 DEF Woke, OnlySleepersRise, Asleep
  <2>4. \A q \in PIDS : u.state[q] = "Stopped" => x.state[q] = "Stopped"
    BY <2>3 DEF OnlySleepersRise
  <2>5. FatalExcused(x, Remaining(is, p))
    BY <1>3, <1>5, <1>7, <2>4 DEF Held, FatalExcused
  <2> QED BY <1>3, <1>4, <2>2, <2>3, <2>5 DEF Held
<1> QED BY <1>6, <1>7

-----------------------------------------------------------------------------
(* The steps.  Beside the invariant, each obeys the two laws on the states    *)
(* that a process leaves only for a reason.                                   *)
StepLaw ==
  \A p \in PIDS :
    /\ pm.state[p] = "Stopped" /\ pm'.state[p] # "Stopped"
         => pm'.state[p] = "None" \/ Resume(p)
    /\ pm.state[p] = "Waiting" /\ pm'.state[p] # "Waiting"
         => pm'.state[p] = "None" \/ pm'.state[pm.waitId[p]] = "None"

LEMMA IInvHeld ==
  IInv <=> Held(pm, idleServer) /\ irqEnabled \subseteq Vectors /\ idleServer \in PIDS \cup {Null}
  BY DEF IInv, Held, TypeOK

LEMMA IInvHeldNext ==
  Held(pm', idleServer') /\ irqEnabled' \subseteq Vectors /\ idleServer' \in PIDS \cup {Null} => IInv'
  BY DEF IInv, Held, TypeOK

(* What a handler may assume of the state in which it is called. *)
LEMMA TrapState ==
  ASSUME IInv, ~pm.fatal
  PROVE  /\ pm \in Manager /\ idleServer \in PIDS \cup {Null} /\ Sound(pm, idleServer)
         /\ irqEnabled \subseteq Vectors
         /\ Trap => pm.current \in PIDS \ {idleServer}
  BY DEF IInv, TypeOK, Trap, Manager

LEMMA SpawnStep == ASSUME IInv, Spawn PROVE IInv' /\ StepLaw
<1>1. ~pm.fatal /\ pm' \in create(pm)
      /\ irqEnabled' = irqEnabled /\ idleServer' = idleServer
  BY DEF Spawn, Trap, Keep
<1>2. /\ pm' \in Manager /\ ~pm'.fatal /\ Sound(pm', idleServer)
      /\ \A q \in PIDS : pm'.state[q] # pm.state[q] => pm.state[q] = "None"
  BY <1>1, TrapState, CreateSound
<1>3. StepLaw
  BY <1>2 DEF StepLaw
<1> QED BY <1>1, <1>2, <1>3, TrapState, IInvHeldNext DEF Held, FatalExcused

(* A step that ends in schedule(), from the record m that the handler made. *)
LEMMA ScheduleStep ==
  ASSUME IInv, ~pm.fatal, Keep, NEW m \in Manager, Sound(m, idleServer), ~m.fatal,
         \A q \in PIDS : m.state[q] # pm.state[q] => pm.state[q] \notin {"Stopped", "Waiting"},
         pm' \in schedule(m)
  PROVE  IInv' /\ StepLaw
<1>1. Held(pm', idleServer) /\ OnlySleepersRise(m, pm')
  BY TrapState, ScheduleSound
<1>2. \A q \in PIDS : pm.state[q] \in {"Stopped", "Waiting"} => pm'.state[q] = pm.state[q]
  BY <1>1 DEF OnlySleepersRise
<1>3. StepLaw
  BY <1>2 DEF StepLaw
<1> QED BY <1>1, <1>3, TrapState, IInvHeldNext DEF Keep

LEMMA ScheduleActionStep == ASSUME IInv, Schedule PROVE IInv' /\ StepLaw
  BY TrapState, ScheduleStep DEF Schedule, Trap

LEMMA WaitPIDStep == ASSUME IInv, NEW p \in PIDS, WaitPID(p) PROVE IInv' /\ StepLaw
<1>1. /\ ~pm.fatal /\ pm.state[p] # "None" /\ pm.state[pm.current] = "Ready" /\ Keep
      /\ pm' \in schedule(wait(pm, p)) /\ Trap
  BY DEF WaitPID, Trap, Exists
<1>2. /\ pm \in Manager /\ idleServer \in PIDS \cup {Null} /\ Sound(pm, idleServer)
      /\ pm.current \in PIDS \ {idleServer}
  BY <1>1, TrapState
<1>3. /\ wait(pm, p) \in Manager /\ ~wait(pm, p).fatal /\ Sound(wait(pm, p), idleServer)
      /\ wait(pm, p).state = [pm.state EXCEPT ![pm.current] = "Waiting"]
  BY Zenon, <1>1, <1>2, WaitSound
<1>4. \A q \in PIDS : wait(pm, p).state[q] # pm.state[q] => pm.state[q] \notin {"Stopped", "Waiting"}
  BY <1>1, <1>2, <1>3 DEF Manager
<1> QED BY Zenon, <1>1, <1>3, <1>4, ScheduleStep

LEMMA SleepTimerStep ==
  ASSUME IInv, Trap, pm.state[pm.current] = "Ready", NEW t \in 0 .. Never,
         pm' \in schedule(sleepTimer(pm, t)), Keep
  PROVE  IInv' /\ StepLaw
<1>1. /\ pm \in Manager /\ idleServer \in PIDS \cup {Null} /\ Sound(pm, idleServer)
      /\ pm.current \in PIDS \ {idleServer} /\ ~pm.fatal
  BY TrapState DEF Trap
<1> DEFINE x == sleepTimer(pm, t)
<1>2. /\ x \in Manager /\ ~x.fatal /\ Sound(x, idleServer)
      /\ x.state = [pm.state EXCEPT ![pm.current] = "Sleeping"]
  BY <1>1, SleepTimerSound
<1> HIDE DEF x
<1>0. pm.state \in [PIDS -> States] /\ pm.state[pm.current] = "Ready"
  BY <1>1 DEF Manager
<1>3. \A q \in PIDS : x.state[q] # pm.state[q] => pm.state[q] \notin {"Stopped", "Waiting"}
  BY <1>0, <1>1, <1>2
<1> QED BY Zenon, <1>1, <1>2, <1>3, ScheduleStep DEF x

LEMMA EnterSleepStep == ASSUME IInv, EnterSleep PROVE IInv' /\ StepLaw
<1>1. /\ pm \in Manager /\ idleServer \in PIDS \cup {Null} /\ Sound(pm, idleServer)
      /\ pm.current \in PIDS \ {idleServer} /\ ~pm.fatal /\ irqEnabled \subseteq Vectors
      /\ pm.state[pm.current] = "Ready" /\ Keep
  BY TrapState DEF EnterSleep, Trap
<1>2. CASE pm.wakeups[pm.current] = 0
  <2> DEFINE x == sleep(pm)
  <2>1. /\ x \in Manager /\ ~x.fatal /\ Sound(x, idleServer)
        /\ x.state = [pm.state EXCEPT ![pm.current] = "Sleeping"]
    BY <1>1, SleepSound
  <2>2. pm' \in schedule(x)
    BY <1>2 DEF EnterSleep
  <2> HIDE DEF x
  <2>3. \A q \in PIDS : x.state[q] # pm.state[q] => pm.state[q] \notin {"Stopped", "Waiting"}
    BY ZenonT(40), <1>1, <2>1 DEF Manager
  <2> QED BY Zenon, <1>1, <2>1, <2>2, <2>3, ScheduleStep
<1>3. CASE pm.wakeups[pm.current] # 0
  <2>1. pm' = [pm EXCEPT !.wakeups[pm.current] = 0]
    BY <1>3 DEF EnterSleep
  <2>2. /\ pm'.state = pm.state /\ pm'.queue = pm.queue /\ pm'.sleepers = pm.sleepers
        /\ pm'.timer = pm.timer /\ pm'.waitId = pm.waitId /\ pm'.current = pm.current
        /\ pm'.idle = pm.idle /\ pm'.notify = pm.notify /\ ~pm'.fatal
        /\ pm'.wakeups = [pm.wakeups EXCEPT ![pm.current] = 0]
    BY <1>1, <2>1 DEF Manager
  <2>3. pm' \in Manager
    <3>1. pm'.wakeups \in [PIDS -> 0 .. MaxWakeups]
      BY <1>1, <2>2, ConstantsAssumption DEF Manager
    <3> QED BY ZenonT(40), <1>1, <2>1, <2>2, <3>1 DEF Manager
  <2>4. Sound(pm', idleServer)
    BY <1>1, <2>2, <2>3, WakeupsFrame
  <2>5. StepLaw
    BY <2>2 DEF StepLaw
  <2> QED BY <1>1, <2>2, <2>3, <2>4, <2>5, IInvHeldNext DEF Held, FatalExcused, Keep
<1> QED BY <1>2, <1>3

LEMMA KillPIDStep ==
  ASSUME IInv, NEW p \in PIDS, NEW self \in BOOLEAN, KillPID(p, self)
  PROVE  IInv' /\ StepLaw
<1>1. /\ pm \in Manager /\ idleServer \in PIDS \cup {Null} /\ Sound(pm, idleServer)
      /\ ~pm.fatal /\ irqEnabled' \subseteq Vectors /\ pm.state[p] # "None"
  BY TrapState DEF KillPID, Trap, Exists
<1>2. /\ idleServer' = Remaining(idleServer, p)
      /\ Remaining(idleServer, p) \in PIDS \cup {Null}
  BY <1>1 DEF KillPID, Remaining
<1>0. PICK peers \in SUBSET {q \in PIDS \ {p} : Exists(q)} :
        \E s \in Orders(peers) : \E m \in remove(pm, p, s) :
          IF self /\ ~m.fatal THEN pm' \in schedule(m) ELSE pm' = m
  BY DEF KillPID
<1>s. PICK s \in Orders(peers) : \E m \in remove(pm, p, s) :
        IF self /\ ~m.fatal THEN pm' \in schedule(m) ELSE pm' = m
  BY <1>0
<1>3. PICK m \in remove(pm, p, s) :
        IF self /\ ~m.fatal THEN pm' \in schedule(m) ELSE pm' = m
  BY <1>s
<1>4. Lists(s, Range(s))
  <2>1. PICK n \in 0 .. MaxProcs : s \in [1 .. n -> peers] /\ IsInjective(s)
    BY DEF Orders, Bijection, Injection
  <2>2. s \in Seq(PIDS)
    BY <2>1, ConstantsAssumption
  <2> QED BY <2>1, <2>2 DEF Lists
<1>5. Held(m, idleServer')
  BY <1>1, <1>2, <1>3, <1>4, RemoveSound
<1>6. PICK u \in Manager : RemovedState(pm, p, u) /\ OnlySleepersRise(u, m)
  BY <1>1, <1>2, <1>3, <1>4, RemoveSound
<1>7. Held(pm', idleServer') /\ (pm' = m \/ OnlySleepersRise(m, pm'))
  <2>1. CASE self /\ ~m.fatal
    BY <1>2, <1>3, <1>5, <2>1, ScheduleSound DEF Held
  <2>2. CASE ~(self /\ ~m.fatal)
    BY <1>3, <1>5, <2>2
  <2> QED BY <2>1, <2>2
<1>8. StepLaw
  <2>1. /\ u.state[p] = "None"
        /\ \A q \in PIDS : pm.state[q] = "Stopped" => u.state[q] \in {"Stopped", "None"}
        /\ \A q \in PIDS : pm.state[q] = "Waiting" /\ pm.waitId[q] # p => u.state[q] \in {"Waiting", "None"}
    BY <1>6 DEF RemovedState, Waiters
  <2>2. \A q \in PIDS : u.state[q] \in {"Stopped", "Waiting", "None"} => pm'.state[q] = u.state[q]
    BY <1>6, <1>7 DEF OnlySleepersRise
  <2>3. /\ pm'.state[p] = "None"
        /\ \A q \in PIDS : pm.state[q] = "Stopped" => pm'.state[q] \in {"Stopped", "None"}
        /\ \A q \in PIDS : pm.state[q] = "Waiting" /\ pm.waitId[q] # p => pm'.state[q] \in {"Waiting", "None"}
    BY <2>1, <2>2
  <2> QED BY <2>3 DEF StepLaw
<1> QED BY <1>1, <1>2, <1>7, <1>8, IInvHeldNext

LEMMA StopStep ==
  ASSUME IInv, NEW p \in PIDS, NEW self \in BOOLEAN, Stop(p, self)
  PROVE  IInv' /\ StepLaw
<1>1. /\ pm \in Manager /\ idleServer \in PIDS \cup {Null} /\ Sound(pm, idleServer)
      /\ ~pm.fatal /\ irqEnabled \subseteq Vectors /\ pm.current # idleServer
      /\ pm.state[p] \in {"Ready", "Sleeping", "Stopped"} /\ Keep
  BY TrapState DEF Stop, Trap
<1> DEFINE m == stop(pm, p)
<1>2. IF self /\ ~m.fatal THEN pm' \in schedule(m) ELSE pm' = m
  BY DEF Stop
<1>3. Held(m, idleServer) /\ m.state = [pm.state EXCEPT ![p] = "Stopped"]
  BY <1>1, StopSound
<1> HIDE DEF m
<1>4. /\ m.state[p] = "Stopped"
      /\ \A q \in PIDS \ {p} : m.state[q] = pm.state[q]
  BY <1>1, <1>3 DEF Manager
<1>5. Held(pm', idleServer) /\ (pm' = m \/ OnlySleepersRise(m, pm'))
  <2>1. CASE self /\ ~m.fatal
    BY <1>1, <1>2, <1>3, <2>1, ScheduleSound DEF Held
  <2>2. CASE ~(self /\ ~m.fatal)
    BY <1>2, <1>3, <2>2
  <2> QED BY <2>1, <2>2
<1>6. \A q \in PIDS : pm.state[q] \in {"Stopped", "Waiting"} => pm'.state[q] = pm.state[q]
  <2>1. \A q \in PIDS : pm.state[q] \in {"Stopped", "Waiting"} => m.state[q] = pm.state[q]
    BY <1>1, <1>4
  <2> QED BY <1>5, <2>1 DEF OnlySleepersRise
<1>7. StepLaw
  BY <1>6 DEF StepLaw
<1> QED BY <1>1, <1>5, <1>7, IInvHeldNext DEF Keep

LEMMA ResumeStep == ASSUME IInv, NEW p \in PIDS, Resume(p) PROVE IInv' /\ StepLaw
<1>1. /\ pm \in Manager /\ idleServer \in PIDS \cup {Null} /\ Sound(pm, idleServer)
      /\ ~pm.fatal /\ irqEnabled \subseteq Vectors /\ pm.state[p] = "Stopped"
      /\ pm' = resume(pm, p) /\ Keep
  BY TrapState DEF Resume, Trap
<1>2. /\ pm' \in Manager /\ ~pm'.fatal /\ Sound(pm', idleServer)
      /\ pm'.state = [pm.state EXCEPT ![p] = "Ready"]
  BY <1>1, ResumeSound
<1>3. \A q \in PIDS \ {p} : pm'.state[q] = pm.state[q]
  BY <1>1, <1>2 DEF Manager
<1>4. StepLaw
  BY <1>1, <1>3 DEF StepLaw
<1> QED BY <1>1, <1>2, <1>4, IInvHeldNext DEF Held, FatalExcused, Keep

LEMMA WakeupStep == ASSUME IInv, NEW p \in PIDS, Wakeup(p) PROVE IInv' /\ StepLaw
<1>1. /\ pm \in Manager /\ idleServer \in PIDS \cup {Null} /\ Sound(pm, idleServer)
      /\ ~pm.fatal /\ irqEnabled \subseteq Vectors /\ pm' = wakeup(pm, p) /\ Keep
  BY TrapState DEF Wakeup, Trap
<1>2. /\ pm' \in Manager /\ ~pm'.fatal /\ Sound(pm', idleServer)
      /\ OnlySleepersRise(pm, pm')
  BY <1>1, WakeupSound
<1>3. StepLaw
  BY <1>2 DEF StepLaw, OnlySleepersRise
<1> QED BY <1>1, <1>2, <1>3, IInvHeldNext DEF Held, FatalExcused, Keep

LEMMA WatchIRQStep ==
  ASSUME IInv, NEW p \in PIDS, NEW v \in Vectors, WatchIRQ(p, v)
  PROVE  IInv' /\ StepLaw
<1>1. /\ pm \in Manager /\ idleServer \in PIDS \cup {Null} /\ Sound(pm, idleServer)
      /\ ~pm.fatal /\ irqEnabled \subseteq Vectors /\ pm.state[p] # "None" /\ Keep
      /\ p \notin Range(pm.notify[v]) /\ pm' = [pm EXCEPT !.notify[v] = Append(@, p)]
  BY TrapState DEF WatchIRQ, Trap, Exists
<1>2. Lists(pm.notify[v], Range(pm.notify[v])) /\ \A q \in Range(pm.notify[v]) : pm.state[q] # "None"
  BY <1>1 DEF Sound, RefsExist
<1> DEFINE u == Append(pm.notify[v], p)
<1>3. Lists(u, Range(u)) /\ Range(u) = Range(pm.notify[v]) \cup {p} /\ u \in Seq(PIDS)
  BY <1>1, <1>2, AppendRange
<1>4. /\ pm'.state = pm.state /\ pm'.queue = pm.queue /\ pm'.sleepers = pm.sleepers
      /\ pm'.timer = pm.timer /\ pm'.waitId = pm.waitId /\ pm'.current = pm.current
      /\ pm'.idle = pm.idle /\ ~pm'.fatal
      /\ pm'.notify = [pm.notify EXCEPT ![v] = u]
  BY <1>1 DEF Manager
<1> HIDE DEF u
<1>5. pm' \in Manager
  <2>1. pm'.notify \in [Vectors -> Seq(PIDS)]
    BY <1>1, <1>3, <1>4 DEF Manager
  <2> QED BY ZenonT(40), <1>1, <1>4, <2>1 DEF Manager
<1>6. QueuesExact(pm') /\ IdleReady(pm', idleServer)
  <2>1. ReadyProcs(pm') = ReadyProcs(pm)
    BY <1>4 DEF ReadyProcs
  <2> QED BY ZenonT(40), <1>1, <1>4, <2>1 DEF Sound, QueuesExact, IdleReady
<1>7. RefsExist(pm')
  <2>1. ASSUME NEW k \in Vectors
        PROVE  /\ Lists(pm'.notify[k], Range(pm'.notify[k]))
               /\ \A q \in Range(pm'.notify[k]) : pm'.state[q] # "None"
    <3>1. CASE k = v
      <4>1. pm'.notify[k] = u
        BY ZenonT(40), <1>1, <1>4, <3>1 DEF Manager
      <4> QED BY Zenon, <1>1, <1>2, <1>3, <1>4, <4>1
    <3>2. CASE k # v
      <4>1. pm'.notify[k] = pm.notify[k]
        BY <1>1, <1>4, <3>2 DEF Manager
      <4> QED BY <1>1, <1>4, <4>1 DEF Sound, RefsExist
    <3> QED BY <3>1, <3>2
  <2> QED BY <1>1, <1>4, <2>1 DEF Sound, RefsExist
<1>8. StepLaw
  BY <1>4 DEF StepLaw
<1> QED BY <1>1, <1>4, <1>5, <1>6, <1>7, <1>8, IInvHeldNext DEF Held, FatalExcused, Keep, Sound

LEMMA EnableIRQStep ==
  ASSUME IInv, NEW v \in Vectors, NEW on \in BOOLEAN, EnableIRQ(v, on)
  PROVE  IInv' /\ StepLaw
<1>1. /\ pm' = pm /\ idleServer' = idleServer /\ irqEnabled' \subseteq Vectors
      /\ Held(pm, idleServer) /\ idleServer \in PIDS \cup {Null}
  BY IInvHeld DEF EnableIRQ
<1>2. StepLaw
  BY <1>1 DEF StepLaw
<1> QED BY <1>1, <1>2, IInvHeldNext

LEMMA IdleMainStep == ASSUME IInv, IdleMain PROVE IInv' /\ StepLaw
<1>1. /\ pm \in Manager /\ idleServer \in PIDS /\ Sound(pm, idleServer)
      /\ ~pm.fatal /\ irqEnabled \subseteq Vectors /\ pm.current = idleServer /\ Keep
  BY TrapState DEF IdleMain
<1>2. CASE pm.idle # idleServer /\ pm' = setIdle(pm, idleServer)
  <2>1. pm' \in Manager /\ ~pm'.fatal /\ Sound(pm', idleServer) /\ pm'.state = pm.state
    BY <1>1, <1>2, SetIdleSound
  <2>2. StepLaw
    BY <2>1 DEF StepLaw
  <2> QED BY <1>1, <2>1, <2>2, IInvHeldNext DEF Held, FatalExcused, Keep
<1>3. CASE pm' \in schedule(pm)
  BY <1>1, <1>3, ScheduleStep
<1> QED BY <1>2, <1>3 DEF IdleMain

LEMMA ClocktickStep == ASSUME IInv, Clocktick PROVE IInv' /\ StepLaw
<1>1. /\ pm \in Manager /\ idleServer \in PIDS \cup {Null} /\ Sound(pm, idleServer)
      /\ ~pm.fatal /\ Keep /\ pm' \in schedule(Ticked(pm))
  BY TrapState DEF Clocktick
<1>2. /\ Ticked(pm) \in Manager /\ ~Ticked(pm).fatal /\ Sound(Ticked(pm), idleServer)
      /\ Ticked(pm).state = pm.state
  BY <1>1, TickedSound
<1> QED BY <1>1, <1>2, ScheduleStep

LEMMA InterruptStep == ASSUME IInv, NEW v \in Vectors, Interrupt(v) PROVE IInv' /\ StepLaw
<1>1. /\ pm \in Manager /\ idleServer \in PIDS \cup {Null} /\ Sound(pm, idleServer)
      /\ ~pm.fatal /\ irqEnabled' \subseteq Vectors /\ pm' \in wakeupAll(pm, pm.notify[v])
      /\ idleServer' = idleServer
  BY TrapState DEF Interrupt
<1>2. Lists(pm.notify[v], Range(pm.notify[v]))
  BY <1>1 DEF Sound, RefsExist
<1>3. Held(pm', idleServer) /\ OnlySleepersRise(pm, pm')
  BY <1>1, <1>2, WakeupAllSound
<1>4. StepLaw
  BY <1>3 DEF StepLaw, OnlySleepersRise
<1> QED BY <1>1, <1>3, <1>4, IInvHeldNext

LEMMA NextStep == ASSUME IInv, [Next]_vars PROVE IInv' /\ StepLaw
<1>1. CASE UNCHANGED vars
  <2>1. pm' = pm /\ irqEnabled' = irqEnabled /\ idleServer' = idleServer
    BY <1>1 DEF vars
  <2>2. StepLaw
    BY <2>1 DEF StepLaw
  <2> QED BY <2>1, <2>2, IInvHeld, IInvHeldNext
<1>2. CASE Spawn
  BY <1>2, SpawnStep
<1>3. ASSUME NEW p \in PIDS, NEW self \in BOOLEAN, KillPID(p, self) \/ Stop(p, self)
      PROVE  IInv' /\ StepLaw
  BY <1>3, KillPIDStep, StopStep
<1>4. CASE Schedule
  BY <1>4, ScheduleActionStep
<1>5. ASSUME NEW p \in PIDS, Resume(p) \/ Wakeup(p) \/ WaitPID(p) PROVE IInv' /\ StepLaw
  BY <1>5, ResumeStep, WakeupStep, WaitPIDStep
<1>6. ASSUME NEW p \in PIDS, NEW v \in Vectors, WatchIRQ(p, v) PROVE IInv' /\ StepLaw
  BY <1>6, WatchIRQStep
<1>7. ASSUME NEW v \in Vectors, NEW on \in BOOLEAN, EnableIRQ(v, on) PROVE IInv' /\ StepLaw
  BY <1>7, EnableIRQStep
<1>8. ASSUME NEW t \in 0 .. Never, WaitTimer(t) \/ EnterSleepTimer(t) PROVE IInv' /\ StepLaw
  BY <1>8, SleepTimerStep DEF WaitTimer, EnterSleepTimer
<1>9. CASE EnterSleep
  BY <1>9, EnterSleepStep
<1>10. CASE IdleMain
  BY <1>10, IdleMainStep
<1>11. CASE Clocktick
  BY <1>11, ClocktickStep
<1>12. ASSUME NEW v \in Vectors, Interrupt(v) PROVE IInv' /\ StepLaw
  BY <1>12, InterruptStep
<1> QED BY <1>1, <1>2, <1>3, <1>4, <1>5, <1>6, <1>7, <1>8, <1>9, <1>10, <1>11, <1>12 DEF Next

LEMMA InitHeld == ASSUME Init PROVE IInv
<1> DEFINE q == [i \in 1 .. BootProcs |-> i - 1]
           Boot == 0 .. BootProcs - 1
<1>1. /\ BootProcs \in Nat \ {0} /\ BootProcs <= MaxProcs /\ MaxProcs \in Nat /\ IdleServer \in Boot
      /\ 0 \in Boot /\ Boot \subseteq PIDS /\ Null \notin PIDS /\ 0 \in PIDS
  BY ConstantsAssumption DEF PIDS
<1>2. Lists(q, Boot)
  <2>1. q \in [1 .. BootProcs -> PIDS] /\ DOMAIN q = 1 .. BootProcs /\ \A i \in 1 .. BootProcs : q[i] = i - 1
    BY <1>1 DEF PIDS
  <2> HIDE DEF q
  <2>2. q \in Seq(PIDS) /\ IsInjective(q)
    BY <1>1, <2>1 DEF IsInjective
  <2>3. Range(q) \subseteq Boot
    BY <1>1, <2>1 DEF Range
  <2>4. ASSUME NEW p \in Boot PROVE p \in Range(q)
    <3>1. p + 1 \in DOMAIN q /\ q[p + 1] = p
      BY <1>1, <2>1
    <3> QED BY <3>1 DEF Range
  <2> QED BY Zenon, <2>2, <2>3, <2>4 DEF Lists
<1>3. Lists(select(q), Boot) /\ select(q) \in Seq(PIDS)
  BY <1>2, ListsSelect DEF Lists
<1>4. pm = [Booted EXCEPT !.queue = select(q), !.current = 0]
  BY DEF Init, Booted
<1> HIDE DEF q
<1>5. /\ pm.state = [p \in PIDS |-> IF p < BootProcs THEN "Ready" ELSE "None"]
      /\ pm.waitId = [p \in PIDS |-> 0] /\ pm.wakeups = [p \in PIDS |-> 0]
      /\ pm.timer = [p \in PIDS |-> Never] /\ pm.queue = select(q) /\ pm.sleepers = << >>
      /\ pm.current = 0 /\ pm.idle = Null /\ pm.notify = [v \in Vectors |-> << >>] /\ pm.fatal = FALSE
  BY <1>4 DEF Booted
<1>6. pm \in Manager
  <2>1. pm.state \in [PIDS -> States]
    BY <1>5 DEF States
  <2>2. pm.waitId \in [PIDS -> PIDS] /\ pm.wakeups \in [PIDS -> 0 .. MaxWakeups]
    BY <1>1, <1>5, ConstantsAssumption
  <2>3. pm.timer \in [PIDS -> 0 .. Never]
    BY <1>5, ConstantsAssumption DEF Never
  <2>4. pm.queue \in Seq(PIDS) /\ pm.sleepers \in Seq(PIDS) /\ pm.notify \in [Vectors -> Seq(PIDS)]
    BY <1>3, <1>5
  <2>5. pm.current \in PIDS \cup {Null} /\ pm.idle \in PIDS \cup {Null} /\ pm.fatal \in BOOLEAN
    BY <1>1, <1>5
  <2> QED BY ZenonT(40), <1>4, <2>1, <2>2, <2>3, <2>4, <2>5 DEF Booted, Manager
<1>7. ReadyProcs(pm) \ {pm.idle} = Boot /\ \A p \in Boot : pm.state[p] = "Ready"
  <2>1. \A p \in PIDS : pm.state[p] = "Ready" <=> p \in Boot
    BY <1>1, <1>5 DEF PIDS
  <2> QED BY <1>1, <1>5, <2>1 DEF ReadyProcs
<1>8. Range(pm.sleepers) = {} /\ Lists(pm.sleepers, {})
      /\ \A v \in Vectors : Range(pm.notify[v]) = {} /\ Lists(pm.notify[v], {})
  <2>1. Range(<< >>) = {}
    BY ListsEmpty DEF Lists
  <2> QED BY <1>5, <2>1, ListsEmpty
<1>9. QueuesExact(pm)
  BY ZenonT(40), <1>3, <1>5, <1>7, <1>8 DEF QueuesExact
<1>10. RefsExist(pm)
  <2>1. \A p \in PIDS : pm.state[p] # "Waiting"
    BY <1>5
  <2> QED BY <1>1, <1>5, <1>7, <1>8, <2>1 DEF RefsExist
<1>11. idleServer = IdleServer /\ irqEnabled = {}
  BY DEF Init
<1>12. IdleReady(pm, idleServer)
  BY <1>1, <1>5, <1>7, <1>11 DEF IdleReady
<1> QED BY <1>1, <1>5, <1>6, <1>9, <1>10, <1>11, <1>12, IInvHeld DEF Held, Sound, FatalExcused

LEMMA Invariance == Spec => []IInv
<1>1. Init => IInv
  BY InitHeld
<1>2. IInv /\ [Next]_vars => IInv'
  BY NextStep
<1> QED BY <1>1, <1>2, PTL DEF Spec

(* The fields of the ProcessManager keep their types. *)
THEOREM TypeCorrect == Spec => []TypeOK
<1>1. IInv => TypeOK
  BY DEF IInv
<1> QED BY <1>1, Invariance, PTL

(* Both queues of the kernel are exact, and it does not halt while server/idle  *)
(* is neither stopped nor killed, whatever the processes call, in any order of   *)
(* calls, ticks and interrupts.                                                  *)
THEOREM ScheduledHolds == Spec => []Scheduled
<1>1. IInv => Scheduled
  <2> SUFFICES ASSUME IInv PROVE Scheduled
    OBVIOUS
  <2>1. ASSUME ~pm.fatal PROVE QueuesExact(pm)
    BY <2>1 DEF IInv, Sound
  <2>2. RunQueueExact
    BY <2>1 DEF RunQueueExact, QueuesExact, Lists, ReadyProcs
  <2>3. SleepersExact
    BY <2>1 DEF SleepersExact, QueuesExact, Lists
  <2>4. NoFatal
    BY DEF NoFatal, IInv, FatalExcused
  <2> QED BY <2>2, <2>3, <2>4 DEF Scheduled
<1> QED BY <1>1, Invariance, PTL

(* remove() leaves no reference to the process that it deletes. *)
THEOREM NoDanglingProcessHolds == Spec => []NoDanglingProcess
<1>1. IInv => NoDanglingProcess
  <2> SUFFICES ASSUME IInv, ~pm.fatal PROVE NoDanglingProcess
    BY DEF NoDanglingProcess
  <2>1. pm \in Manager /\ QueuesExact(pm) /\ RefsExist(pm) /\ IdleReady(pm, idleServer)
    BY DEF IInv, Sound, TypeOK
  <2>2. \A p \in Range(pm.queue) : Exists(p)
    BY <2>1 DEF QueuesExact, Lists, ReadyProcs, Exists
  <2>3. \A p \in Range(pm.sleepers) : Exists(p)
    BY <2>1 DEF QueuesExact, Exists
  <2>4. \A v \in Vectors : \A p \in Range(pm.notify[v]) : Exists(p)
    BY <2>1 DEF RefsExist, Exists
  <2>5. \A p \in {pm.current, pm.idle} \ {Null} : Exists(p)
    BY <2>1 DEF RefsExist, IdleReady, Exists
  <2>6. \A p \in PIDS : pm.state[p] = "Waiting" => Exists(pm.waitId[p])
    BY <2>1 DEF RefsExist, Exists
  <2> DEFINE Notified == UNION {Range(pm.notify[v]) : v \in Vectors}
  <2>7. \A p \in Notified : Exists(p)
    BY <2>4
  <2> HIDE DEF Notified
  <2>8. \A p \in Range(pm.queue) \cup Range(pm.sleepers) \cup Notified
             \cup ({pm.current, pm.idle} \ {Null}) : Exists(p)
    BY <2>2, <2>3, <2>5, <2>7
  <2> QED BY <2>6, <2>8 DEF NoDanglingProcess, Notified
<1> QED BY <1>1, Invariance, PTL

(* No wakeup, event, timer or end of another process starts a stopped process. *)
THEOREM StoppedUntilResumedHolds == Spec => StoppedUntilResumed
<1>1. IInv /\ [Next]_vars =>
        [\A p \in PIDS : pm.state[p] = "Stopped" /\ pm'.state[p] # "Stopped"
                           => pm'.state[p] = "None" \/ Resume(p)]_vars
  BY NextStep DEF StepLaw
<1> QED BY <1>1, Invariance, PTL DEF Spec, StoppedUntilResumed

(* A waiting process goes on only when the process it waits for, or it itself, is *)
(* removed.                                                                        *)
THEOREM WaitingUntilJoinedHolds == Spec => WaitingUntilJoined
<1>1. IInv /\ [Next]_vars =>
        [\A p \in PIDS : pm.state[p] = "Waiting" /\ pm'.state[p] # "Waiting"
                           => pm'.state[p] = "None" \/ pm'.state[pm.waitId[p]] = "None"]_vars
  BY NextStep DEF StepLaw
<1> QED BY <1>1, Invariance, PTL DEF Spec, WaitingUntilJoined
=============================================================================
