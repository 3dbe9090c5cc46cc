----------------------- MODULE ProcessOperationProofs -----------------------
(* Lemmas on the queues of the process manager, its inductive invariant, and *)
(* that its operations keep the invariant: wakeup() of a list, schedule(),   *)
(* sleep(), the sleep timer, wait(), resume(), wakeup() and stop().          *)
EXTENDS ProcessManager, TLAPS

(* The provers that are tried on a leaf which names none, with their time. *)
USE ZenonT(5), SMTT(30)

-----------------------------------------------------------------------------
(* The queues are only ever used as lists without repetition: s lists the    *)
(* members of A.                                                             *)
Lists(s, A) == s \in Seq(PIDS) /\ IsInjective(s) /\ Range(s) = A

LEMMA ListsEmpty == Lists(<< >>, {})
  BY DEF Lists, IsInjective, Range

LEMMA ListsAppend ==
  ASSUME NEW A, NEW s, Lists(s, A), NEW p \in PIDS, p \notin A
  PROVE  Lists(Append(s, p), A \cup {p})
<1>1. s \in Seq(PIDS) /\ DOMAIN s = 1 .. Len(s) /\ Len(s) \in Nat
  BY DEF Lists
<1>2. /\ Append(s, p) \in Seq(PIDS) /\ DOMAIN Append(s, p) = 1 .. Len(s) + 1
      /\ \A i \in 1 .. Len(s) : Append(s, p)[i] = s[i]
      /\ Append(s, p)[Len(s) + 1] = p
  BY <1>1
<1>3. \A i \in 1 .. Len(s) : s[i] \in A
  BY <1>1 DEF Lists, Range
<1>4. IsInjective(Append(s, p))
  BY <1>1, <1>2, <1>3 DEF Lists, IsInjective
<1>5. Range(Append(s, p)) = A \cup {p}
  BY <1>1, <1>2, <1>3 DEF Lists, Range
<1> QED BY <1>2, <1>4, <1>5 DEF Lists

LEMMA ListsConcat ==
  ASSUME NEW A, NEW B, NEW s, NEW t, Lists(s, A), Lists(t, B), A \cap B = {}
  PROVE  Lists(s \o t, A \cup B)
<1>1. /\ s \in Seq(PIDS) /\ DOMAIN s = 1 .. Len(s) /\ Len(s) \in Nat
      /\ t \in Seq(PIDS) /\ DOMAIN t = 1 .. Len(t) /\ Len(t) \in Nat
  BY DEF Lists
<1> DEFINE u == s \o t
<1>2. /\ u \in Seq(PIDS) /\ DOMAIN u = 1 .. Len(s) + Len(t)
      /\ \A i \in 1 .. Len(s) : u[i] = s[i]
      /\ \A i \in 1 .. Len(t) : u[Len(s) + i] = t[i]
      /\ \A i \in (Len(s) + 1) .. (Len(s) + Len(t)) : u[i] = t[i - Len(s)]
  BY <1>1
<1>3. (\A i \in 1 .. Len(s) : s[i] \in A) /\ (\A i \in 1 .. Len(t) : t[i] \in B)
  BY <1>1 DEF Lists, Range
<1> HIDE DEF u
<1>4. ASSUME NEW i \in DOMAIN u, NEW j \in DOMAIN u, u[i] = u[j]
      PROVE  i = j
  <2>1. CASE i <= Len(s) /\ j <= Len(s)
    BY <1>1, <1>2, <1>4, <2>1 DEF Lists, IsInjective
  <2>2. CASE i > Len(s) /\ j > Len(s)
    <3>1. i - Len(s) \in 1 .. Len(t) /\ j - Len(s) \in 1 .. Len(t)
      BY <1>1, <1>2, <2>2
    <3>2. t[i - Len(s)] = t[j - Len(s)]
      BY <1>1, <1>2, <1>4, <2>2
    <3>3. i - Len(s) = j - Len(s)
      BY <1>1, <3>1, <3>2 DEF Lists, IsInjective
    <3> QED BY <1>1, <1>2, <3>3
  <2>3. CASE i <= Len(s) /\ j > Len(s)
    <3>1. u[i] \in A
      BY <1>1, <1>2, <1>3, <2>3
    <3>2. u[j] = t[j - Len(s)] /\ j - Len(s) \in 1 .. Len(t)
      BY <1>1, <1>2, <2>3
    <3> QED BY <1>3, <1>4, <3>1, <3>2
  <2>4. CASE i > Len(s) /\ j <= Len(s)
    <3>1. u[j] \in A
      BY <1>1, <1>2, <1>3, <2>4
    <3>2. u[i] = t[i - Len(s)] /\ i - Len(s) \in 1 .. Len(t)
      BY <1>1, <1>2, <2>4
    <3> QED BY <1>3, <1>4, <3>1, <3>2
  <2> QED BY <1>1, <1>2, <2>1, <2>2, <2>3, <2>4
<1>5. Range(u) \subseteq A \cup B
  <2> SUFFICES ASSUME NEW i \in DOMAIN u PROVE u[i] \in A \cup B
    BY DEF Range
  <2>1. CASE i <= Len(s)
    BY <1>1, <1>2, <1>3, <2>1
  <2>2. CASE i > Len(s)
    <3>1. u[i] = t[i - Len(s)] /\ i - Len(s) \in 1 .. Len(t)
      BY <1>1, <1>2, <2>2
    <3> QED BY <1>3, <3>1
  <2> QED BY <1>1, <1>2, <2>1, <2>2
<1>6. A \subseteq Range(u)
  BY <1>1, <1>2 DEF Lists, Range
<1>7. B \subseteq Range(u)
  <2> SUFFICES ASSUME NEW x \in B PROVE x \in Range(u)
    OBVIOUS
  <2>1. PICK i \in 1 .. Len(t) : x = t[i]
    BY <1>1 DEF Lists, Range
  <2>2. Len(s) + i \in DOMAIN u /\ u[Len(s) + i] = x
    BY <1>1, <1>2, <2>1
  <2> QED BY <2>2 DEF Range
<1> QED BY <1>2, <1>4, <1>5, <1>6, <1>7 DEF Lists, IsInjective, u

(* A slice of a list lists what stands in it. *)
LEMMA ListsSlice ==
  ASSUME NEW A, NEW s, Lists(s, A), NEW a \in Nat \ {0}, NEW b \in Nat, b <= Len(s)
  PROVE  Lists(SubSeq(s, a, b), {s[i] : i \in a .. b})
<1>1. s \in Seq(PIDS) /\ DOMAIN s = 1 .. Len(s) /\ Len(s) \in Nat
  BY DEF Lists
<1> DEFINE u == SubSeq(s, a, b)
           n == IF a <= b THEN b - a + 1 ELSE 0
<1>2. /\ u \in Seq(PIDS) /\ DOMAIN u = 1 .. n /\ n \in Nat
      /\ \A i \in 1 .. n : u[i] = s[a + i - 1]
  <2>1. \A i \in a .. b : s[i] \in PIDS
    BY <1>1
  <2>2. u \in Seq(PIDS) /\ Len(u) = n /\ \A i \in 1 .. b - a + 1 : u[i] = s[a + i - 1]
    BY <1>1, <2>1
  <2> QED BY <2>2
<1>3. \A i \in 1 .. n : a + i - 1 \in DOMAIN s
  BY <1>1
<1> HIDE DEF u
<1>4. IsInjective(u)
  <2> SUFFICES ASSUME NEW i \in 1 .. n, NEW j \in 1 .. n, u[i] = u[j] PROVE i = j
    BY <1>2 DEF IsInjective
  <2>1. a + i - 1 = a + j - 1
    BY <1>2, <1>3 DEF Lists, IsInjective
  <2> QED BY <1>2, <2>1
<1>5. \A i \in a .. b : i - a + 1 \in 1 .. n /\ u[i - a + 1] = s[i]
  <2> SUFFICES ASSUME NEW i \in a .. b PROVE i - a + 1 \in 1 .. n /\ u[i - a + 1] = s[i]
    OBVIOUS
  <2>1. i - a + 1 \in 1 .. n /\ a + (i - a + 1) - 1 = i
    OBVIOUS
  <2> QED BY <1>2, <2>1
<1>6. Range(u) = {s[i] : i \in a .. b}
  <2>1. ASSUME NEW i \in 1 .. n PROVE u[i] \in {s[j] : j \in a .. b}
    <3>1. a + i - 1 \in a .. b
      OBVIOUS
    <3> QED BY Zenon, <1>2, <3>1
  <2>2. ASSUME NEW i \in a .. b PROVE s[i] \in Range(u)
    BY Zenon, <1>2, <1>5 DEF Range
  <2> QED BY Zenon, <1>2, <2>1, <2>2 DEF Range
<1> QED BY <1>2, <1>4, <1>6 DEF Lists, u

(* Both ways to take an element out of a queue. *)
LEMMA ListsCut ==
  ASSUME NEW A, NEW s, Lists(s, A), NEW p \in A
  PROVE  LET i == IndexOf(s, p)
             u == SubSeq(s, 1, i - 1)
             w == SubSeq(s, i + 1, Len(s))
         IN  Lists(u \o w, A \ {p}) /\ Lists(w \o u, A \ {p})
<1>1. s \in Seq(PIDS) /\ DOMAIN s = 1 .. Len(s) /\ Len(s) \in Nat
  BY DEF Lists
<1> DEFINE i == IndexOf(s, p)
           U == {s[j] : j \in 1 .. i - 1}
           W == {s[j] : j \in i + 1 .. Len(s)}
<1>2. i \in 1 .. Len(s) /\ s[i] = p
  BY <1>1 DEF Lists, Range, IndexOf
<1> HIDE DEF i
<1>3. Lists(SubSeq(s, 1, i - 1), U) /\ Lists(SubSeq(s, i + 1, Len(s)), W)
  BY <1>1, <1>2, ListsSlice
<1>4. U \cap W = {}
  BY <1>1, <1>2 DEF Lists, IsInjective
<1>5. U \cup W = A \ {p}
  <2>1. U \cup W \subseteq A \ {p}
    BY <1>1, <1>2 DEF Lists, IsInjective, Range
  <2>2. ASSUME NEW x \in A, x # p PROVE x \in U \cup W
    <3>1. PICK j \in 1 .. Len(s) : x = s[j]
      BY <1>1 DEF Lists, Range
    <3>2. j \in 1 .. i - 1 \/ j \in i + 1 .. Len(s)
      BY <1>1, <1>2, <2>2, <3>1
    <3> QED BY <3>1, <3>2
  <2> QED BY <2>1, <2>2
<1> HIDE DEF U, W
<1> QED BY <1>3, <1>4, <1>5, ListsConcat DEF i

LEMMA ListsWithout ==
  ASSUME NEW A, NEW s, Lists(s, A), NEW p
  PROVE  Lists(Without(s, p), A \ {p})
<1>1. CASE p \in A
  <2>1. Range(s) = A
    BY DEF Lists
  <2> QED BY <1>1, <2>1, ListsCut DEF Without
<1>2. CASE p \notin A
  <2>1. Range(s) = A /\ A \ {p} = A
    BY <1>2 DEF Lists
  <2> QED BY <1>2, <2>1 DEF Without
<1> QED BY <1>1, <1>2

LEMMA ListsDequeue ==
  ASSUME NEW A, NEW s, Lists(s, A), NEW p \in A
  PROVE  Lists(dequeue(s, p), A \ {p})
  BY ListsCut DEF dequeue

(* select() rotates the queue, whose head it returns. *)
LEMMA ListsSelect ==
  ASSUME NEW A, NEW s, Lists(s, A)
  PROVE  /\ Lists(select(s), A)
         /\ s # << >> => Head(s) \in A
         /\ s = << >> <=> A = {}
<1>1. s \in Seq(PIDS) /\ DOMAIN s = 1 .. Len(s) /\ Len(s) \in Nat
  BY DEF Lists
<1>2. CASE s = << >>
  BY <1>1, <1>2 DEF Lists, select, Range
<1>3. CASE s # << >>
  <2>1. Len(s) >= 1 /\ Head(s) = s[1] /\ Tail(s) = SubSeq(s, 2, Len(s))
    BY <1>1, <1>3
  <2> DEFINE W == {s[j] : j \in 2 .. Len(s)}
  <2>2. Lists(Tail(s), W)
    <3>1. 2 \in Nat \ {0} /\ Len(s) <= Len(s)
      BY <1>1
    <3>2. Lists(SubSeq(s, 2, Len(s)), W)
      BY <1>1, <3>1, ListsSlice
    <3> QED BY Zenon, <2>1, <3>2
  <2>3. s[1] \in A /\ s[1] \in PIDS /\ s[1] \notin W
    BY <1>1, <2>1 DEF Lists, IsInjective, Range
  <2>4. W \cup {s[1]} = A
    <3>1. W \cup {s[1]} \subseteq A
      BY <1>1, <2>1 DEF Lists, Range
    <3>2. ASSUME NEW x \in A PROVE x \in W \cup {s[1]}
      BY <1>1, <2>1 DEF Lists, Range
    <3> QED BY <3>1, <3>2
  <2> HIDE DEF W
  <2>5. Lists(Append(Tail(s), s[1]), A)
    BY <2>2, <2>3, <2>4, ListsAppend
  <2> QED BY <1>3, <2>1, <2>3, <2>5 DEF select
<1> QED BY <1>2, <1>3

(* Filters() keeps the members of S. *)
LEMMA ListsFilters ==
  ASSUME NEW A, NEW s, Lists(s, A), NEW S, NEW f \in Filters(s, S)
  PROVE  Lists(f, A \cap S)
<1> DEFINE Positions == {i \in DOMAIN s : s[i] \in S}
<1>1. s \in Seq(PIDS) /\ DOMAIN s = 1 .. Len(s) /\ Len(s) \in Nat
  BY DEF Lists
<1> DEFINE Increasing(g) == \A i, j \in DOMAIN g : i < j => g[i] < g[j]
<1>a. PICK n \in 0 .. Len(s) : \E g \in [1 .. n -> Positions] :
         Increasing(g) /\ Range(g) = Positions /\ f = [i \in DOMAIN g |-> s[g[i]]]
  BY Zenon DEF Filters
<1>0. PICK g \in [1 .. n -> Positions] :
         Increasing(g) /\ Range(g) = Positions /\ f = [i \in DOMAIN g |-> s[g[i]]]
  BY Zenon, <1>a
<1>2. n \in Nat
  BY <1>1
<1>3. /\ g \in [1 .. n -> Positions] /\ DOMAIN g = 1 .. n
      /\ Increasing(g) /\ Range(g) = Positions /\ f = [i \in 1 .. n |-> s[g[i]]]
  <2> HIDE DEF Positions, Increasing
  <2>1. DOMAIN g = 1 .. n
    OBVIOUS
  <2> QED BY <1>0, <2>1
<1> HIDE DEF Positions
<1>4. f \in Seq(PIDS) /\ DOMAIN f = 1 .. n /\ \A i \in 1 .. n : f[i] = s[g[i]]
  <2>2. \A i \in 1 .. n : g[i] \in 1 .. Len(s) /\ s[g[i]] \in S /\ s[g[i]] \in PIDS
    BY <1>1, <1>3 DEF Positions
  <2>4. f \in [1 .. n -> PIDS]
    BY <2>2, <1>3
  <2>5. f \in Seq(PIDS)
    BY <1>2, <2>4
  <2> QED BY <1>3, <2>5
<1>5. IsInjective(f)
  <2> SUFFICES ASSUME NEW i \in 1 .. n, NEW j \in 1 .. n, f[i] = f[j] PROVE i = j
    BY <1>4 DEF IsInjective
  <2>1. g[i] = g[j]
    BY <1>1, <1>3, <1>4 DEF Lists, IsInjective, Positions
  <2>2. ~(i < j) /\ ~(j < i)
    <3>1. g[i] \in Nat /\ g[j] \in Nat
      BY <1>1, <1>3 DEF Positions
    <3> QED BY <1>3, <2>1, <3>1
  <2> QED BY <1>2, <2>2
<1>6. Range(f) \subseteq A \cap S
  BY <1>1, <1>3, <1>4 DEF Lists, Range, Positions
<1>7. ASSUME NEW x \in A, x \in S PROVE x \in Range(f)
  <2>1. PICK k \in DOMAIN s : x = s[k]
    BY DEF Lists, Range
  <2>2. k \in Positions
    BY <1>7, <2>1 DEF Positions
  <2>3. PICK i \in 1 .. n : k = g[i]
    <3>1. k \in Range(g)
      BY <1>3, <2>2
    <3> QED BY <3>1 DEF Range
  <2> QED BY <1>4, <2>1, <2>3 DEF Range
<1> QED BY <1>4, <1>5, <1>6, <1>7 DEF Lists

-----------------------------------------------------------------------------
(* The inductive invariant, as a property of the record m and the process    *)
(* is that runs server/idle.                                                 *)
ReadyProcs(m) == {p \in PIDS : m.state[p] = "Ready"}

(* Both queues, and whose timers run. *)
QueuesExact(m) ==
  /\ Lists(m.queue, ReadyProcs(m) \ {m.idle})
  /\ Lists(m.sleepers, Range(m.sleepers))
  /\ \A p \in Range(m.sleepers) : m.state[p] \in {"Sleeping", "Stopped"}
  /\ \A p \in PIDS : m.timer[p] # Never =>
       m.state[p] = "Stopped" \/ (m.state[p] = "Sleeping" /\ p \in Range(m.sleepers))

(* Whatever refers to a process refers to one that exists. *)
RefsExist(m) ==
  /\ \A v \in Vectors : /\ Lists(m.notify[v], Range(m.notify[v]))
                         /\ \A p \in Range(m.notify[v]) : m.state[p] # "None"
  /\ m.current # Null => m.state[m.current] # "None"
  /\ \A p \in PIDS : m.state[p] = "Waiting" => m.state[m.waitId[p]] # "None"

(* server/idle never sleeps or waits; it is the idle process only while it   *)
(* is ready, and it runs only then.                                          *)
IdleReady(m, is) ==
  /\ m.idle \in {Null, is}
  /\ m.idle # Null => m.state[m.idle] = "Ready"
  /\ is # Null => m.state[is] \in {"Ready", "Stopped"}
  /\ is # Null /\ m.current = is => m.state[is] = "Ready"

(* A FATAL() is reached only without a server/idle that could run. *)
FatalExcused(m, is) == m.fatal => is = Null \/ m.state[is] = "Stopped"

Sound(m, is) == QueuesExact(m) /\ RefsExist(m) /\ IdleReady(m, is)

IInv ==
  /\ TypeOK
  /\ ~pm.fatal => Sound(pm, idleServer)
  /\ FatalExcused(pm, idleServer)
-----------------------------------------------------------------------------
(* What wakeup() of a list of processes changes. *)
LEMMA ListsRange ==
  ASSUME NEW s, NEW A, Lists(s, A)
  PROVE  Range(s) = A /\ A \subseteq PIDS /\ s \in Seq(PIDS) /\ Lists(s, Range(s))
<1>1. s \in Seq(PIDS) /\ DOMAIN s = 1 .. Len(s) /\ Range(s) = A
  BY DEF Lists
<1>2. A \subseteq PIDS
  BY <1>1 DEF Range
<1> QED BY <1>1, <1>2

LEMMA CountedType == \A n \in 0 .. MaxWakeups : counted(n) \in 0 .. MaxWakeups
  BY ConstantsAssumption DEF counted

Asleep(m, B) == {p \in B : m.state[p] = "Sleeping"}

(* The processes of W are appended to the run queue. *)
Woke(m, x, W) ==
  /\ x \in Manager
  /\ x.state = [p \in PIDS |-> IF p \in W THEN "Ready" ELSE m.state[p]]
  /\ x.timer = [p \in PIDS |-> IF p \in W THEN Never ELSE m.timer[p]]
  /\ x.waitId = m.waitId /\ x.notify = m.notify
  /\ x.current = m.current /\ x.idle = m.idle /\ x.fatal = m.fatal
  /\ Lists(x.sleepers, Range(m.sleepers) \ W)
  /\ \E w : Lists(w, W) /\ x.queue = m.queue \o w

LEMMA WakeupAllFields ==
  ASSUME NEW m \in Manager, NEW s, NEW B, Lists(s, B), Lists(m.sleepers, Range(m.sleepers)),
         NEW x \in wakeupAll(m, s)
  PROVE  Woke(m, x, Asleep(m, B))
<1> DEFINE Woken == Asleep(m, B)
<1>0. Woken = {p \in B : m.state[p] = "Sleeping"}
  BY DEF Asleep
<1> HIDE DEF Woken
<1>1. Range(s) = B /\ B \subseteq PIDS /\ Woken \subseteq PIDS /\ Range(m.sleepers) \subseteq PIDS
  BY <1>0, ListsRange
<1>2. PICK w \in Filters(s, Woken), r \in Filters(m.sleepers, PIDS \ Woken) :
        x = Awakened(m, B, Woken, w, r)
  <2>1. Woken = {p \in Range(s) : m.state[p] = "Sleeping"}
    BY <1>0, <1>1
  <2> QED BY <1>1, <2>1 DEF wakeupAll
<1>3. Lists(w, Woken)
  <2>1. Lists(w, B \cap Woken)
    BY ListsFilters
  <2>2. B \cap Woken = Woken
    BY <1>0
  <2> QED BY <2>1, <2>2
<1>4. Lists(r, Range(m.sleepers) \ Woken)
  <2>1. Lists(r, Range(m.sleepers) \cap (PIDS \ Woken))
    BY ListsFilters
  <2>2. Range(m.sleepers) \cap (PIDS \ Woken) = Range(m.sleepers) \ Woken
    BY <1>1
  <2> QED BY <2>1, <2>2
<1>5. w \in Seq(PIDS) /\ r \in Seq(PIDS)
  BY <1>3, <1>4 DEF Lists
<1>6. /\ x.state = [p \in PIDS |-> IF p \in Woken THEN "Ready" ELSE m.state[p]]
      /\ x.timer = [p \in PIDS |-> IF p \in Woken THEN Never ELSE m.timer[p]]
      /\ x.wakeups = [p \in PIDS |-> IF p \in B THEN counted(m.wakeups[p]) ELSE m.wakeups[p]]
      /\ x.waitId = m.waitId /\ x.notify = m.notify
      /\ x.current = m.current /\ x.idle = m.idle /\ x.fatal = m.fatal
      /\ x.sleepers = r
      /\ x.queue = m.queue \o w
  BY Zenon, <1>1, <1>2 DEF Manager, Awakened
<1>7. x \in Manager
  <2>1. x.state \in [PIDS -> States]
    BY <1>6 DEF Manager, States
  <2>2. x.timer \in [PIDS -> 0 .. Never]
    BY <1>6, ConstantsAssumption DEF Manager, Never
  <2>3. x.wakeups \in [PIDS -> 0 .. MaxWakeups]
    BY <1>6, CountedType DEF Manager
  <2>4. x.queue \in Seq(PIDS) /\ x.sleepers \in Seq(PIDS)
    BY <1>5, <1>6 DEF Manager
  <2> QED BY ZenonT(40), <1>2, <1>6, <2>1, <2>2, <2>3, <2>4 DEF Manager, Awakened
<1> QED BY Zenon, <1>3, <1>4, <1>6, <1>7 DEF Woke, Woken
-----------------------------------------------------------------------------
(* Processes of W get up from their sleep: x is m after that.  What leaves    *)
(* the sleep timer queue, beside W, is not asleep.                            *)
Risen(m, x, W) ==
  /\ x.state = [p \in PIDS |-> IF p \in W THEN "Ready" ELSE m.state[p]]
  /\ x.timer = [p \in PIDS |-> IF p \in W THEN Never ELSE m.timer[p]]
  /\ x.waitId = m.waitId /\ x.notify = m.notify /\ x.idle = m.idle
  /\ x.current = m.current \/ x.current \in ReadyProcs(m)
  /\ \E q, w : /\ Lists(q, ReadyProcs(m) \ {m.idle})
               /\ Lists(w, W)
               /\ x.queue = q \o w
  /\ Lists(x.sleepers, Range(x.sleepers))
  /\ Range(x.sleepers) \subseteq Range(m.sleepers) \ W
  /\ \A p \in Range(m.sleepers) \ Range(x.sleepers) : p \in W \/ m.state[p] # "Sleeping"

LEMMA RisenSound ==
  ASSUME NEW m \in Manager, NEW x \in Manager, NEW is \in PIDS \cup {Null}, Sound(m, is),
         NEW W \in SUBSET PIDS, \A p \in W : m.state[p] = "Sleeping", Risen(m, x, W)
  PROVE  Sound(x, is)
<1>1. \A p \in PIDS : /\ p \in W => x.state[p] = "Ready" /\ x.timer[p] = Never
                      /\ p \notin W => x.state[p] = m.state[p] /\ x.timer[p] = m.timer[p]
  BY DEF Risen
<1>2. /\ x.waitId = m.waitId /\ x.notify = m.notify /\ x.idle = m.idle
      /\ x.current = m.current \/ x.current \in ReadyProcs(m)
  BY DEF Risen
<1>3. Range(m.sleepers) \subseteq PIDS /\ Range(x.sleepers) \subseteq PIDS
  BY ListsRange DEF Risen, Sound, QueuesExact
<1>4. m.idle \notin W
  <2>1. Null \notin PIDS
    BY ConstantsAssumption DEF PIDS
  <2>2. m.idle = Null \/ m.state[m.idle] = "Ready"
    BY DEF Sound, IdleReady
  <2> QED BY <2>1, <2>2
<1>6. QueuesExact(x)
  <2>1. Lists(x.queue, (ReadyProcs(m) \ {m.idle}) \cup W)
    <3>1. PICK q, w : Lists(q, ReadyProcs(m) \ {m.idle}) /\ Lists(w, W) /\ x.queue = q \o w
      BY Zenon DEF Risen
    <3>2. (ReadyProcs(m) \ {m.idle}) \cap W = {}
      BY DEF ReadyProcs
    <3> QED BY <3>1, <3>2, ListsConcat
  <2>2. (ReadyProcs(m) \ {m.idle}) \cup W = ReadyProcs(x) \ {x.idle}
    BY <1>1, <1>2, <1>4 DEF ReadyProcs
  <2>3. Lists(x.queue, ReadyProcs(x) \ {x.idle})
    BY <2>1, <2>2
  <2>4. Lists(x.sleepers, Range(x.sleepers))
    BY DEF Risen
  <2>5. \A p \in Range(x.sleepers) : x.state[p] \in {"Sleeping", "Stopped"}
    BY <1>1, <1>3 DEF Risen, Sound, QueuesExact
  <2>6. ASSUME NEW p \in PIDS, x.timer[p] # Never
        PROVE  x.state[p] = "Stopped" \/ (x.state[p] = "Sleeping" /\ p \in Range(x.sleepers))
    BY <1>1, <2>6 DEF Risen, Sound, QueuesExact
  <2> QED BY <2>3, <2>4, <2>5, <2>6 DEF QueuesExact
<1>7. \A p \in PIDS : m.state[p] # "None" => x.state[p] # "None"
  BY <1>1
<1>8. RefsExist(x)
  <2>1. ASSUME NEW v \in Vectors
        PROVE  /\ Lists(x.notify[v], Range(x.notify[v]))
               /\ \A p \in Range(x.notify[v]) : x.state[p] # "None"
    <3>1. Lists(m.notify[v], Range(m.notify[v])) /\ \A p \in Range(m.notify[v]) : m.state[p] # "None"
      BY DEF Sound, RefsExist
    <3> QED BY <1>2, <1>7, <3>1, ListsRange
  <2>2. x.current # Null => x.state[x.current] # "None"
    BY <1>2, <1>7 DEF Sound, RefsExist, Manager, ReadyProcs
  <2>3. ASSUME NEW p \in PIDS, x.state[p] = "Waiting" PROVE x.state[x.waitId[p]] # "None"
    <3>1. m.state[p] = "Waiting" /\ m.waitId[p] \in PIDS
      BY Zenon, <1>1, <2>3 DEF Manager
    <3> QED BY <1>2, <1>7, <3>1 DEF Sound, RefsExist
  <2> QED BY <2>1, <2>2, <2>3 DEF RefsExist
<1>9. IdleReady(x, is)
  <2>1. x.idle \in {Null, is} /\ (x.idle # Null => x.state[x.idle] = "Ready")
    BY <1>1, <1>2 DEF Sound, IdleReady, Manager
  <2>2. is # Null => x.state[is] \in {"Ready", "Stopped"}
    BY <1>1 DEF Sound, IdleReady
  <2>3. is # Null /\ x.current = is => x.state[is] = "Ready"
    BY <1>1, <1>2 DEF Sound, IdleReady, ReadyProcs
  <2> QED BY <2>1, <2>2, <2>3 DEF IdleReady
<1> QED BY <1>6, <1>8, <1>9 DEF Sound

(* What the handlers keep of the record they leave behind. *)
Held(x, is) ==
  /\ x \in Manager
  /\ ~x.fatal => Sound(x, is)
  /\ FatalExcused(x, is)

(* Only sleepers change their state. *)
OnlySleepersRise(m, x) ==
  \A p \in PIDS : x.state[p] # m.state[p] => m.state[p] = "Sleeping" /\ x.state[p] = "Ready"

LEMMA WakeupAllSound ==
  ASSUME NEW m \in Manager, NEW is \in PIDS \cup {Null}, Sound(m, is), ~m.fatal,
         NEW s, Lists(s, Range(s)), NEW x \in wakeupAll(m, s)
  PROVE  Held(x, is) /\ ~x.fatal /\ OnlySleepersRise(m, x)
<1> DEFINE W == Asleep(m, Range(s))
<1>1. Lists(m.sleepers, Range(m.sleepers)) /\ Lists(m.queue, ReadyProcs(m) \ {m.idle})
  BY DEF Sound, QueuesExact
<1>2. W \in SUBSET PIDS /\ \A p \in W : m.state[p] = "Sleeping"
  BY ListsRange DEF Asleep
<1>woke. Woke(m, x, W)
  BY <1>1, WakeupAllFields
<1> HIDE DEF W
<1>3. /\ x \in Manager
      /\ x.state = [p \in PIDS |-> IF p \in W THEN "Ready" ELSE m.state[p]]
      /\ x.timer = [p \in PIDS |-> IF p \in W THEN Never ELSE m.timer[p]]
      /\ x.waitId = m.waitId /\ x.notify = m.notify
      /\ x.current = m.current /\ x.idle = m.idle /\ x.fatal = m.fatal
      /\ Lists(x.sleepers, Range(m.sleepers) \ W)
      /\ \E w : Lists(w, W) /\ x.queue = m.queue \o w
  BY <1>woke DEF Woke
<1>4. Lists(x.sleepers, Range(x.sleepers)) /\ Range(x.sleepers) = Range(m.sleepers) \ W
  BY <1>3, ListsRange
<1>5. Risen(m, x, W)
  BY ZenonT(40), <1>1, <1>3, <1>4 DEF Risen
<1>6. Sound(x, is)
  BY <1>2, <1>3, <1>5, RisenSound
<1>7. OnlySleepersRise(m, x)
  BY <1>2, <1>3 DEF OnlySleepersRise
<1> QED BY <1>3, <1>6, <1>7 DEF Held, FatalExcused

LEMMA ScheduleSound ==
  ASSUME NEW m \in Manager, NEW is \in PIDS \cup {Null}, Sound(m, is), ~m.fatal,
         NEW x \in schedule(m)
  PROVE  Held(x, is) /\ OnlySleepersRise(m, x)
<1>1. Lists(m.sleepers, Range(m.sleepers)) /\ Lists(m.queue, ReadyProcs(m) \ {m.idle})
  BY DEF Sound, QueuesExact
<1>2. Null \notin PIDS
  BY ConstantsAssumption DEF PIDS
<1>3. Range(m.sleepers) \subseteq PIDS
  BY <1>1, ListsRange
<1>4. CASE selected(m) = Null
  <2>1. x = FATAL(m)
    BY <1>4 DEF schedule
  <2>2. x \in Manager /\ x.fatal /\ x.state = m.state
    BY Zenon, <2>1 DEF FATAL, Manager
  <2>3. m.queue = << >> /\ m.idle = Null
    <3>1. m.queue # << >> => Head(m.queue) \in PIDS
      BY <1>1, ListsSelect DEF ReadyProcs
    <3> QED BY <1>2, <1>4, <3>1 DEF selected
  <2>4. ReadyProcs(m) = {}
    <3>1. ReadyProcs(m) \ {m.idle} = {}
      BY Zenon, <1>1, <2>3, ListsSelect
    <3> QED BY <1>2, <2>3, <3>1 DEF ReadyProcs
  <2>5. is = Null \/ m.state[is] = "Stopped"
    BY <2>4 DEF Sound, IdleReady, ReadyProcs
  <2> QED BY <2>2, <2>5 DEF Held, FatalExcused, OnlySleepersRise
<1>5. CASE selected(m) # Null
  <2> DEFINE expired == {p \in Range(m.sleepers) : isExpired(m.timer[p])}
             W == Asleep(m, expired)
  <2>1. PICK e \in Filters(m.sleepers, expired), r \in Filters(m.sleepers, PIDS \ expired) :
          x \in wakeupAll(Running(m, r), e)
    BY <1>5 DEF schedule
  <2>2. expired \subseteq PIDS /\ expired \subseteq Range(m.sleepers)
    BY <1>3
  <2>3. W \in SUBSET PIDS /\ W \subseteq expired /\ \A p \in W : m.state[p] = "Sleeping"
    BY <1>3 DEF Asleep
  <2>4. \A p \in expired : p \in W \/ m.state[p] # "Sleeping"
    BY DEF Asleep
  <2> DEFINE n == Running(m, r)
  <2>5. n.state = m.state /\ W = Asleep(n, expired)
    BY DEF Running, Manager, Asleep
  <2> HIDE DEF expired, W
  <2>6. Lists(e, expired)
    <3>1. Lists(e, Range(m.sleepers) \cap expired)
      BY <1>1, <2>1, ListsFilters
    <3>2. Range(m.sleepers) \cap expired = expired
      BY <2>2
    <3> QED BY Zenon, <3>1, <3>2
  <2>7. Lists(r, Range(m.sleepers) \ expired)
    <3>1. Lists(r, Range(m.sleepers) \cap (PIDS \ expired))
      BY <1>1, <2>1, ListsFilters
    <3>2. Range(m.sleepers) \cap (PIDS \ expired) = Range(m.sleepers) \ expired
      BY <1>3
    <3> QED BY <3>1, <3>2
  <2>8. selected(m) \in ReadyProcs(m)
    <3>1. m.queue # << >> => Head(m.queue) \in ReadyProcs(m)
      BY <1>1, ListsSelect
    <3>2. m.idle # Null => m.idle \in ReadyProcs(m)
      BY DEF Sound, IdleReady, ReadyProcs, Manager
    <3> QED BY <1>5, <3>1, <3>2 DEF selected
  <2>9. Lists(select(m.queue), ReadyProcs(m) \ {m.idle})
    BY <1>1, ListsSelect
  <2>10. select(m.queue) \in Seq(PIDS) /\ r \in Seq(PIDS) /\ selected(m) \in PIDS
    BY <2>7, <2>8, <2>9 DEF Lists, ReadyProcs
  <2>11. /\ n \in Manager /\ n.queue = select(m.queue) /\ n.sleepers = r
         /\ n.current = selected(m) /\ n.timer = m.timer /\ n.waitId = m.waitId
         /\ n.notify = m.notify /\ n.idle = m.idle /\ n.fatal = m.fatal
    BY Zenon, <2>10 DEF Running, Manager
  <2>12. Range(n.sleepers) = Range(m.sleepers) \ expired /\ Lists(n.sleepers, Range(n.sleepers))
    BY <2>7, <2>11, ListsRange
  <2> HIDE DEF n
  <2>13. x \in wakeupAll(n, e)
    BY <2>1 DEF n
  <2>woke. Woke(n, x, W)
    BY <2>5, <2>6, <2>11, <2>12, <2>13, WakeupAllFields
  <2>14. /\ x \in Manager
         /\ x.state = [p \in PIDS |-> IF p \in W THEN "Ready" ELSE n.state[p]]
         /\ x.timer = [p \in PIDS |-> IF p \in W THEN Never ELSE n.timer[p]]
         /\ x.waitId = n.waitId /\ x.notify = n.notify
         /\ x.current = n.current /\ x.idle = n.idle /\ x.fatal = n.fatal
         /\ Lists(x.sleepers, Range(n.sleepers) \ W)
         /\ \E w : Lists(w, W) /\ x.queue = n.queue \o w
    BY Zenon, <2>woke DEF Woke
  <2>15. Lists(x.sleepers, Range(x.sleepers)) /\ Range(x.sleepers) = Range(m.sleepers) \ expired
    <3>1. (Range(m.sleepers) \ expired) \ W = Range(m.sleepers) \ expired
      BY <2>3
    <3> QED BY <2>12, <2>14, <3>1, ListsRange
  <2>16. Risen(m, x, W)
    <3>1. \A p \in Range(m.sleepers) \ Range(x.sleepers) : p \in W \/ m.state[p] # "Sleeping"
      BY <2>4, <2>15
    <3>2. Range(x.sleepers) \subseteq Range(m.sleepers) \ W
      BY <2>3, <2>15
    <3>3. \E q, w : Lists(q, ReadyProcs(m) \ {m.idle}) /\ Lists(w, W) /\ x.queue = q \o w
      <4>1. PICK w : Lists(w, W) /\ x.queue = select(m.queue) \o w
        BY <2>11, <2>14
      <4> QED BY Zenon, <2>9, <4>1
    <3>4. /\ x.state = [p \in PIDS |-> IF p \in W THEN "Ready" ELSE m.state[p]]
          /\ x.timer = [p \in PIDS |-> IF p \in W THEN Never ELSE m.timer[p]]
          /\ x.waitId = m.waitId /\ x.notify = m.notify /\ x.idle = m.idle
          /\ x.current \in ReadyProcs(m)
      BY <2>5, <2>8, <2>11, <2>14
    <3> QED BY Zenon, <2>15, <3>1, <3>2, <3>3, <3>4 DEF Risen
  <2>17. Sound(x, is)
    BY <2>3, <2>14, <2>16, RisenSound
  <2>18. OnlySleepersRise(m, x)
    BY <2>3, <2>5, <2>14 DEF OnlySleepersRise
  <2> QED BY <2>11, <2>14, <2>17, <2>18 DEF Held, FatalExcused
<1> QED BY <1>4, <1>5

-----------------------------------------------------------------------------
(* The operations that change one process, p: nothing else differs, and p is  *)
(* in the queues that its new state calls for.                                *)
Apart(m, x, p) ==
  /\ x.current = m.current /\ x.idle = m.idle /\ x.notify = m.notify
  /\ Lists(x.queue, Range(x.queue)) /\ Lists(x.sleepers, Range(x.sleepers))
  /\ \A q \in PIDS \ {p} :
       /\ x.state[q] = m.state[q] /\ x.timer[q] = m.timer[q] /\ x.waitId[q] = m.waitId[q]
       /\ q \in Range(x.queue) <=> q \in Range(m.queue)
       /\ q \in Range(x.sleepers) <=> q \in Range(m.sleepers)

Fits(x, p) ==
  /\ p \in Range(x.queue) <=> x.state[p] = "Ready" /\ p # x.idle
  /\ p \in Range(x.sleepers) => x.state[p] \in {"Sleeping", "Stopped"}
  /\ x.timer[p] # Never =>
       x.state[p] = "Stopped" \/ (x.state[p] = "Sleeping" /\ p \in Range(x.sleepers))
  /\ x.state[p] # "None"
  /\ x.state[p] = "Waiting" => x.state[x.waitId[p]] # "None"

LEMMA FrameSound ==
  ASSUME NEW m \in Manager, NEW x \in Manager, NEW p \in PIDS,
         QueuesExact(m), RefsExist(m), Apart(m, x, p), Fits(x, p)
  PROVE  QueuesExact(x) /\ RefsExist(x)
<1>1. /\ Range(x.queue) \subseteq PIDS /\ Range(x.sleepers) \subseteq PIDS
      /\ Range(m.queue) = ReadyProcs(m) \ {m.idle}
  BY ListsRange DEF Apart, QueuesExact
<1>2. QueuesExact(x)
  <2>1. \A q \in PIDS : q \in Range(x.queue) <=> q \in ReadyProcs(x) \ {x.idle}
    BY <1>1 DEF Apart, Fits, ReadyProcs
  <2>2. Range(x.queue) = ReadyProcs(x) \ {x.idle}
    BY <1>1, <2>1 DEF ReadyProcs
  <2>3. \A q \in Range(x.sleepers) : x.state[q] \in {"Sleeping", "Stopped"}
    BY <1>1 DEF Apart, Fits, QueuesExact
  <2>4. \A q \in PIDS : x.timer[q] # Never =>
          x.state[q] = "Stopped" \/ (x.state[q] = "Sleeping" /\ q \in Range(x.sleepers))
    BY DEF Apart, Fits, QueuesExact
  <2> QED BY <2>2, <2>3, <2>4 DEF Apart, QueuesExact
<1>3. \A q \in PIDS : m.state[q] # "None" => x.state[q] # "None"
  BY DEF Apart, Fits
<1>4. RefsExist(x)
  <2>1. ASSUME NEW v \in Vectors
        PROVE  /\ Lists(x.notify[v], Range(x.notify[v]))
               /\ \A q \in Range(x.notify[v]) : x.state[q] # "None"
    <3>1. Lists(m.notify[v], Range(m.notify[v])) /\ \A q \in Range(m.notify[v]) : m.state[q] # "None"
      BY DEF RefsExist
    <3> QED BY <1>3, <3>1, ListsRange DEF Apart
  <2>2. x.current # Null => x.state[x.current] # "None"
    BY <1>3 DEF Apart, RefsExist, Manager
  <2>3. ASSUME NEW q \in PIDS, x.state[q] = "Waiting" PROVE x.state[x.waitId[q]] # "None"
    <3>1. CASE q = p
      BY <2>3, <3>1 DEF Fits
    <3>2. CASE q # p
      <4>1. m.state[q] = "Waiting" /\ m.waitId[q] = x.waitId[q] /\ m.waitId[q] \in PIDS
        BY <2>3, <3>2 DEF Apart, Manager
      <4> QED BY <1>3, <4>1 DEF RefsExist
    <3> QED BY <3>1, <3>2
  <2> QED BY <2>1, <2>2, <2>3 DEF RefsExist
<1> QED BY <1>2, <1>4

(* Queue::remove, of a process that is there and of one that need not be. *)
LEMMA DequeueRange ==
  ASSUME NEW s, Lists(s, Range(s)), NEW p \in Range(s)
  PROVE  /\ Lists(dequeue(s, p), Range(dequeue(s, p)))
         /\ Range(dequeue(s, p)) = Range(s) \ {p}
         /\ dequeue(s, p) \in Seq(PIDS)
  BY Zenon, ListsDequeue, ListsRange

LEMMA WithoutRange ==
  ASSUME NEW s, Lists(s, Range(s)), NEW p
  PROVE  /\ Lists(Without(s, p), Range(Without(s, p)))
         /\ Range(Without(s, p)) = Range(s) \ {p}
         /\ Without(s, p) \in Seq(PIDS)
  BY Zenon, ListsWithout, ListsRange

LEMMA AppendRange ==
  ASSUME NEW s, Lists(s, Range(s)), NEW p \in PIDS, p \notin Range(s)
  PROVE  /\ Lists(Append(s, p), Range(Append(s, p)))
         /\ Range(Append(s, p)) = Range(s) \cup {p}
         /\ Append(s, p) \in Seq(PIDS)
  BY Zenon, ListsAppend, ListsRange

-----------------------------------------------------------------------------
(* A process other than server/idle that is ready is on the run queue only.  *)
LEMMA ReadyIsQueued ==
  ASSUME NEW m \in Manager, NEW is, Sound(m, is), NEW p \in PIDS, m.state[p] = "Ready"
  PROVE  /\ Lists(m.queue, Range(m.queue)) /\ Lists(m.sleepers, Range(m.sleepers))
         /\ p # is => p \in Range(m.queue) /\ p # m.idle
         /\ p \in Range(m.queue) <=> p # m.idle
         /\ p \notin Range(m.sleepers) /\ m.timer[p] = Never
<1>1. Null \notin PIDS
  BY ConstantsAssumption DEF PIDS
<1>2. Lists(m.queue, ReadyProcs(m) \ {m.idle}) /\ m.idle \in {Null, is}
  BY DEF Sound, QueuesExact, IdleReady
<1>3. Range(m.queue) = ReadyProcs(m) \ {m.idle} /\ Lists(m.queue, Range(m.queue))
  BY <1>2, ListsRange
<1> QED BY <1>1, <1>2, <1>3 DEF Sound, QueuesExact, ReadyProcs

(* A process that is not ready is not on the run queue. *)
LEMMA UnreadyIsNotQueued ==
  ASSUME NEW m \in Manager, NEW is, Sound(m, is), NEW p \in PIDS, m.state[p] # "Ready"
  PROVE  /\ Lists(m.queue, Range(m.queue)) /\ Lists(m.sleepers, Range(m.sleepers))
         /\ p \notin Range(m.queue) /\ p # m.idle
<1>1. Null \notin PIDS
  BY ConstantsAssumption DEF PIDS
<1>2. Lists(m.queue, ReadyProcs(m) \ {m.idle}) /\ (m.idle # Null => m.state[m.idle] = "Ready")
  BY DEF Sound, QueuesExact, IdleReady
<1>3. Range(m.queue) = ReadyProcs(m) \ {m.idle} /\ Lists(m.queue, Range(m.queue))
  BY <1>2, ListsRange
<1> QED BY <1>1, <1>2, <1>3 DEF Sound, QueuesExact, ReadyProcs

LEMMA SleepSound ==
  ASSUME NEW m \in Manager, NEW is \in PIDS \cup {Null}, Sound(m, is), ~m.fatal,
         m.current \in PIDS \ {is}, m.state[m.current] = "Ready"
  PROVE  /\ sleep(m) \in Manager /\ ~sleep(m).fatal /\ Sound(sleep(m), is)
         /\ sleep(m).state = [m.state EXCEPT ![m.current] = "Sleeping"]
<1> DEFINE p == m.current
           x == sleep(m)
<1>1. /\ Lists(m.queue, Range(m.queue)) /\ Lists(m.sleepers, Range(m.sleepers))
      /\ p \in PIDS /\ p \in Range(m.queue) /\ p # m.idle
      /\ p \notin Range(m.sleepers) /\ m.timer[p] = Never
  BY ReadyIsQueued
<1>2. x = [m EXCEPT !.state[p] = "Sleeping", !.queue = dequeue(m.queue, p)]
  BY <1>1 DEF sleep, dequeueProcess, Manager
<1>3. /\ Lists(dequeue(m.queue, p), Range(dequeue(m.queue, p)))
      /\ Range(dequeue(m.queue, p)) = Range(m.queue) \ {p} /\ dequeue(m.queue, p) \in Seq(PIDS)
  BY <1>1, DequeueRange
<1>4. /\ x \in Manager /\ ~x.fatal /\ x.state = [m.state EXCEPT ![p] = "Sleeping"]
      /\ x.queue = dequeue(m.queue, p) /\ x.sleepers = m.sleepers /\ x.timer = m.timer
      /\ x.waitId = m.waitId /\ x.current = m.current /\ x.idle = m.idle /\ x.notify = m.notify
  <2>1. /\ ~x.fatal /\ x.state = [m.state EXCEPT ![p] = "Sleeping"]
        /\ x.queue = dequeue(m.queue, p) /\ x.sleepers = m.sleepers /\ x.timer = m.timer
        /\ x.waitId = m.waitId /\ x.current = m.current /\ x.idle = m.idle /\ x.notify = m.notify
    BY <1>2, <1>3 DEF Manager
  <2>2. x.state \in [PIDS -> States]
    BY <2>1 DEF Manager, States
  <2> QED BY Zenon, <1>2, <1>3, <2>1, <2>2 DEF Manager
<1> HIDE DEF x
<1>5. x.state[p] = "Sleeping" /\ \A q \in PIDS \ {p} : x.state[q] = m.state[q]
  BY <1>4 DEF Manager
<1>6. Apart(m, x, p)
  BY ZenonT(40), <1>1, <1>3, <1>4, <1>5 DEF Apart
<1>7. Fits(x, p)
  BY <1>1, <1>3, <1>4, <1>5 DEF Fits
<1>8. QueuesExact(x) /\ RefsExist(x)
  BY <1>1, <1>4, <1>6, <1>7, FrameSound DEF Sound
<1>9. IdleReady(x, is)
  BY <1>1, <1>4, <1>5 DEF Sound, IdleReady, Manager
<1> QED BY <1>4, <1>8, <1>9 DEF Sound, x

LEMMA SleepTimerSound ==
  ASSUME NEW m \in Manager, NEW is \in PIDS \cup {Null}, Sound(m, is), ~m.fatal,
         m.current \in PIDS \ {is}, m.state[m.current] = "Ready", NEW t \in 0 .. Never
  PROVE  /\ sleepTimer(m, t) \in Manager /\ ~sleepTimer(m, t).fatal
         /\ Sound(sleepTimer(m, t), is)
         /\ sleepTimer(m, t).state = [m.state EXCEPT ![m.current] = "Sleeping"]
<1> DEFINE p == m.current
           x == sleepTimer(m, t)
<1>1. /\ Lists(m.queue, Range(m.queue)) /\ Lists(m.sleepers, Range(m.sleepers))
      /\ p \in PIDS /\ p \in Range(m.queue) /\ p # m.idle
      /\ p \notin Range(m.sleepers) /\ m.timer[p] = Never
  BY ReadyIsQueued
<1>2. x = [m EXCEPT !.state[p] = "Sleeping", !.queue = dequeue(m.queue, p),
                    !.timer[p] = t, !.sleepers = Append(m.sleepers, p)]
  BY ZenonT(40), <1>1 DEF sleepTimer, sleep, dequeueProcess, Manager
<1>3. /\ Lists(dequeue(m.queue, p), Range(dequeue(m.queue, p)))
      /\ Range(dequeue(m.queue, p)) = Range(m.queue) \ {p} /\ dequeue(m.queue, p) \in Seq(PIDS)
      /\ Lists(Append(m.sleepers, p), Range(Append(m.sleepers, p)))
      /\ Range(Append(m.sleepers, p)) = Range(m.sleepers) \cup {p}
      /\ Append(m.sleepers, p) \in Seq(PIDS)
  BY <1>1, DequeueRange, AppendRange
<1>4. /\ x \in Manager /\ ~x.fatal /\ x.state = [m.state EXCEPT ![p] = "Sleeping"]
      /\ x.queue = dequeue(m.queue, p) /\ x.sleepers = Append(m.sleepers, p)
      /\ x.timer = [m.timer EXCEPT ![p] = t]
      /\ x.waitId = m.waitId /\ x.current = m.current /\ x.idle = m.idle /\ x.notify = m.notify
  <2>1. /\ ~x.fatal /\ x.state = [m.state EXCEPT ![p] = "Sleeping"]
        /\ x.queue = dequeue(m.queue, p) /\ x.sleepers = Append(m.sleepers, p)
        /\ x.timer = [m.timer EXCEPT ![p] = t]
        /\ x.waitId = m.waitId /\ x.current = m.current /\ x.idle = m.idle /\ x.notify = m.notify
    BY <1>2, <1>3 DEF Manager
  <2>2. x.state \in [PIDS -> States]
    BY <2>1 DEF Manager, States
  <2>3. x.timer \in [PIDS -> 0 .. Never]
    BY <2>1 DEF Manager
  <2> QED BY ZenonT(40), <1>2, <1>3, <2>1, <2>2, <2>3 DEF Manager
<1> HIDE DEF x
<1>5. /\ x.state[p] = "Sleeping"
      /\ \A q \in PIDS \ {p} : x.state[q] = m.state[q] /\ x.timer[q] = m.timer[q]
  BY <1>4 DEF Manager
<1>6. Apart(m, x, p)
  BY ZenonT(40), <1>1, <1>3, <1>4, <1>5 DEF Apart
<1>7. Fits(x, p)
  BY <1>1, <1>3, <1>4, <1>5 DEF Fits
<1>8. QueuesExact(x) /\ RefsExist(x)
  BY <1>1, <1>4, <1>6, <1>7, FrameSound DEF Sound
<1>9. IdleReady(x, is)
  <2>1. x.current = m.current /\ x.idle = m.idle
    BY <1>4
  <2> QED BY <1>1, <1>5, <2>1 DEF Sound, IdleReady, Manager
<1> QED BY <1>4, <1>8, <1>9 DEF Sound, x

LEMMA WaitSound ==
  ASSUME NEW m \in Manager, NEW is \in PIDS \cup {Null}, Sound(m, is), ~m.fatal,
         m.current \in PIDS \ {is}, m.state[m.current] = "Ready",
         NEW id \in PIDS, m.state[id] # "None"
  PROVE  /\ wait(m, id) \in Manager /\ ~wait(m, id).fatal /\ Sound(wait(m, id), is)
         /\ wait(m, id).state = [m.state EXCEPT ![m.current] = "Waiting"]
         /\ wait(m, id).waitId = [m.waitId EXCEPT ![m.current] = id]
<1> DEFINE p == m.current
           x == wait(m, id)
<1>1. /\ Lists(m.queue, Range(m.queue)) /\ Lists(m.sleepers, Range(m.sleepers))
      /\ p \in PIDS /\ p \in Range(m.queue) /\ p # m.idle
      /\ p \notin Range(m.sleepers) /\ m.timer[p] = Never
  BY ReadyIsQueued
<1>2. x = [m EXCEPT !.state[p] = "Waiting", !.waitId[p] = id, !.queue = dequeue(m.queue, p)]
  BY <1>1 DEF wait, Waiting, dequeueProcess, Manager
<1>3. /\ Lists(dequeue(m.queue, p), Range(dequeue(m.queue, p)))
      /\ Range(dequeue(m.queue, p)) = Range(m.queue) \ {p} /\ dequeue(m.queue, p) \in Seq(PIDS)
  BY <1>1, DequeueRange
<1>4. /\ x \in Manager /\ ~x.fatal /\ x.state = [m.state EXCEPT ![p] = "Waiting"]
      /\ x.queue = dequeue(m.queue, p) /\ x.sleepers = m.sleepers /\ x.timer = m.timer
      /\ x.waitId = [m.waitId EXCEPT ![p] = id]
      /\ x.current = m.current /\ x.idle = m.idle /\ x.notify = m.notify
  <2>1. /\ ~x.fatal /\ x.state = [m.state EXCEPT ![p] = "Waiting"]
        /\ x.queue = dequeue(m.queue, p) /\ x.sleepers = m.sleepers /\ x.timer = m.timer
        /\ x.waitId = [m.waitId EXCEPT ![p] = id]
        /\ x.current = m.current /\ x.idle = m.idle /\ x.notify = m.notify
    BY <1>2, <1>3 DEF Manager
  <2>2. x.state \in [PIDS -> States]
    BY <2>1 DEF Manager, States
  <2>3. x.waitId \in [PIDS -> PIDS]
    BY <2>1 DEF Manager
  <2> QED BY Zenon, <1>2, <1>3, <2>1, <2>2, <2>3 DEF Manager
<1> HIDE DEF x
<1>5. /\ x.state[p] = "Waiting" /\ x.waitId[p] = id
      /\ \A q \in PIDS \ {p} : x.state[q] = m.state[q] /\ x.waitId[q] = m.waitId[q]
  BY <1>4 DEF Manager
<1>6. Apart(m, x, p)
  BY ZenonT(40), <1>1, <1>3, <1>4, <1>5 DEF Apart
<1>7. Fits(x, p)
  BY <1>1, <1>3, <1>4, <1>5 DEF Fits
<1>8. QueuesExact(x) /\ RefsExist(x)
  BY <1>1, <1>4, <1>6, <1>7, FrameSound DEF Sound
<1>9. IdleReady(x, is)
  <2>1. x.current = m.current /\ x.idle = m.idle
    BY <1>4
  <2> QED BY <1>1, <1>5, <2>1 DEF Sound, IdleReady, Manager
<1> QED BY <1>4, <1>8, <1>9 DEF Sound, x

-----------------------------------------------------------------------------
LEMMA NoDuplicates ==
  ASSUME NEW s, Lists(s, Range(s)), NEW p
  PROVE  ~Duplicate(s, p)
  BY DEF Lists, Duplicate, IsInjective

(* What wakeup() of a sleeping process and resume() have in common. *)
LEMMA EnqueuedSound ==
  ASSUME NEW m \in Manager, NEW is \in PIDS \cup {Null}, Sound(m, is),
         NEW p \in PIDS, m.state[p] \in {"Sleeping", "Stopped"},
         NEW y \in Manager,
         y.state = [m.state EXCEPT ![p] = "Ready"], y.queue = m.queue, y.sleepers = m.sleepers,
         y.timer = m.timer, y.waitId = m.waitId, y.current = m.current, y.idle = m.idle,
         y.notify = m.notify, ~y.fatal
  PROVE  LET x == enqueueProcess(y, p)
         IN  x \in Manager /\ ~x.fatal /\ Sound(x, is) /\ x.state = [m.state EXCEPT ![p] = "Ready"]
<1> DEFINE x == enqueueProcess(y, p)
<1>1. /\ Lists(m.queue, Range(m.queue)) /\ Lists(m.sleepers, Range(m.sleepers))
      /\ p \notin Range(m.queue) /\ p # m.idle
  BY UnreadyIsNotQueued
<1>2. y.state[p] = "Ready" /\ \A q \in PIDS \ {p} : y.state[q] = m.state[q]
  BY DEF Manager
<1>3. x = [y EXCEPT !.queue = Append(m.queue, p), !.sleepers = Without(m.sleepers, p),
                    !.timer[p] = Never]
  BY <1>1, <1>2, NoDuplicates DEF enqueueProcess
<1>4. /\ Lists(Append(m.queue, p), Range(Append(m.queue, p)))
      /\ Range(Append(m.queue, p)) = Range(m.queue) \cup {p} /\ Append(m.queue, p) \in Seq(PIDS)
      /\ Lists(Without(m.sleepers, p), Range(Without(m.sleepers, p)))
      /\ Range(Without(m.sleepers, p)) = Range(m.sleepers) \ {p}
      /\ Without(m.sleepers, p) \in Seq(PIDS)
  BY <1>1, AppendRange, WithoutRange
<1>5. /\ x \in Manager /\ ~x.fatal /\ x.state = y.state
      /\ x.queue = Append(m.queue, p) /\ x.sleepers = Without(m.sleepers, p)
      /\ x.timer = [m.timer EXCEPT ![p] = Never]
      /\ x.waitId = m.waitId /\ x.current = m.current /\ x.idle = m.idle /\ x.notify = m.notify
  <2>1. /\ ~x.fatal /\ x.state = y.state
        /\ x.queue = Append(m.queue, p) /\ x.sleepers = Without(m.sleepers, p)
        /\ x.timer = [m.timer EXCEPT ![p] = Never]
        /\ x.waitId = m.waitId /\ x.current = m.current /\ x.idle = m.idle /\ x.notify = m.notify
    <3>1. /\ x.fatal = y.fatal /\ x.state = y.state /\ x.waitId = y.waitId
          /\ x.current = y.current /\ x.idle = y.idle /\ x.notify = y.notify
      BY <1>3 DEF Manager
    <3>2. x.queue = Append(m.queue, p) /\ x.sleepers = Without(m.sleepers, p)
      BY <1>3 DEF Manager
    <3>3. x.timer = [y.timer EXCEPT ![p] = Never]
      BY Zenon, <1>3 DEF Manager
    <3> QED BY <3>1, <3>2, <3>3
  <2>2. x.timer \in [PIDS -> 0 .. Never]
    BY <2>1, ConstantsAssumption DEF Manager, Never
  <2> QED BY ZenonT(40), <1>3, <1>4, <2>1, <2>2 DEF Manager
<1> HIDE DEF x
<1>6. /\ x.state[p] = "Ready" /\ x.timer[p] = Never
      /\ \A q \in PIDS \ {p} : x.state[q] = m.state[q] /\ x.timer[q] = m.timer[q]
  BY <1>2, <1>5 DEF Manager
<1>7. Apart(m, x, p)
  BY Zenon, <1>1, <1>4, <1>5, <1>6 DEF Apart
<1>8. Fits(x, p)
  BY <1>1, <1>4, <1>5, <1>6 DEF Fits
<1>9. QueuesExact(x) /\ RefsExist(x)
  BY <1>5, <1>7, <1>8, FrameSound DEF Sound
<1>10. IdleReady(x, is)
  <2>1. x.current = m.current /\ x.idle = m.idle
    BY <1>5
  <2> QED BY <1>1, <1>6, <2>1 DEF Sound, IdleReady, Manager
<1> QED BY <1>5, <1>9, <1>10 DEF Sound, x

LEMMA ResumeSound ==
  ASSUME NEW m \in Manager, NEW is \in PIDS \cup {Null}, Sound(m, is), ~m.fatal,
         NEW p \in PIDS, m.state[p] = "Stopped"
  PROVE  /\ resume(m, p) \in Manager /\ ~resume(m, p).fatal /\ Sound(resume(m, p), is)
         /\ resume(m, p).state = [m.state EXCEPT ![p] = "Ready"]
<1> DEFINE y == Resumed(m, p)
<1>1. /\ y.state = [m.state EXCEPT ![p] = "Ready"] /\ y.queue = m.queue /\ y.sleepers = m.sleepers
      /\ y.timer = m.timer /\ y.waitId = m.waitId /\ y.current = m.current /\ y.idle = m.idle
      /\ y.notify = m.notify /\ ~y.fatal
  BY DEF Resumed, Manager
<1>2. y \in Manager
  <2>1. y.state \in [PIDS -> States]
    BY <1>1 DEF Manager, States
  <2> QED BY Zenon, <1>1, <2>1 DEF Manager, Resumed
<1> HIDE DEF y
<1> QED BY <1>1, <1>2, EnqueuedSound DEF resume, y

(* Nothing but the counters of wakeups differs. *)
LEMMA WakeupsFrame ==
  ASSUME NEW m \in Manager, NEW is \in PIDS \cup {Null}, Sound(m, is), NEW x \in Manager,
         x.state = m.state, x.queue = m.queue, x.sleepers = m.sleepers,
         x.timer = m.timer, x.waitId = m.waitId, x.current = m.current, x.idle = m.idle,
         x.notify = m.notify
  PROVE  Sound(x, is)
  BY DEF Sound, QueuesExact, RefsExist, IdleReady, ReadyProcs

LEMMA WakeupSound ==
  ASSUME NEW m \in Manager, NEW is \in PIDS \cup {Null}, Sound(m, is), ~m.fatal,
         NEW p \in PIDS
  PROVE  /\ wakeup(m, p) \in Manager /\ ~wakeup(m, p).fatal /\ Sound(wakeup(m, p), is)
         /\ OnlySleepersRise(m, wakeup(m, p))
<1>1. counted(m.wakeups[p]) \in 0 .. MaxWakeups
  BY Zenon, CountedType DEF Manager
<1>2. CASE m.state[p] = "Sleeping"
  <2> DEFINE y == [m EXCEPT !.wakeups[p] = counted(@), !.state[p] = "Ready"]
  <2>1. /\ y.state = [m.state EXCEPT ![p] = "Ready"] /\ y.queue = m.queue /\ y.sleepers = m.sleepers
        /\ y.timer = m.timer /\ y.waitId = m.waitId /\ y.current = m.current /\ y.idle = m.idle
        /\ y.notify = m.notify /\ ~y.fatal
        /\ y.wakeups = [m.wakeups EXCEPT ![p] = counted(@)]
    BY DEF Manager
  <2>2. y \in Manager
    <3>1. y.state \in [PIDS -> States]
      BY <2>1 DEF Manager, States
    <3>2. y.wakeups \in [PIDS -> 0 .. MaxWakeups]
      BY <1>1, <2>1 DEF Manager
    <3> QED BY Zenon, <2>1, <3>1, <3>2 DEF Manager
  <2>3. wakeup(m, p) = enqueueProcess(y, p)
    BY <1>2 DEF wakeup
  <2> HIDE DEF y
  <2>4. /\ wakeup(m, p) \in Manager /\ ~wakeup(m, p).fatal /\ Sound(wakeup(m, p), is)
        /\ wakeup(m, p).state = [m.state EXCEPT ![p] = "Ready"]
    BY <1>2, <2>1, <2>2, <2>3, EnqueuedSound
  <2>5. OnlySleepersRise(m, wakeup(m, p))
    BY <1>2, <2>4 DEF OnlySleepersRise, Manager
  <2> QED BY <2>4, <2>5
<1>3. CASE m.state[p] # "Sleeping"
  <2> DEFINE x == [m EXCEPT !.wakeups[p] = counted(@)]
  <2>1. wakeup(m, p) = x
    BY <1>3 DEF wakeup
  <2>2. /\ x.state = m.state /\ x.queue = m.queue /\ x.sleepers = m.sleepers
        /\ x.timer = m.timer /\ x.waitId = m.waitId /\ x.current = m.current /\ x.idle = m.idle
        /\ x.notify = m.notify /\ ~x.fatal
        /\ x.wakeups = [m.wakeups EXCEPT ![p] = counted(@)]
    BY DEF Manager
  <2>3. x \in Manager
    <3>1. x.wakeups \in [PIDS -> 0 .. MaxWakeups]
      BY <1>1, <2>2 DEF Manager
    <3> QED BY Zenon, <2>2, <3>1 DEF Manager
  <2> HIDE DEF x
  <2>4. Sound(x, is)
    BY <2>2, <2>3, WakeupsFrame
  <2> QED BY <2>1, <2>2, <2>3, <2>4 DEF OnlySleepersRise
<1> QED BY <1>2, <1>3

(* stop() reaches FATAL() only for the idle process, which is on no queue. *)
LEMMA StopSound ==
  ASSUME NEW m \in Manager, NEW is \in PIDS \cup {Null}, Sound(m, is), ~m.fatal,
         NEW p \in PIDS, m.state[p] \in {"Ready", "Sleeping", "Stopped"}, m.current # is
  PROVE  Held(stop(m, p), is) /\ stop(m, p).state = [m.state EXCEPT ![p] = "Stopped"]
<1> DEFINE x == stop(m, p)
           y == Stopped(m, p)
<1>1. Null \notin PIDS
  BY ConstantsAssumption DEF PIDS
<1>2. /\ y.state = [m.state EXCEPT ![p] = "Stopped"] /\ y.queue = m.queue /\ y.sleepers = m.sleepers
      /\ y.timer = m.timer /\ y.waitId = m.waitId /\ y.current = m.current /\ y.idle = m.idle
      /\ y.notify = m.notify /\ ~y.fatal
  BY DEF Stopped, Manager
<1>3. y \in Manager
  <2>1. y.state \in [PIDS -> States]
    BY <1>2 DEF Manager, States
  <2> QED BY Zenon, <1>2, <2>1 DEF Manager, Stopped
<1>4. y.state[p] = "Stopped" /\ \A q \in PIDS \ {p} : y.state[q] = m.state[q]
  BY <1>2 DEF Manager
<1>5. CASE m.state[p] = "Ready" /\ p = m.idle
  <2>1. p \notin Range(m.queue) /\ p = is
    BY <1>1, <1>5, ReadyIsQueued DEF Sound, IdleReady
  <2>2. x = FATAL(y)
    BY <1>2, <1>4, <1>5, <2>1 DEF stop, dequeueProcess
  <2> HIDE DEF y
  <2>3. x \in Manager /\ x.fatal /\ x.state = y.state
    BY Zenon, <1>3, <2>2 DEF FATAL, Manager
  <2> QED BY <1>2, <1>4, <2>1, <2>3 DEF Held, FatalExcused
<1>6. CASE ~(m.state[p] = "Ready" /\ p = m.idle)
  <2> DEFINE u == IF m.state[p] = "Ready" THEN dequeue(m.queue, p) ELSE m.queue
  <2>1. /\ Lists(m.queue, Range(m.queue)) /\ Lists(m.sleepers, Range(m.sleepers)) /\ p # m.idle
        /\ m.state[p] = "Ready" => p \in Range(m.queue) /\ p \notin Range(m.sleepers)
        /\ m.state[p] # "Ready" => p \notin Range(m.queue)
    BY <1>6, ReadyIsQueued, UnreadyIsNotQueued
  <2>2. Lists(u, Range(u)) /\ Range(u) = Range(m.queue) \ {p} /\ u \in Seq(PIDS)
    <3>1. CASE m.state[p] = "Ready"
      BY <2>1, <3>1, DequeueRange
    <3>2. CASE m.state[p] # "Ready"
      BY <2>1, <3>2 DEF Lists
    <3> QED BY <3>1, <3>2
  <2>3. x = [y EXCEPT !.queue = u]
    <3>1. CASE m.state[p] = "Ready"
      BY <1>2, <1>4, <2>1, <3>1 DEF stop, dequeueProcess
    <3>2. CASE m.state[p] # "Ready"
      <4>1. x = y /\ u = y.queue
        BY <1>2, <3>2 DEF stop
      <4> HIDE DEF x, u, y
      <4> QED BY <1>3, <4>1 DEF Manager
    <3> QED BY <3>1, <3>2
  <2> HIDE DEF u, y
  <2>4. /\ x \in Manager /\ ~x.fatal /\ x.state = y.state /\ x.queue = u /\ x.sleepers = m.sleepers
        /\ x.timer = m.timer /\ x.waitId = m.waitId /\ x.current = m.current /\ x.idle = m.idle
        /\ x.notify = m.notify
    BY ZenonT(40), <1>2, <1>3, <2>2, <2>3 DEF Manager
  <2> HIDE DEF x
  <2>5. Apart(m, x, p)
    BY ZenonT(40), <1>4, <2>1, <2>2, <2>4 DEF Apart
  <2>6. Fits(x, p)
    BY <1>4, <2>1, <2>2, <2>4 DEF Fits
  <2>7. QueuesExact(x) /\ RefsExist(x)
    BY <2>4, <2>5, <2>6, FrameSound DEF Sound
  <2>8. IdleReady(x, is)
    <3>1. x.current = m.current /\ x.idle = m.idle /\ x.state = y.state
      BY <2>4
    <3> QED BY <1>4, <2>1, <3>1 DEF Sound, IdleReady, Manager
  <2> QED BY <1>2, <2>4, <2>7, <2>8 DEF Held, FatalExcused, Sound, x
<1> QED BY <1>5, <1>6

=============================================================================
