------------------------- MODULE ConnectionsProofs --------------------------
(***************************************************************************)
(* Proofs of the safety of connections: what follows from the agreement    *)
(* of the shares, the events and the channels.  The bound of the share     *)
(* index, which is about the cardinality of sets, is proved here as well.  *)
(***************************************************************************)
EXTENDS ConnectionsAgreement, ProcessSharesProofs, FiniteSetTheorems

(* The provers that are tried on a leaf which names none, with their time. *)
USE ZenonT(5), SMTT(30)

LEMMA KillDetaches ==
  ASSUME IInv, dropped = {}, NEW p \in PIDS, Kill(p)
  PROVE  KillShares(p)
<1> DEFINE Q == Others(shares[p]) \ {p}
           D == detach(shares, p, Q)
<1>1. shares \in [PIDS -> SUBSET Share]
  BY DEF IInv, Typed
<1>2. shares' = [D EXCEPT ![p] = {}]
  BY DEF Kill
<1>3. /\ D \in [PIDS -> SUBSET Share]
      /\ \A q \in PIDS : \A u \in D[q] : \E s \in shares[q] : Detached(u, s, p, q, Q)
      /\ \A q \in PIDS : \A s \in shares[q] : \E u \in D[q] : Detached(u, s, p, q, Q)
  BY Zenon, <1>1, DetachShares
<1>4. ASSUME NEW x \in PIDS \ {p}, NEW s \in shares[x], s.attached, s.pid = p PROVE x \in Q
  <2>1. x \in live /\ \E r \in shares[p] : r.pid = x /\ r.attached
    BY <1>4, AttachedIsKnown
  <2> QED BY <1>4, <2>1 DEF Others
<1> HIDE DEF D, Q
<1>5. shares'[p] = {} /\ \A x \in PIDS \ {p} : shares'[x] = D[x]
  BY <1>2, <1>3
<1>6. ASSUME NEW x \in PIDS \ {p}, NEW s \in shares[x], NEW u \in D[x], Detached(u, s, p, x, Q)
      PROVE  After(u, s, p)
  <2>1. u \in Share /\ s \in Share
    BY <1>1, <1>3, <1>6
  <2>2. u.attached \in BOOLEAN /\ s.attached \in BOOLEAN
    BY <2>1 DEF Share
  <2>3. u.attached = (s.attached /\ s.pid # p)
    BY <1>4, <1>6, <2>2 DEF Detached
  <2> QED BY <1>6, <2>1, <2>3 DEF After, Detached
<1>7. ASSUME NEW x \in PIDS \ {p}, NEW u \in shares'[x] PROVE \E s \in shares[x] : After(u, s, p)
  BY <1>3, <1>5, <1>6, <1>7
<1>8. ASSUME NEW x \in PIDS \ {p}, NEW s \in shares[x] PROVE \E u \in shares'[x] : After(u, s, p)
  BY <1>3, <1>5, <1>6, <1>8
<1> QED BY <1>5, <1>7, <1>8 DEF KillShares

LEMMA DeleteRemoves ==
  ASSUME IInv, OneShare, NEW p \in PIDS, NEW q, Delete(p, q),
         \E s \in shares[p] : s.pid = q /\ ~s.attached
  PROVE  DeleteShares(p, q)
<1> DEFINE S == {s \in shares[p] : s.pid = q}
           D == detach(shares, p, {})
<1>1. shares \in [PIDS -> SUBSET Share]
  BY DEF IInv, Typed
<1>2. shares' = [detach(shares, p, Others(S)) EXCEPT ![p] = @ \ S]
  BY DEF Delete
<1>3. \A s \in S : ~s.attached
  BY DEF OneShare
<1>4. Others(S) = {}
  BY <1>3 DEF Others
<1>5. shares[p] \ S = {s \in shares[p] : s.pid # q}
  OBVIOUS
<1>6. D \in [PIDS -> SUBSET Share] /\ \A x \in PIDS : D[x] = shares[x]
  BY <1>1, DetachShares
<1> HIDE DEF S, D
<1>7. shares' = [D EXCEPT ![p] = shares[p] \ S]
  BY Zenon, <1>2, <1>4, <1>6 DEF D
<1>8. shares'[p] = shares[p] \ S /\ \A x \in PIDS \ {p} : shares'[x] = shares[x]
  BY <1>6, <1>7
<1> QED BY <1>5, <1>8 DEF DeleteShares

(* A restarted server misses the event it was working on, nothing else.     *)
LEMMA RestartShares ==
  ASSUME IInv, NEW p \in PIDS, Restart(p)
  PROVE  IInv'
<1>1. /\ p \in live /\ missed' \subseteq missed \cup {p}
      /\ live' = live /\ shares' = shares /\ mapped' = mapped /\ free' = free
      /\ events' = events /\ dropped' = dropped
  BY DEF Restart
<1> QED BY <1>1 DEF IInv, Typed, Pairs, Exclusive, Used, PagesAccounted

LEMMA SharesStep ==
  ASSUME IInv, CTypeOK, [CNext]_cvars
  PROVE  IInv'
<1>1. ASSUME NEW p \in PIDS, Start(p) PROVE IInv'
  BY <1>1, SpawnStep DEF Start
<1>2. ASSUME NEW p \in PIDS, Terminate(p) PROVE IInv'
  BY <1>2, KillStep DEF Terminate
<1>3. ASSUME NEW p \in PIDS, Restart(p) PROVE IInv'
  BY <1>3, RestartShares
<1>4. ASSUME NEW p \in PIDS, ReadKernelEvent(p) PROVE IInv'
  BY <1>4, ReadEventStep DEF ReadKernelEvent
<1>5. ASSUME NEW p \in PIDS, Accept(p) PROVE IInv'
  <2>1. UNCHANGED vars
    BY <1>5 DEF Accept
  <2> QED BY <2>1, NextIInv
<1>6. ASSUME NEW p \in PIDS, HandleTerminated(p) PROVE IInv'
  <2>1. handling[p] # None /\ Delete(p, handling[p].pid)
    BY <1>6 DEF HandleTerminated
  <2>2. handling[p] \in Event /\ handling[p].pid # p
    BY <1>6, <2>1 DEF CTypeOK
  <2>3. handling[p].pid \in PIDS
    BY <2>2, EventFields
  <2> QED BY <1>6, <2>1, <2>2, <2>3, DeleteStep
<1>7. ASSUME NEW p \in PIDS, NEW q \in PIDS, NEW b \in Blocks, Connect(p, q, b) PROVE IInv'
  BY <1>7, CreateStep, SharesAssumption DEF Connect
<1>8. ASSUME NEW p \in PIDS, NEW q \in PIDS, NEW b \in Blocks, ConnectFails(p, q, b) PROVE IInv'
  BY <1>8, CreateFailsStep, SharesAssumption DEF ConnectFails
<1>9. CASE UNCHANGED cvars
  <2>1. UNCHANGED vars
    BY <1>9 DEF cvars
  <2> QED BY <2>1, NextIInv
<1> QED BY <1>1, <1>2, <1>3, <1>4, <1>5, <1>6, <1>7, <1>8, <1>9 DEF CNext

(* What went amiss is never forgotten. *)
LEMMA HistoryGrows ==
  ASSUME [CNext]_cvars PROVE dropped \subseteq dropped' /\ mistold \subseteq mistold'
<1> DEFINE Grows == dropped \subseteq dropped' /\ mistold \subseteq mistold'
<1>1. ASSUME NEW p \in PIDS, Start(p) \/ Restart(p) \/ ReadKernelEvent(p) \/ Accept(p) PROVE Grows
  BY <1>1 DEF Start, Spawn, Restart, ReadKernelEvent, ReadEvent, Accept, vars
<1>2. ASSUME NEW p \in PIDS, Terminate(p) PROVE Grows
  BY <1>2 DEF Terminate, Kill
<1>3. ASSUME NEW p \in PIDS, HandleTerminated(p) PROVE Grows
  BY <1>3 DEF HandleTerminated, Delete
<1>4. ASSUME NEW p \in PIDS, NEW q \in PIDS, NEW b \in Blocks, Connect(p, q, b) PROVE Grows
  BY <1>4 DEF Connect, Create
<1>5. ASSUME NEW p \in PIDS, NEW q \in PIDS, NEW b \in Blocks, ConnectFails(p, q, b) PROVE Grows
  BY <1>5 DEF ConnectFails, CreateFails
<1>6. CASE UNCHANGED cvars
  BY <1>6 DEF cvars, vars
<1> QED BY <1>1, <1>2, <1>3, <1>4, <1>5, <1>6 DEF CNext

LEMMA CNextStep ==
  ASSUME CIInv, [CNext]_cvars
  PROVE  CIInv'
<1>1. IInv' /\ CTypeOK'
  BY SharesStep, CTypeStep DEF CIInv
<1>2. ASSUME ~Amiss' PROVE Agreed'
  <2>1. dropped' = {} /\ mistold' = {}
    BY <1>2 DEF Amiss
  <2>2. dropped = {} /\ mistold = {}
    <3>1. dropped \subseteq dropped' /\ mistold \subseteq mistold'
      BY HistoryGrows
    <3> QED BY <2>1, <3>1
  <2>3. IInv /\ CTypeOK /\ Agreed
    BY <2>2 DEF CIInv, Amiss
  <2>4. ASSUME NEW p \in PIDS, Start(p) PROVE Agreed'
    BY <2>3, <2>4, StartAgreed
  <2>5. ASSUME NEW p \in PIDS, Terminate(p) PROVE Agreed'
    <3>1. Kill(p)
      BY <2>5 DEF Terminate
    <3>2. KillShares(p)
      BY <2>2, <2>3, <3>1, KillDetaches
    <3> QED BY <2>1, <2>2, <2>3, <2>5, <3>2, TerminateAgreed
  <2>6. ASSUME NEW p \in PIDS, Restart(p) PROVE Agreed'
    BY <2>3, <2>6, RestartAgreed
  <2>7. ASSUME NEW p \in PIDS, ReadKernelEvent(p) PROVE Agreed'
    BY <2>3, <2>7, ReadAgreed
  <2>8. ASSUME NEW p \in PIDS, Accept(p) PROVE Agreed'
    BY <2>3, <2>8, AcceptAgreed
  <2>9. ASSUME NEW p \in PIDS, HandleTerminated(p) PROVE Agreed'
    <3>1. handling[p] # None /\ handling[p].type = "ProcessTerminated" /\ Delete(p, handling[p].pid)
      BY <2>9 DEF HandleTerminated
    <3>2. OneShare /\ \E s \in shares[p] : s.pid = handling[p].pid /\ ~s.attached
      BY <2>3, <3>1 DEF Agreed, EventsUpToDate, UpToDate
    <3>3. DeleteShares(p, handling[p].pid)
      BY <2>3, <3>1, <3>2, DeleteRemoves
    <3> QED BY <2>3, <2>9, <3>3, TerminatedAgreed
  <2>10. ASSUME NEW p \in PIDS, NEW q \in PIDS, NEW b \in Blocks, Connect(p, q, b) PROVE Agreed'
    BY <2>1, <2>2, <2>3, <2>10, ConnectAgreed
  <2>11. ASSUME NEW p \in PIDS, NEW q \in PIDS, NEW b \in Blocks, ConnectFails(p, q, b) PROVE Agreed'
    <3>1. b \in dropped'
      BY <2>11 DEF ConnectFails, CreateFails
    <3> QED BY <2>1, <3>1
  <2>12. CASE UNCHANGED cvars
    BY <2>3, <2>12 DEF cvars, vars, Agreed, OneShare, OneSided, Registered, EventsUpToDate, UpToDate,
                       LastWord, Announced, ToldOf
  <2> QED BY <2>4, <2>5, <2>6, <2>7, <2>8, <2>9, <2>10, <2>11, <2>12 DEF CNext
<1> QED BY <1>1, <1>2 DEF CIInv

LEMMA CInitHolds ==
  ASSUME CInit PROVE CIInv
<1>1. /\ Init /\ channel = [p \in PIDS |-> [q \in PIDS |-> None]]
      /\ handling = [p \in PIDS |-> None]
  BY DEF CInit
<1>2. IInv
  BY <1>1, InitIInv
<1>3. /\ live = {} /\ \A p \in PIDS : shares[p] = {} /\ Len(events[p]) = 0
  BY <1>1 DEF Init
<1>4. \A p \in PIDS : handling[p] = None /\ \A q \in PIDS : channel[p][q] = None
  BY <1>1
<1>5. CTypeOK
  BY <1>1, <1>3, <1>4 DEF CTypeOK
<1>6. Agreed
  BY <1>3, <1>4 DEF Agreed, OneShare, OneSided, Registered, EventsUpToDate, LastWord, Announced
<1> QED BY <1>2, <1>5, <1>6 DEF CIInv

(* In every state of a core whose processes come, go, connect and are       *)
(* restarted, the events that a process has yet to act on are up to date.   *)
THEOREM ConnectionsInvariance == CSpec => []CIInv
<1>1. CInit => CIInv
  BY CInitHolds
<1>2. CIInv /\ [CNext]_cvars => CIInv'
  BY CNextStep
<1> QED BY <1>1, <1>2, PTL DEF CSpec

(* The pages of channels are never returned to the allocator while mapped,  *)
(* when servers connect, recover their channels after a restart and delete  *)
(* shares in response to the events of terminated processes.                *)
THEOREM ChannelsNotReleased == CSpec => []NoReleaseWhileMapped
<1>1. CIInv => NoReleaseWhileMapped
  BY DEF CIInv, IInv, Used, NoReleaseWhileMapped
<1> QED BY <1>1, ConnectionsInvariance, PTL

(* Connecting, restarting and terminating processes lose no pages, but for  *)
(* the error paths of createShare().                                        *)
THEOREM ChannelsAccounted == CSpec => []PagesAccounted
<1>1. CIInv => PagesAccounted
  BY DEF CIInv, IInv
<1> QED BY <1>1, ConnectionsInvariance, PTL

(* A process that has not missed an event is going to be told that the      *)
(* process its share is detached from is gone.                              *)
THEOREM DetachedIsAnnouncedHolds == CSpec => []DetachedIsAnnounced
<1>1. ASSUME CIInv, ~Amiss, NEW p \in live \ missed, NEW s \in shares[p], s.pid # Kernel, ~s.attached
      PROVE  \E e \in Pending(p) : e.type = "ProcessTerminated" /\ e.pid = s.pid
  <2>1. ToldOf(p, s.pid)
    BY <1>1 DEF CIInv, Agreed, Announced
  <2>2. events[p] \in Seq(Event)
    BY <1>1 DEF CIInv, IInv, Typed
  <2>3. DOMAIN events[p] = 1 .. Len(events[p])
    BY <2>2
  <2> QED BY <2>1, <2>3 DEF ToldOf, Pending, Range
<1>2. CIInv => DetachedIsAnnounced
  BY <1>1 DEF DetachedIsAnnounced, Amiss
<1> QED BY <1>2, ConnectionsInvariance, PTL

(* The two ends of every connection agree: an attached share is in both     *)
(* lists over the same pages, a detached one is the last of its pages, a    *)
(* registered channel lies in mapped pages, and both ends of an attached    *)
(* connection poll the same ones, for any number of processes, whatever     *)
(* identifiers they reuse and however late they read their events.          *)
THEOREM EndsAgreeHolds == CSpec => []EndsAgree
<1>1. ASSUME CIInv, ~Amiss, NEW p \in PIDS, NEW q \in PIDS, channel[p][q] # None
      PROVE  channel[p][q] \in mapped[p]
  <2>1. PICK s \in shares[p] : s.pid = q /\ s.block = channel[p][q]
    BY <1>1 DEF CIInv, Agreed, Registered
  <2>2. s \in Share
    BY <1>1 DEF CIInv, IInv, Typed
  <2>3. s.block \in Blocks \ dropped
    BY <1>1, <2>2 DEF Amiss, Share
  <2> QED BY <1>1, <2>1, <2>3 DEF CIInv, IInv, Used
<1>2. ASSUME CIInv, ~Amiss, NEW p \in PIDS, NEW q \in PIDS, NEW s \in shares[p], s.pid = q, s.attached,
             channel[p][q] # None, channel[q][p] # None
      PROVE  channel[p][q] = channel[q][p]
  <2>1. IInv /\ OneShare /\ Registered /\ dropped = {}
    BY <1>2 DEF CIInv, Agreed, Amiss
  <2>2. PICK r \in shares[q] : r.pid = p /\ r.block = s.block
    BY <1>2, <2>1, AttachedIsKnown
  <2>3. channel[p][q] = s.block
    BY <1>2, <2>1 DEF OneShare, Registered
  <2>4. channel[q][p] = r.block
    BY <1>2, <2>1, <2>2 DEF OneShare, Registered
  <2> QED BY <2>2, <2>3, <2>4
<1>3. CIInv => live \subseteq PIDS
  BY DEF CIInv, IInv, Typed
<1>4. CIInv => ChannelMapped
  BY <1>1, <1>3 DEF ChannelMapped, Amiss
<1>5. CIInv => SamePages
  BY <1>2, <1>3 DEF SamePages, Amiss
<1>6. CIInv => AttachedIsShared /\ DetachedIsLast
  BY SharesAgree DEF CIInv
<1>7. CIInv => EndsAgree
  BY <1>4, <1>5, <1>6 DEF EndsAgree
<1> QED BY <1>7, ConnectionsInvariance, PTL

-----------------------------------------------------------------------------
(* The share index holds a finite number of shares, within its bound. *)
Bounded(S) == IsFiniteSet(S) /\ Cardinality(S) <= MaxShares

Bounds == \A p \in PIDS : Bounded(shares[p])

LEMMA InsertBounded ==
  ASSUME NEW S, NEW s, Bounded(S)
  PROVE  Bounded(insert(S, s))
<1>1. Cardinality(S) \in Nat /\ MaxShares \in Nat
  BY FS_CardinalityType, SharesAssumption DEF Bounded
<1>2. CASE Cardinality(S) < MaxShares
  <2>1. insert(S, s) = S \cup {s}
    BY <1>2 DEF insert
  <2>2. IsFiniteSet(S \cup {s}) /\ Cardinality(S \cup {s}) \in {Cardinality(S), Cardinality(S) + 1}
    BY FS_AddElement DEF Bounded
  <2>3. Cardinality(S \cup {s}) <= MaxShares
    BY <1>1, <1>2, <2>2
  <2> QED BY <2>1, <2>2, <2>3 DEF Bounded
<1>3. CASE ~(Cardinality(S) < MaxShares)
  BY <1>3 DEF insert
<1> QED BY <1>2, <1>3

LEMMA SubsetBounded ==
  ASSUME NEW S, Bounded(S), NEW T \in SUBSET S PROVE Bounded(T)
<1>1. IsFiniteSet(T) /\ Cardinality(T) <= Cardinality(S) /\ Cardinality(T) \in Nat
      /\ Cardinality(S) \in Nat /\ MaxShares \in Nat
  BY FS_Subset, FS_CardinalityType, SharesAssumption DEF Bounded
<1> QED BY <1>1 DEF Bounded

LEMMA DetachBounded ==
  ASSUME NEW shs \in [PIDS -> SUBSET Share], NEW p \in PIDS, NEW Q,
         NEW q \in PIDS, Bounded(shs[q])
  PROVE  Bounded(detach(shs, p, Q)[q])
<1> DEFINE off(s) == IF s.pid = p THEN [s EXCEPT !.attached = FALSE] ELSE s
           T == {off(s) : s \in shs[q]}
           f == [s \in shs[q] |-> off(s)]
<1>1. detach(shs, p, Q)[q] = IF q \in Q THEN T ELSE shs[q]
  BY DEF detach
<1>2. f \in Surjection(shs[q], T)
  <2> HIDE DEF off
  <2>1. f \in [shs[q] -> T]
    OBVIOUS
  <2>2. \A t \in T : \E s \in shs[q] : f[s] = t
    OBVIOUS
  <2> QED BY <2>1, <2>2 DEF Surjection
<1> HIDE DEF f, T
<1>3. IsFiniteSet(T) /\ Cardinality(T) <= Cardinality(shs[q])
  BY <1>2, FS_Surjection DEF Bounded
<1>4. Cardinality(T) \in Nat /\ Cardinality(shs[q]) \in Nat /\ MaxShares \in Nat
  BY <1>3, FS_CardinalityType, SharesAssumption DEF Bounded
<1>5. Bounded(T)
  BY <1>3, <1>4 DEF Bounded
<1> QED BY <1>1, <1>5

LEMMA SmallBounded ==
  ASSUME NEW s PROVE Bounded({}) /\ Bounded({s})
<1>1. IsFiniteSet({}) /\ Cardinality({}) = 0 /\ IsFiniteSet({s}) /\ Cardinality({s}) = 1
  BY Zenon, FS_EmptySet, FS_Singleton
<1>2. MaxShares \in Nat /\ 0 <= MaxShares /\ 1 <= MaxShares
  BY SharesAssumption
<1> QED BY <1>1, <1>2 DEF Bounded

LEMMA DetachBounds ==
  ASSUME IInv, Bounds, NEW p \in PIDS, NEW Q, NEW T \in SUBSET shares[p],
         shares' = [detach(shares, p, Q) EXCEPT ![p] = T]
  PROVE  Bounds'
<1> DEFINE D == detach(shares, p, Q)
<1>1. shares \in [PIDS -> SUBSET Share]
  BY DEF IInv, Typed
<1>2. D \in [PIDS -> SUBSET Share]
  BY <1>1, DetachShares
<1>3. \A q \in PIDS : Bounded(D[q])
  BY <1>1, DetachBounded DEF Bounds
<1>4. Bounded(T)
  BY SubsetBounded DEF Bounds
<1> HIDE DEF D
<1>5. \A q \in PIDS : shares'[q] = IF q = p THEN T ELSE D[q]
  BY <1>2 DEF D
<1> QED BY <1>3, <1>4, <1>5 DEF Bounds

LEMMA BoundsStep ==
  ASSUME IInv, Bounds, [Next]_vars PROVE Bounds'
<1>1. shares \in [PIDS -> SUBSET Share]
  BY DEF IInv, Typed
<1>2. ASSUME NEW p \in PIDS, Spawn(p) PROVE Bounds'
  <2>1. PICK k : shares' = [shares EXCEPT ![p] = {k}]
    BY Zenon, <1>2 DEF Spawn
  <2>2. Bounded({k})
    BY SmallBounded
  <2>3. \A q \in PIDS : shares'[q] = IF q = p THEN {k} ELSE shares[q]
    BY <1>1, <2>1
  <2> QED BY <2>2, <2>3 DEF Bounds
<1>4. ASSUME NEW p \in PIDS, Kill(p) PROVE Bounds'
  <2>1. PICK Q : shares' = [detach(shares, p, Q) EXCEPT ![p] = {}]
    BY Zenon, <1>4 DEF Kill
  <2>2. {} \in SUBSET shares[p]
    OBVIOUS
  <2> QED BY Zenon, <1>4, <2>1, <2>2, DetachBounds
<1>5. ASSUME NEW p \in PIDS, NEW q \in PIDS, p # q, Delete(p, q) PROVE Bounds'
  <2> DEFINE S == {s \in shares[p] : s.pid = q}
             D == detach(shares, p, Others(S))
  <2>1. shares' = [D EXCEPT ![p] = @ \ S]
    BY <1>5 DEF Delete
  <2>2. D \in [PIDS -> SUBSET Share] /\ D[p] = shares[p]
    <3>1. p \notin Others(S)
      BY <1>5 DEF Others
    <3> HIDE DEF S
    <3> QED BY <1>1, <1>5, <3>1, DetachShares
  <2> HIDE DEF S
  <2>3. shares' = [D EXCEPT ![p] = shares[p] \ S]
    <3> HIDE DEF D
    <3> QED BY <2>1, <2>2
  <2>4. shares[p] \ S \in SUBSET shares[p]
    OBVIOUS
  <2> QED BY Zenon, <1>5, <2>3, <2>4, DetachBounds DEF D
<1>6. ASSUME NEW p \in PIDS, NEW q \in PIDS, NEW t \in Tags, NEW b \in Blocks, Create(p, q, t, b)
      PROVE  Bounds'
  <2>1. p # q /\ \E x, y : shares' = [shares EXCEPT ![p] = insert(@, x), ![q] = insert(@, y)]
    BY Zenon, <1>6 DEF Create
  <2>2. PICK x, y : shares' = [shares EXCEPT ![p] = insert(@, x), ![q] = insert(@, y)]
    BY Zenon, <2>1
  <2>3. Bounded(insert(shares[p], x)) /\ Bounded(insert(shares[q], y))
    BY <1>6, InsertBounded DEF Bounds
  <2>4. ASSUME NEW z \in PIDS
        PROVE  shares'[z] = IF z = p THEN insert(shares[p], x)
                            ELSE IF z = q THEN insert(shares[q], y) ELSE shares[z]
    BY <1>1, <1>6, <2>1, <2>2
  <2> QED BY <2>3, <2>4 DEF Bounds
<1>7. ASSUME shares' = shares PROVE Bounds'
  BY <1>7 DEF Bounds
<1>8. ASSUME NEW p \in PIDS, ReadEvent(p) PROVE shares' = shares
  BY <1>8 DEF ReadEvent
<1>9. ASSUME NEW p \in PIDS, NEW q \in PIDS, NEW t \in Tags, NEW b \in Blocks, CreateFails(p, q, t, b)
      PROVE  shares' = shares
  BY <1>9 DEF CreateFails
<1> QED BY <1>2, <1>4, <1>5, <1>6, <1>7, <1>8, <1>9 DEF Next, vars

(* The share index and the event channel of a process never outgrow their   *)
(* bounds, although createShare() and raiseEvent() ignore that they are     *)
(* full.                                                                    *)
THEOREM TypeCorrect == Spec => []TypeOK
<1>1. Init => IInv /\ Bounds
  <2>1. SUFFICES ASSUME Init PROVE Bounds
    BY InitIInv
  <2> QED BY Zenon, <2>1, SmallBounded DEF Init, Bounds
<1>2. (IInv /\ Bounds) /\ [Next]_vars => (IInv /\ Bounds)'
  BY NextIInv, BoundsStep
<1>3. IInv /\ Bounds => TypeOK
  BY DEF IInv, Bounds, Bounded, TypeOK
<1> QED BY <1>1, <1>2, <1>3, PTL DEF Spec
=============================================================================
