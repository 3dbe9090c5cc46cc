------------------------ MODULE ProcessSharesProofs -------------------------
(* Proofs of the safety of the memory shares. *)
EXTENDS ProcessShares, TLAPS

(* The provers that are tried on a leaf which names none, with their time. *)
USE ZenonT(5), SMTT(30)

(* Shares are equal when their fields are. *)
LEMMA ShareEqual ==
  ASSUME NEW s \in Share, NEW r \in Share,
         s.pid = r.pid, s.tag = r.tag, s.block = r.block, s.attached = r.attached
  PROVE  s = r
  BY DEF Share

(* What detach() makes of a share. *)
Detached(u, s, p, q, Q) ==
  /\ u.pid = s.pid /\ u.tag = s.tag /\ u.block = s.block
  /\ u.attached = (s.attached /\ ~(q \in Q /\ s.pid = p))

(* detach() keeps the types, and every share after it stems from one before *)
(* it and the other way round.                                              *)
LEMMA DetachShares ==
  ASSUME NEW shs \in [PIDS -> SUBSET Share], NEW p \in PIDS, NEW Q
  PROVE  /\ detach(shs, p, Q) \in [PIDS -> SUBSET Share]
         /\ \A q \in PIDS : q \notin Q => detach(shs, p, Q)[q] = shs[q]
         /\ \A q \in PIDS : \A u \in detach(shs, p, Q)[q] : \E s \in shs[q] : Detached(u, s, p, q, Q)
         /\ \A q \in PIDS : \A s \in shs[q] : \E u \in detach(shs, p, Q)[q] : Detached(u, s, p, q, Q)
<1> DEFINE off(s) == IF s.pid = p THEN [s EXCEPT !.attached = FALSE] ELSE s
           D == detach(shs, p, Q)
<1>1. \A s \in Share : /\ off(s) \in Share
                       /\ off(s).pid = s.pid /\ off(s).tag = s.tag /\ off(s).block = s.block
                       /\ off(s).attached = (s.attached /\ ~(s.pid = p))
  BY Zenon DEF Share
<1>2. \A q \in PIDS : D[q] = IF q \in Q THEN {off(s) : s \in shs[q]} ELSE shs[q]
  BY DEF detach
<1>3. ASSUME NEW q \in PIDS, NEW u \in D[q] PROVE u \in Share
  <2> HIDE DEF off, D
  <2>1. shs[q] \subseteq Share
    OBVIOUS
  <2>2. CASE q \in Q
    <3>1. PICK s \in shs[q] : u = off(s)
      BY Zenon, <1>2, <1>3, <2>2
    <3> QED BY <1>1, <2>1, <3>1
  <2>3. CASE q \notin Q
    BY Zenon, <1>2, <1>3, <2>1, <2>3
  <2> QED BY <2>2, <2>3
<1>4. D \in [PIDS -> SUBSET Share]
  <2>1. D = [q \in PIDS |-> D[q]]
    BY DEF detach
  <2> HIDE DEF D
  <2> QED BY <2>1, <1>3
<1>5. ASSUME NEW q \in PIDS, NEW u \in D[q] PROVE \E s \in shs[q] : Detached(u, s, p, q, Q)
  <2>1. CASE q \in Q
    <3>1. PICK s \in shs[q] : u = off(s)
      <4> HIDE DEF off, D
      <4> QED BY Zenon, <1>2, <1>5, <2>1
    <3> HIDE DEF off, D
    <3>2. s \in Share
      OBVIOUS
    <3> QED BY <1>1, <2>1, <3>1, <3>2 DEF Detached
  <2>2. CASE q \notin Q
    <3> HIDE DEF off, D
    <3>1. u \in shs[q] /\ u \in Share
      BY Zenon, <1>2, <1>5, <2>2
    <3>2. Detached(u, u, p, q, Q)
      BY <2>2, <3>1 DEF Detached, Share
    <3> QED BY <3>1, <3>2
  <2> QED BY <2>1, <2>2
<1>6. ASSUME NEW q \in PIDS, NEW s \in shs[q] PROVE \E u \in D[q] : Detached(u, s, p, q, Q)
  <2> s \in Share
    OBVIOUS
  <2>1. CASE q \in Q
    <3> HIDE DEF off, D
    <3>1. off(s) \in D[q]
      BY Zenon, <1>2, <1>6, <2>1
    <3>2. Detached(off(s), s, p, q, Q)
      BY <1>1, <2>1 DEF Detached
    <3> QED BY <3>1, <3>2
  <2>2. CASE q \notin Q
    <3> HIDE DEF off, D
    <3>1. s \in D[q]
      BY Zenon, <1>2, <1>6, <2>2
    <3>2. Detached(s, s, p, q, Q)
      BY <2>2 DEF Detached, Share
    <3> QED BY <3>1, <3>2
  <2> QED BY <2>1, <2>2
<1> HIDE DEF D
<1>7. \A q \in PIDS : q \notin Q => D[q] = shs[q]
  BY Zenon, <1>2
<1> QED BY <1>4, <1>5, <1>6, <1>7 DEF D

-----------------------------------------------------------------------------
(* The processes with shares exist. *)
LEMMA SharersLive ==
  ASSUME Used, NEW q \in PIDS, NEW s \in shares[q] PROVE q \in live
  BY DEF Used

(* What releaseShare() does to the shares S of process p, all that p has    *)
(* with some processes: Kill releases all of them, Delete those with one    *)
(* process.                                                                 *)
Release(p, S) ==
  /\ S \subseteq shares[p]
  /\ \A s \in S, r \in shares[p] : s.pid = r.pid => r \in S
  /\ shares' = [detach(shares, p, Others(S) \ {p}) EXCEPT ![p] = shares[p] \ S]
  /\ free' = free \cup released(S)
  /\ \A q \in PIDS \ {p} : mapped'[q] = mapped[q]
  /\ mapped'[p] = mapped[p] \ Blocked(S) \/ (mapped'[p] = {} /\ S = shares[p])
  /\ dropped' = dropped
  /\ live' \subseteq live /\ live \ {p} \subseteq live'
  /\ p \notin live' => S = shares[p] /\ mapped'[p] = {}

(* The shares after a release, and where they stem from. *)
LEMMA ReleaseShares ==
  ASSUME Typed, NEW p \in PIDS, NEW S, Release(p, S)
  PROVE  /\ shares' \in [PIDS -> SUBSET Share]
         /\ shares'[p] = shares[p] \ S
         /\ \A q \in PIDS \ {p} : \A u \in shares'[q] :
              \E s \in shares[q] : Detached(u, s, p, q, Others(S) \ {p})
         /\ \A q \in PIDS \ {p} : \A s \in shares[q] :
              \E u \in shares'[q] : Detached(u, s, p, q, Others(S) \ {p})
<1> DEFINE Q == Others(S) \ {p}
           D == detach(shares, p, Q)
<1>1. shares \in [PIDS -> SUBSET Share]
  BY DEF Typed
<1>2. /\ D \in [PIDS -> SUBSET Share]
      /\ \A q \in PIDS : \A u \in D[q] : \E s \in shares[q] : Detached(u, s, p, q, Q)
      /\ \A q \in PIDS : \A s \in shares[q] : \E u \in D[q] : Detached(u, s, p, q, Q)
  BY Zenon, <1>1, DetachShares
<1>3. shares' = [D EXCEPT ![p] = shares[p] \ S]
  BY DEF Release
<1> HIDE DEF D, Q
<1>4. shares[p] \ S \in SUBSET Share
  BY <1>1
<1>5. /\ shares' \in [PIDS -> SUBSET Share]
      /\ shares'[p] = shares[p] \ S
      /\ \A q \in PIDS \ {p} : shares'[q] = D[q]
  BY <1>2, <1>3, <1>4
<1> QED BY Zenon, <1>2, <1>5 DEF Q

(* An attached share still has its other half after a release. *)
LEMMA ReleasePairs ==
  ASSUME Typed, Pairs, Used, NEW p \in PIDS, NEW S, Release(p, S)
  PROVE  Pairs'
<1> DEFINE Q == Others(S) \ {p}
<1>1. /\ shares'[p] = shares[p] \ S
      /\ \A q \in PIDS \ {p} : \A u \in shares'[q] : \E s \in shares[q] : Detached(u, s, p, q, Q)
      /\ \A q \in PIDS \ {p} : \A s \in shares[q] : \E u \in shares'[q] : Detached(u, s, p, q, Q)
  BY Zenon, ReleaseShares
<1>2. /\ S \subseteq shares[p] /\ \A s \in S, r \in shares[p] : s.pid = r.pid => r \in S
      /\ dropped' = dropped
      /\ live' \subseteq live /\ live \ {p} \subseteq live'
      /\ p \notin live' => S = shares[p]
  BY DEF Release
<1>3. \A q : q \in Q <=> q # p /\ q \in live /\ \E s \in S : s.attached /\ s.pid = q
  BY DEF Others
<1>4. live \subseteq PIDS
  BY DEF Typed
<1> HIDE DEF Q
<1> SUFFICES ASSUME NEW q \in PIDS, NEW u \in shares'[q], u.attached, u.block \notin dropped
             PROVE  /\ u.pid \in live' \ {q}
                    /\ \E r \in shares'[u.pid] : r.pid = q /\ r.block = u.block /\ r.attached
  BY <1>2 DEF Pairs
<1>5. CASE q = p
  <2>1. u \in shares[p] /\ u \notin S
    BY <1>1, <1>5
  <2>2. u.pid \in live \ {p} /\ \E r \in shares[u.pid] : r.pid = p /\ r.block = u.block /\ r.attached
    BY <2>1 DEF Pairs
  <2>3. PICK r \in shares[u.pid] : r.pid = p /\ r.block = u.block /\ r.attached
    BY <2>2
  <2>4. u.pid \in PIDS \ {p} /\ u.pid \in live'
    BY <2>2, <1>2, <1>4
  <2>5. u.pid \notin Q
    BY <1>2, <1>3, <2>1
  <2>6. PICK v \in shares'[u.pid] : Detached(v, r, p, u.pid, Q)
    BY <1>1, <2>4
  <2>7. v.pid = p /\ v.block = u.block /\ v.attached
    BY Zenon, <2>3, <2>5, <2>6 DEF Detached
  <2> QED BY <1>5, <2>4, <2>7
<1>6. CASE q # p
  <2>1. PICK s \in shares[q] : Detached(u, s, p, q, Q)
    BY <1>1, <1>6
  <2>2. s.attached /\ s.block \notin dropped /\ ~(q \in Q /\ s.pid = p) /\ u.pid = s.pid /\ u.block = s.block
    BY Zenon, <2>1 DEF Detached
  <2>3. s.pid \in live \ {q} /\ \E r \in shares[s.pid] : r.pid = q /\ r.block = s.block /\ r.attached
    BY <2>2 DEF Pairs
  <2>4. PICK r \in shares[s.pid] : r.pid = q /\ r.block = s.block /\ r.attached
    BY <2>3
  <2>5. q \in live
    BY SharersLive
  <2>6. CASE s.pid = p
    <3>1. q \notin Q
      BY <2>2, <2>6
    <3>2. r \in shares[p] /\ r \notin S
      BY <1>3, <1>6, <2>4, <2>5, <2>6, <3>1
    <3>3. r \in shares'[p] /\ p \in live'
      BY <1>1, <1>2, <3>2
    <3> QED BY <1>6, <2>2, <2>4, <2>6, <3>3
  <2>7. CASE s.pid # p
    <3>1. s.pid \in PIDS \ {p} /\ s.pid \in live'
      BY <1>2, <1>4, <2>3, <2>7
    <3>2. PICK v \in shares'[s.pid] : Detached(v, r, p, s.pid, Q)
      BY <1>1, <3>1
    <3>3. v.pid = q /\ v.block = s.block /\ v.attached
      BY Zenon, <1>6, <2>4, <3>2 DEF Detached
    <3> QED BY <2>2, <2>3, <3>1, <3>3
  <2> QED BY <2>6, <2>7
<1> QED BY <1>5, <1>6

(* The origin of any share after a release. *)
LEMMA ReleaseOrigin ==
  ASSUME Typed, NEW p \in PIDS, NEW S, Release(p, S)
  PROVE  \A q \in PIDS : \A u \in shares'[q] :
           \E s \in shares[q] : /\ Detached(u, s, p, q, Others(S) \ {p})
                                /\ q = p => s = u /\ s \notin S
<1> TAKE q \in PIDS
<1> TAKE u \in shares'[q]
<1>1. shares'[p] = shares[p] \ S
  BY Zenon, ReleaseShares
<1>2. CASE q = p
  <2>1. u \in shares[p] /\ u \notin S
    BY <1>1, <1>2
  <2>2. u \in Share
    BY <2>1 DEF Typed
  <2>3. Detached(u, u, p, q, Others(S) \ {p})
    BY <1>2, <2>2 DEF Detached, Share
  <2> QED BY <1>2, <2>1, <2>3
<1>3. CASE q # p
  BY Zenon, <1>3, ReleaseShares
<1> QED BY <1>2, <1>3

(* The shares that are left still have their pages for themselves. *)
LEMMA ReleaseExclusive ==
  ASSUME Typed, Exclusive, NEW p \in PIDS, NEW S, Release(p, S)
  PROVE  Exclusive'
<1> DEFINE Q == Others(S) \ {p}
<1>1. shares' \in [PIDS -> SUBSET Share]
  BY Zenon, ReleaseShares
<1>2. /\ \A s \in S, r \in shares[p] : s.pid = r.pid => r \in S
      /\ dropped' = dropped
  BY DEF Release
<1>3. \A q : q \in Q => \E s \in S : s.pid = q
  BY DEF Others
<1>4. ASSUME NEW x \in PIDS, NEW y \in PIDS, x # y, NEW s \in shares[x], NEW r \in shares[y],
             NEW u, Detached(u, s, p, x, Q), s.attached, s.pid = y, r.pid = x,
             y = p => r \notin S
      PROVE  u.attached
  <2>1. ~(x \in Q /\ y = p)
    <3> HIDE DEF Q
    <3> QED BY <1>2, <1>3, <1>4
  <2> QED BY Zenon, <1>4, <2>1 DEF Detached
<1> SUFFICES ASSUME NEW x \in PIDS, NEW y \in PIDS, NEW u \in shares'[x], NEW v \in shares'[y],
                    u.block = v.block, u.block \notin dropped
             PROVE  IF x = y THEN u = v ELSE u.attached /\ v.attached /\ u.pid = y /\ v.pid = x
  BY <1>2 DEF Exclusive
<1>10. \A q \in PIDS : \A w \in shares'[q] :
        \E s \in shares[q] : Detached(w, s, p, q, Q) /\ (q = p => s = w /\ s \notin S)
  BY Zenon, ReleaseOrigin
<1>5. PICK s \in shares[x] : Detached(u, s, p, x, Q) /\ (x = p => s = u /\ s \notin S)
  BY <1>10
<1>6. PICK r \in shares[y] : Detached(v, r, p, y, Q) /\ (y = p => r = v /\ r \notin S)
  BY <1>10
<1> HIDE DEF Q
<1>7. s.block = r.block /\ s.block \notin dropped /\ u.pid = s.pid /\ v.pid = r.pid
  BY Zenon, <1>5, <1>6 DEF Detached
<1>8. CASE x = y
  <2>1. s = r
    BY <1>7, <1>8 DEF Exclusive
  <2>2. u \in Share /\ v \in Share
    BY <1>1
  <2>3. u.pid = v.pid /\ u.tag = v.tag /\ u.block = v.block /\ u.attached = v.attached
    BY <1>5, <1>6, <1>8, <2>1 DEF Detached
  <2>4. u = v
    BY <2>2, <2>3, ShareEqual
  <2> QED BY <1>8, <2>4
<1>9. CASE x # y
  <2>1. s.attached /\ r.attached /\ s.pid = y /\ r.pid = x
    BY <1>7, <1>9 DEF Exclusive
  <2>2. u.attached
    BY <1>4, <1>5, <1>6, <1>9, <2>1
  <2>3. v.attached
    BY <1>4, <1>5, <1>6, <1>9, <2>1
  <2> QED BY <1>7, <1>9, <2>1, <2>2, <2>3
<1> QED BY <1>8, <1>9

(* What is mapped still matches the shares, and nothing of it is free. *)
LEMMA ReleaseUsed ==
  ASSUME Typed, Exclusive, Used, NEW p \in PIDS, NEW S, Release(p, S)
  PROVE  Used'
<1> DEFINE Q == Others(S) \ {p}
<1>1. /\ shares'[p] = shares[p] \ S
      /\ \A q \in PIDS \ {p} : \A u \in shares'[q] : \E s \in shares[q] : Detached(u, s, p, q, Q)
      /\ \A q \in PIDS \ {p} : \A s \in shares[q] : \E u \in shares'[q] : Detached(u, s, p, q, Q)
  BY Zenon, ReleaseShares
<1> HIDE DEF Q
<1>2. /\ S \subseteq shares[p] /\ dropped' = dropped
      /\ live \ {p} \subseteq live'
      /\ free' = free \cup released(S)
      /\ \A q \in PIDS \ {p} : mapped'[q] = mapped[q]
      /\ mapped'[p] = mapped[p] \ Blocked(S) \/ (mapped'[p] = {} /\ S = shares[p])
      /\ p \notin live' => S = shares[p] /\ mapped'[p] = {}
  BY DEF Release
<1> SUFFICES ASSUME NEW q \in PIDS
             PROVE  /\ q \notin live' => shares'[q] = {} /\ mapped'[q] = {}
                    /\ \A b \in Blocks \ dropped : b \in mapped'[q] <=> \E s \in shares'[q] : s.block = b
                    /\ mapped'[q] \cap free' \subseteq dropped
  BY <1>2 DEF Used
<1>3. \A b : b \in Blocked(S) <=> \E s \in S : s.block = b
  BY DEF Blocked
<1>4. \A b \in released(S) : \E s \in S : s.block = b /\ ~s.attached
  BY DEF released, Blocked
<1>5. released(S) \subseteq Blocked(S)
  BY DEF released, Blocked
<1>6. CASE q = p
  <2>1. q \notin live' => shares'[q] = {} /\ mapped'[q] = {}
    BY <1>1, <1>2, <1>6
  <2>2. ASSUME NEW b \in Blocks \ dropped
        PROVE  b \in mapped'[q] <=> \E s \in shares'[q] : s.block = b
    <3>1. b \in mapped[p] <=> \E s \in shares[p] : s.block = b
      BY <2>2 DEF Used
    <3>2. ASSUME NEW s \in shares[p], s \notin S, s.block = b PROVE b \notin Blocked(S)
      BY <1>2, <1>3, <2>2, <3>2 DEF Exclusive
    <3>3. b \in mapped'[q] => \E s \in shares'[q] : s.block = b
      BY <1>1, <1>2, <1>3, <1>6, <3>1
    <3>4. ASSUME NEW s \in shares'[q], s.block = b PROVE b \in mapped'[q]
      BY <1>1, <1>2, <1>6, <3>1, <3>2, <3>4
    <3> QED BY <3>3, <3>4
  <2>3. mapped'[q] \cap free' \subseteq dropped
    <3>1. mapped[p] \cap free \subseteq dropped
      BY DEF Used
    <3> QED BY <1>2, <1>5, <1>6, <3>1
  <2> QED BY <2>1, <2>2, <2>3
<1>7. CASE q # p
  <2>1. q \notin live' => shares'[q] = {} /\ mapped'[q] = {}
    <3>1. SUFFICES ASSUME q \notin live' PROVE shares'[q] = {} /\ mapped'[q] = {}
      OBVIOUS
    <3>2. q \notin live
      BY <1>2, <1>7, <3>1
    <3>3. shares[q] = {} /\ mapped[q] = {}
      BY <3>2 DEF Used
    <3> QED BY <1>1, <1>2, <1>7, <3>3
  <2>2. ASSUME NEW b \in Blocks \ dropped
        PROVE  b \in mapped'[q] <=> \E s \in shares'[q] : s.block = b
    <3>1. b \in mapped[q] <=> \E s \in shares[q] : s.block = b
      BY <2>2 DEF Used
    <3>2. (\E s \in shares[q] : s.block = b) <=> \E u \in shares'[q] : u.block = b
      BY <1>1, <1>7 DEF Detached
    <3> QED BY <1>2, <1>7, <3>1, <3>2
  <2>3. ASSUME NEW b \in mapped'[q], b \in free', b \notin dropped PROVE FALSE
    <3>1. b \in mapped[q] /\ b \in Blocks
      BY <1>2, <1>7, <2>3 DEF Typed
    <3>2. b \notin free
      BY <2>3, <3>1 DEF Used
    <3>3. PICK s \in S : s.block = b /\ ~s.attached
      BY <1>2, <1>4, <2>3, <3>2
    <3>4. PICK r \in shares[q] : r.block = b
      BY <2>3, <3>1 DEF Used
    <3>5. s \in shares[p]
      BY <1>2
    <3> QED BY <1>7, <2>3, <3>3, <3>4, <3>5 DEF Exclusive
  <2> QED BY <2>1, <2>2, <2>3
<1> QED BY <1>6, <1>7

(* No page is lost by a release. *)
LEMMA ReleaseAccounted ==
  ASSUME Typed, Pairs, PagesAccounted, NEW p \in PIDS, NEW S, Release(p, S)
  PROVE  PagesAccounted'
<1> DEFINE Q == Others(S) \ {p}
<1>1. /\ shares'[p] = shares[p] \ S
      /\ \A q \in PIDS \ {p} : \A s \in shares[q] : \E u \in shares'[q] : Detached(u, s, p, q, Q)
  BY Zenon, ReleaseShares
<1> HIDE DEF Q
<1>2. /\ S \subseteq shares[p] /\ dropped' = dropped
      /\ live \ {p} \subseteq live'
      /\ free' = free \cup released(S)
      /\ p \notin live' => S = shares[p]
  BY DEF Release
<1>3. \A s \in S : ~s.attached => s.block \in released(S)
  BY DEF released, Blocked
<1>4. live \subseteq PIDS
  BY DEF Typed
<1>5. ASSUME NEW q \in live \ {p}, NEW s \in shares[q]
      PROVE  q \in live' /\ \E u \in shares'[q] : u.block = s.block
  BY <1>1, <1>2, <1>4, <1>5 DEF Detached
<1> SUFFICES ASSUME NEW b \in Blocks, b \notin free', b \notin dropped
             PROVE  \E q \in live' : \E u \in shares'[q] : u.block = b
  BY <1>2 DEF PagesAccounted, Blocked
<1>6. PICK q \in live : \E s \in shares[q] : s.block = b
  BY <1>2 DEF PagesAccounted, Blocked
<1>7. PICK s \in shares[q] : s.block = b
  BY <1>6
<1>8. CASE q # p
  BY <1>5, <1>7, <1>8
<1>9. CASE q = p /\ s \notin S
  BY <1>1, <1>2, <1>7, <1>9
<1>10. CASE q = p /\ s \in S
  <2>1. s.attached
    BY <1>2, <1>3, <1>7, <1>10
  <2>2. s.pid \in live \ {p} /\ \E r \in shares[s.pid] : r.block = s.block
    BY <1>4, <1>7, <1>10, <2>1 DEF Pairs
  <2>3. PICK r \in shares[s.pid] : r.block = s.block
    BY <2>2
  <2> QED BY <1>5, <1>7, <2>2, <2>3
<1> QED BY <1>8, <1>9, <1>10

-----------------------------------------------------------------------------
(* A free block that was not dropped has no share. *)
LEMMA FreeUnshared ==
  ASSUME Typed, Used, NEW b \in free, b \notin dropped, NEW q \in PIDS, NEW s \in shares[q]
  PROVE  s.block # b
  BY DEF Typed, Used

(* What Create does, as far as the invariant is concerned: local and remote *)
(* are added, or at least one of them is not and the block is dropped.      *)
Extend(p, q, b, local, remote) ==
  /\ p \in live /\ q \in live /\ p # q /\ b \in free
  /\ local \in Share /\ local.pid = q /\ local.block = b /\ local.attached
  /\ remote \in Share /\ remote.pid = p /\ remote.block = b /\ remote.attached
  /\ shares' \in [PIDS -> SUBSET Share]
  /\ shares'[p] = shares[p] \/ shares'[p] = shares[p] \cup {local}
  /\ shares'[q] = shares[q] \/ shares'[q] = shares[q] \cup {remote}
  /\ \A x \in PIDS \ {p, q} : shares'[x] = shares[x]
  /\ \/ dropped' = dropped /\ local \in shares'[p] /\ remote \in shares'[q]
     \/ dropped' = dropped \cup {b}
  /\ free' = free \ {b}
  /\ live' = live
  /\ mapped'[p] = mapped[p] \cup {b} /\ mapped'[q] = mapped[q] \cup {b}
  /\ \A x \in PIDS \ {p, q} : mapped'[x] = mapped[x]

(* A share after Extend is an old one, or one of the two new ones. *)
LEMMA ExtendShares ==
  ASSUME NEW p \in PIDS, NEW q \in PIDS, NEW b, NEW local, NEW remote,
         Extend(p, q, b, local, remote)
  PROVE  /\ \A x \in PIDS : shares[x] \subseteq shares'[x]
         /\ \A x \in PIDS : \A u \in shares'[x] :
              u \in shares[x] \/ (x = p /\ u = local) \/ (x = q /\ u = remote)
         /\ dropped \subseteq dropped'
         /\ b \notin dropped' => dropped' = dropped /\ local \in shares'[p] /\ remote \in shares'[q]
  BY DEF Extend

LEMMA ExtendPairs ==
  ASSUME Typed, Pairs, NEW p \in PIDS, NEW q \in PIDS, NEW b, NEW local, NEW remote,
         Extend(p, q, b, local, remote)
  PROVE  Pairs'
<1>1. /\ \A x \in PIDS : shares[x] \subseteq shares'[x]
      /\ \A x \in PIDS : \A u \in shares'[x] :
           u \in shares[x] \/ (x = p /\ u = local) \/ (x = q /\ u = remote)
      /\ dropped \subseteq dropped'
      /\ b \notin dropped' => dropped' = dropped /\ local \in shares'[p] /\ remote \in shares'[q]
  BY ExtendShares
<1>2. /\ p \in live /\ q \in live /\ p # q /\ live' = live
      /\ local.pid = q /\ local.block = b /\ local.attached
      /\ remote.pid = p /\ remote.block = b /\ remote.attached
  BY DEF Extend
<1>3. live \subseteq PIDS
  BY DEF Typed
<1> SUFFICES ASSUME NEW x \in PIDS, NEW u \in shares'[x], u.attached, u.block \notin dropped'
             PROVE  /\ u.pid \in live \ {x}
                    /\ \E r \in shares'[u.pid] : r.pid = x /\ r.block = u.block /\ r.attached
  BY <1>2 DEF Pairs
<1>4. CASE u \in shares[x]
  <2>1. u.pid \in live \ {x} /\ \E r \in shares[u.pid] : r.pid = x /\ r.block = u.block /\ r.attached
    BY <1>1, <1>4 DEF Pairs
  <2> QED BY <1>1, <1>3, <2>1
<1>5. CASE x = p /\ u = local
  BY <1>1, <1>2, <1>5
<1>6. CASE x = q /\ u = remote
  BY <1>1, <1>2, <1>6
<1> QED BY <1>1, <1>4, <1>5, <1>6

LEMMA ExtendExclusive ==
  ASSUME Typed, Exclusive, Used, NEW p \in PIDS, NEW q \in PIDS, NEW b, NEW local, NEW remote,
         Extend(p, q, b, local, remote)
  PROVE  Exclusive'
<1>1. /\ \A x \in PIDS : \A u \in shares'[x] :
           u \in shares[x] \/ (x = p /\ u = local) \/ (x = q /\ u = remote)
      /\ dropped \subseteq dropped'
      /\ b \notin dropped' => dropped' = dropped
  BY ExtendShares
<1>2. /\ p # q /\ b \in free
      /\ local.pid = q /\ local.block = b /\ local.attached
      /\ remote.pid = p /\ remote.block = b /\ remote.attached
  BY DEF Extend
<1> SUFFICES ASSUME NEW x \in PIDS, NEW y \in PIDS, NEW u \in shares'[x], NEW v \in shares'[y],
                    u.block = v.block, u.block \notin dropped'
             PROVE  IF x = y THEN u = v ELSE u.attached /\ v.attached /\ u.pid = y /\ v.pid = x
  BY DEF Exclusive
<1>3. CASE u.block = b
  <2>1. b \notin dropped
    BY <1>1, <1>3
  <2>2. u \notin shares[x] /\ v \notin shares[y]
    BY Zenon, <1>2, <1>3, <2>1, FreeUnshared
  <2>3. (x = p /\ u = local) \/ (x = q /\ u = remote)
    BY <1>1, <2>2
  <2>4. (y = p /\ v = local) \/ (y = q /\ v = remote)
    BY <1>1, <2>2
  <2> QED BY <1>2, <2>3, <2>4
<1>4. CASE u.block # b
  <2>1. u \in shares[x] /\ v \in shares[y]
    BY <1>1, <1>2, <1>4
  <2> QED BY <1>1, <2>1 DEF Exclusive
<1> QED BY <1>3, <1>4

LEMMA ExtendUsed ==
  ASSUME Typed, Used, NEW p \in PIDS, NEW q \in PIDS, NEW b, NEW local, NEW remote,
         Extend(p, q, b, local, remote)
  PROVE  Used'
<1>1. /\ \A x \in PIDS : shares[x] \subseteq shares'[x]
      /\ \A x \in PIDS : \A u \in shares'[x] :
           u \in shares[x] \/ (x = p /\ u = local) \/ (x = q /\ u = remote)
      /\ dropped \subseteq dropped'
      /\ b \notin dropped' => dropped' = dropped /\ local \in shares'[p] /\ remote \in shares'[q]
  BY ExtendShares
<1>2. /\ p \in live /\ q \in live /\ live' = live /\ b \in free /\ free' = free \ {b}
      /\ local.block = b /\ remote.block = b
      /\ mapped'[p] = mapped[p] \cup {b} /\ mapped'[q] = mapped[q] \cup {b}
      /\ \A x \in PIDS \ {p, q} : mapped'[x] = mapped[x] /\ shares'[x] = shares[x]
  BY DEF Extend
<1> SUFFICES ASSUME NEW x \in PIDS
             PROVE  /\ x \notin live => shares'[x] = {} /\ mapped'[x] = {}
                    /\ \A c \in Blocks \ dropped' : c \in mapped'[x] <=> \E s \in shares'[x] : s.block = c
                    /\ mapped'[x] \cap free' \subseteq dropped'
  BY <1>2 DEF Used
<1>3. x \notin live => shares'[x] = {} /\ mapped'[x] = {}
  BY <1>2 DEF Used
<1>4. ASSUME NEW c \in Blocks \ dropped' PROVE c \in mapped'[x] <=> \E s \in shares'[x] : s.block = c
  <2>1. c \in mapped[x] <=> \E s \in shares[x] : s.block = c
    BY <1>1, <1>4 DEF Used
  <2>2. CASE c = b
    <3>1. x \notin {p, q} => (c \in mapped'[x] <=> \E s \in shares'[x] : s.block = c)
      BY <1>2, <2>1
    <3>2. x \in {p, q} => c \in mapped'[x] /\ \E s \in shares'[x] : s.block = c
      BY <1>1, <1>2, <1>4, <2>2
    <3> QED BY <3>1, <3>2
  <2>3. CASE c # b
    <3>1. c \in mapped'[x] <=> c \in mapped[x]
      BY <1>2, <2>3
    <3>2. (\E s \in shares'[x] : s.block = c) <=> \E s \in shares[x] : s.block = c
      BY <1>1, <1>2, <2>3
    <3> QED BY <2>1, <3>1, <3>2
  <2> QED BY <2>2, <2>3
<1>5. mapped'[x] \cap free' \subseteq dropped'
  <2>1. mapped[x] \cap free \subseteq dropped
    BY DEF Used
  <2>2. mapped'[x] \subseteq mapped[x] \cup {b}
    BY <1>2
  <2> QED BY <1>1, <1>2, <2>1, <2>2
<1> QED BY <1>3, <1>4, <1>5

LEMMA ExtendAccounted ==
  ASSUME Typed, PagesAccounted, NEW p \in PIDS, NEW q \in PIDS, NEW b, NEW local, NEW remote,
         Extend(p, q, b, local, remote)
  PROVE  PagesAccounted'
<1>1. /\ \A x \in PIDS : shares[x] \subseteq shares'[x]
      /\ dropped \subseteq dropped'
      /\ b \notin dropped' => local \in shares'[p]
  BY ExtendShares
<1>2. p \in live /\ live' = live /\ free' = free \ {b} /\ local.block = b
  BY DEF Extend
<1>3. live \subseteq PIDS
  BY DEF Typed
<1> SUFFICES ASSUME NEW c \in Blocks, c \notin free', c \notin dropped'
             PROVE  \E x \in live : \E u \in shares'[x] : u.block = c
  BY <1>2 DEF PagesAccounted, Blocked
<1>4. CASE c = b
  BY <1>1, <1>2, <1>4
<1>5. CASE c # b
  <2>1. c \notin free /\ c \notin dropped
    BY <1>1, <1>2, <1>5
  <2>2. PICK x \in live : \E s \in shares[x] : s.block = c
    BY <2>1 DEF PagesAccounted, Blocked
  <2> QED BY <1>1, <1>3, <2>2
<1> QED BY <1>4, <1>5

-----------------------------------------------------------------------------
(* Index::insert adds the share or does nothing. *)
LEMMA InsertAdds ==
  ASSUME NEW S, NEW s PROVE insert(S, s) = S \/ insert(S, s) = S \cup {s}
  BY DEF insert

(* The limit of the event channels. *)
EventsOK(evs) == evs \in [PIDS -> Seq(Event)] /\ \A p \in PIDS : Len(evs[p]) <= MaxEvents

LEMMA RaiseOK ==
  ASSUME NEW evs, EventsOK(evs), NEW Q, NEW e \in Event
  PROVE  EventsOK(raise(evs, Q, e))
<1> DEFINE R == raise(evs, Q, e)
<1>1. ASSUME NEW p \in PIDS PROVE R[p] \in Seq(Event) /\ Len(R[p]) <= MaxEvents
  <2>1. evs[p] \in Seq(Event) /\ Len(evs[p]) <= MaxEvents /\ Len(evs[p]) \in Nat /\ MaxEvents \in Nat
    BY <1>1, SharesAssumption DEF EventsOK
  <2>2. Append(evs[p], e) \in Seq(Event) /\ Len(Append(evs[p], e)) = Len(evs[p]) + 1
    BY <2>1
  <2>3. CASE p \in Q /\ Len(evs[p]) < MaxEvents
    <3>1. R[p] = Append(evs[p], e)
      BY <1>1, <2>3 DEF raise
    <3> HIDE DEF R
    <3> QED BY <2>1, <2>2, <2>3, <3>1
  <2>4. CASE ~(p \in Q /\ Len(evs[p]) < MaxEvents)
    <3>1. R[p] = evs[p]
      BY <1>1, <2>4 DEF raise
    <3> QED BY <2>1, <3>1
  <2> QED BY <2>3, <2>4
<1>2. R = [p \in PIDS |-> R[p]]
  BY DEF raise
<1> HIDE DEF R
<1>3. R \in [PIDS -> Seq(Event)]
  BY <1>1, <1>2
<1> QED BY <1>1, <1>3 DEF EventsOK, R

(* The type invariant, with its parts named. *)
LEMMA Types ==
  Typed <=>
    /\ live \subseteq PIDS /\ shares \in [PIDS -> SUBSET Share]
    /\ mapped \in [PIDS -> SUBSET Blocks] /\ free \subseteq Blocks
    /\ EventsOK(events)
    /\ dropped \subseteq Blocks /\ missed \subseteq live
  BY DEF Typed, EventsOK

(* The blocks of shares are blocks. *)
LEMMA BlocksOfShares ==
  ASSUME NEW S \in SUBSET Share
  PROVE  Blocked(S) \subseteq Blocks /\ released(S) \subseteq Blocks
<1>1. \A s \in S : s.block \in Blocks
  BY DEF Share
<1> QED BY <1>1 DEF Blocked, released

(* A release keeps the types. *)
LEMMA ReleaseTypes ==
  ASSUME Typed, NEW p \in PIDS, NEW S, Release(p, S)
  PROVE  /\ shares' \in [PIDS -> SUBSET Share]
         /\ free' \subseteq Blocks
<1>1. shares \in [PIDS -> SUBSET Share] /\ free \subseteq Blocks
  BY Types
<1>2. shares' \in [PIDS -> SUBSET Share] /\ shares'[p] = shares[p] \ S
  BY Zenon, ReleaseShares
<1>3. S \in SUBSET Share /\ free' = free \cup released(S)
  BY <1>1 DEF Release
<1>4. free' \subseteq Blocks
  BY <1>1, <1>3, BlocksOfShares
<1> QED BY <1>2, <1>4

-----------------------------------------------------------------------------
(* Every step preserves the inductive invariant. *)

LEMMA ReleaseStep ==
  ASSUME IInv, NEW p \in PIDS, NEW S, Release(p, S),
         mapped' \in [PIDS -> SUBSET Blocks], EventsOK(events'), missed' \subseteq live'
  PROVE  IInv'
<1>1. Typed /\ Pairs /\ Exclusive /\ Used /\ PagesAccounted
  BY DEF IInv
<1>2. Pairs' /\ Exclusive' /\ Used' /\ PagesAccounted'
  BY <1>1, ReleasePairs, ReleaseExclusive, ReleaseUsed, ReleaseAccounted
<1>3. /\ shares' \in [PIDS -> SUBSET Share]
      /\ free' \subseteq Blocks
  BY <1>1, ReleaseTypes
<1>4. live' \subseteq PIDS /\ dropped' \subseteq Blocks
  BY <1>1 DEF Release, Typed
<1>5. Typed'
  BY <1>3, <1>4 DEF Typed, EventsOK
<1> QED BY <1>2, <1>5 DEF IInv

LEMMA KillStep ==
  ASSUME IInv, NEW p \in PIDS, Kill(p)
  PROVE  IInv'
<1> DEFINE peers == {s.pid : s \in shares[p]} \cap (live \ {p})
           e == [type |-> "ProcessTerminated", pid |-> p]
           S == shares[p]
<1>1. Typed
  BY DEF IInv
<1>2. /\ live \subseteq PIDS /\ shares \in [PIDS -> SUBSET Share]
      /\ mapped \in [PIDS -> SUBSET Blocks] /\ EventsOK(events) /\ missed \subseteq live
  BY <1>1, Types
<1>3. /\ p \in live /\ live' = live \ {p}
      /\ shares' = [detach(shares, p, Others(S) \ {p}) EXCEPT ![p] = {}]
      /\ free' = free \cup released(S)
      /\ mapped' = [mapped EXCEPT ![p] = {}]
      /\ events' = [raise(events, peers, e) EXCEPT ![p] = << >>]
      /\ missed' = (missed \cup Full(peers)) \ {p}
      /\ dropped' = dropped
  BY DEF Kill
<1>4. mapped' \in [PIDS -> SUBSET Blocks] /\ mapped'[p] = {} /\ \A q \in PIDS \ {p} : mapped'[q] = mapped[q]
  BY <1>2, <1>3
<1>5. EventsOK(events')
  <2> DEFINE R == raise(events, peers, e)
  <2>1. EventsOK(R)
    <3>1. e \in Event
      BY DEF Event
    <3> HIDE DEF e, peers
    <3> QED BY <1>2, <3>1, RaiseOK
  <2>2. events' = [R EXCEPT ![p] = << >>]
    BY <1>3
  <2>3. << >> \in Seq(Event) /\ Len(<< >>) = 0 /\ 0 <= MaxEvents
    BY SharesAssumption
  <2> HIDE DEF R
  <2>4. events' \in [PIDS -> Seq(Event)]
    BY <2>1, <2>2, <2>3 DEF EventsOK
  <2>5. ASSUME NEW q \in PIDS PROVE Len(events'[q]) <= MaxEvents
    <3>1. events'[q] = IF q = p THEN << >> ELSE R[q]
      BY <2>1, <2>2, <2>5 DEF EventsOK
    <3> QED BY <2>1, <2>3, <2>5, <3>1 DEF EventsOK
  <2> QED BY <2>4, <2>5 DEF EventsOK
<1>6. missed' \subseteq live'
  BY <1>2, <1>3 DEF Full
<1>7. Release(p, S)
  <2>1. shares[p] \ S = {}
    OBVIOUS
  <2>2. shares' = [detach(shares, p, Others(S) \ {p}) EXCEPT ![p] = shares[p] \ S]
    BY Zenon, <1>3, <2>1
  <2> HIDE DEF e, peers
  <2> QED BY Zenon, <1>2, <1>3, <1>4, <2>2 DEF Release
<1> QED BY <1>4, <1>5, <1>6, <1>7, ReleaseStep

LEMMA DeleteStep ==
  ASSUME IInv, NEW p \in PIDS, NEW q \in PIDS, p # q, Delete(p, q)
  PROVE  IInv'
<1> DEFINE S == {s \in shares[p] : s.pid = q}
<1>1. Typed
  BY DEF IInv
<1>2. /\ shares \in [PIDS -> SUBSET Share] /\ mapped \in [PIDS -> SUBSET Blocks]
      /\ EventsOK(events) /\ missed \subseteq live
  BY <1>1, Types
<1>3. /\ p \in live
      /\ shares' = [detach(shares, p, Others(S)) EXCEPT ![p] = @ \ S]
      /\ free' = free \cup released(S)
      /\ mapped' = [mapped EXCEPT ![p] = @ \ Blocked(S)]
      /\ live' = live /\ events' = events /\ dropped' = dropped /\ missed' = missed
  BY DEF Delete
<1>4. S \subseteq shares[p] /\ \A s \in S, r \in shares[p] : s.pid = r.pid => r \in S
  OBVIOUS
<1>5. Others(S) = Others(S) \ {p} /\ p \notin Others(S)
  BY DEF Others
<1> HIDE DEF S
<1>6. detach(shares, p, Others(S))[p] = shares[p] /\ detach(shares, p, Others(S)) \in [PIDS -> SUBSET Share]
  BY <1>2, <1>5, DetachShares
<1>7. shares' = [detach(shares, p, Others(S) \ {p}) EXCEPT ![p] = shares[p] \ S]
  BY Zenon, <1>3, <1>5, <1>6
<1>8. /\ mapped' \in [PIDS -> SUBSET Blocks] /\ mapped'[p] = mapped[p] \ Blocked(S)
      /\ \A x \in PIDS \ {p} : mapped'[x] = mapped[x]
  BY <1>2, <1>3
<1>9. Release(p, S)
  BY Zenon, <1>3, <1>4, <1>7, <1>8 DEF Release
<1>10. EventsOK(events') /\ missed' \subseteq live'
  BY <1>2, <1>3
<1> QED BY <1>8, <1>9, <1>10, ReleaseStep

LEMMA CreateStep ==
  ASSUME IInv, NEW p \in PIDS, NEW q \in PIDS, NEW t \in Tags, NEW b \in Blocks, Create(p, q, t, b)
  PROVE  IInv'
<1> DEFINE local  == [pid |-> q, tag |-> t, block |-> b, attached |-> TRUE]
           remote == [local EXCEPT !.pid = p]
           e == [type |-> "ShareCreated", pid |-> p, block |-> b]
<1>1. Typed /\ Pairs /\ Exclusive /\ Used /\ PagesAccounted
  BY DEF IInv
<1>2. /\ live \subseteq PIDS /\ shares \in [PIDS -> SUBSET Share]
      /\ mapped \in [PIDS -> SUBSET Blocks] /\ free \subseteq Blocks
      /\ EventsOK(events) /\ dropped \subseteq Blocks /\ missed \subseteq live
  BY <1>1, Types
<1>3. /\ p \in live /\ q \in live /\ p # q /\ b \in free
      /\ free' = free \ {b}
      /\ mapped' = [mapped EXCEPT ![p] = @ \cup {b}, ![q] = @ \cup {b}]
      /\ shares' = [shares EXCEPT ![p] = insert(@, local), ![q] = insert(@, remote)]
      /\ events' = raise(events, {q}, e)
      /\ missed' = missed \cup Full({q})
      /\ dropped' = IF local \in shares'[p] /\ remote \in shares'[q] THEN dropped ELSE dropped \cup {b}
      /\ live' = live
  BY DEF Create
<1>4. /\ local \in Share /\ local.pid = q /\ local.block = b /\ local.attached
      /\ remote \in Share /\ remote.pid = p /\ remote.block = b /\ remote.attached
      /\ e \in Event
  BY Zenon DEF Share, Event
<1> HIDE DEF local, remote, e
<1>5. /\ insert(shares[p], local) = shares[p] \/ insert(shares[p], local) = shares[p] \cup {local}
      /\ insert(shares[q], remote) = shares[q] \/ insert(shares[q], remote) = shares[q] \cup {remote}
  BY InsertAdds
<1>6. /\ insert(shares[p], local) \in SUBSET Share /\ insert(shares[q], remote) \in SUBSET Share
  BY <1>2, <1>4, <1>5
<1>7. /\ shares' \in [PIDS -> SUBSET Share]
      /\ shares'[p] = insert(shares[p], local) /\ shares'[q] = insert(shares[q], remote)
      /\ \A x \in PIDS \ {p, q} : shares'[x] = shares[x]
  BY <1>2, <1>3, <1>6
<1>8. /\ mapped' \in [PIDS -> SUBSET Blocks]
      /\ mapped'[p] = mapped[p] \cup {b} /\ mapped'[q] = mapped[q] \cup {b}
      /\ \A x \in PIDS \ {p, q} : mapped'[x] = mapped[x]
  BY <1>2, <1>3
<1>9. Extend(p, q, b, local, remote)
  BY <1>3, <1>4, <1>5, <1>7, <1>8 DEF Extend
<1>10. Pairs' /\ Exclusive' /\ Used' /\ PagesAccounted'
  BY <1>1, <1>9, ExtendPairs, ExtendExclusive, ExtendUsed, ExtendAccounted
<1>11. EventsOK(events')
  BY <1>2, <1>3, <1>4, RaiseOK
<1>13. /\ live' \subseteq PIDS /\ free' \subseteq Blocks /\ dropped' \subseteq Blocks /\ missed' \subseteq live'
  BY <1>2, <1>3 DEF Full
<1>14. Typed'
  BY <1>7, <1>8, <1>11, <1>13 DEF Typed, EventsOK
<1> QED BY <1>10, <1>14 DEF IInv

LEMMA SpawnStep ==
  ASSUME IInv, NEW p \in PIDS, Spawn(p)
  PROVE  IInv'
<1>1. Typed /\ Pairs /\ Exclusive /\ Used /\ PagesAccounted
  BY DEF IInv
<1>2. /\ live \subseteq PIDS /\ shares \in [PIDS -> SUBSET Share]
      /\ mapped \in [PIDS -> SUBSET Blocks] /\ free \subseteq Blocks
      /\ EventsOK(events) /\ dropped \subseteq Blocks /\ missed \subseteq live
  BY <1>1, Types
<1>3. PICK b \in free :
        /\ free' = free \ {b}
        /\ shares' = [shares EXCEPT ![p] = {[pid |-> Kernel, tag |-> Tag, block |-> b, attached |-> FALSE]}]
        /\ mapped' = [mapped EXCEPT ![p] = {b}]
  BY Zenon DEF Spawn
<1>4. /\ p \notin live /\ live' = live \cup {p}
      /\ events' = [events EXCEPT ![p] = << >>]
      /\ dropped' = dropped /\ missed' = missed
  BY DEF Spawn
<1> DEFINE k == [pid |-> Kernel, tag |-> Tag, block |-> b, attached |-> FALSE]
<1>5. k \in Share /\ k.block = b /\ ~k.attached
  BY <1>2, SharesAssumption DEF Share
<1>6. shares' = [shares EXCEPT ![p] = {k}]
  BY <1>3
<1> HIDE DEF k
<1>7. /\ shares' \in [PIDS -> SUBSET Share] /\ shares'[p] = {k}
      /\ \A x \in PIDS \ {p} : shares'[x] = shares[x]
  BY <1>2, <1>5, <1>6
<1>8. /\ mapped' \in [PIDS -> SUBSET Blocks] /\ mapped'[p] = {b}
      /\ \A x \in PIDS \ {p} : mapped'[x] = mapped[x]
  BY <1>2, <1>3
<1>9. \A x \in PIDS : \A u \in shares'[x] : (x # p /\ u \in shares[x]) \/ (x = p /\ u = k)
  BY <1>7
<1>10. EventsOK(events')
  <2>1. << >> \in Seq(Event) /\ Len(<< >>) = 0 /\ 0 <= MaxEvents
    BY SharesAssumption
  <2>2. events' \in [PIDS -> Seq(Event)]
    BY <1>2, <1>4, <2>1 DEF EventsOK
  <2>3. ASSUME NEW q \in PIDS PROVE Len(events'[q]) <= MaxEvents
    <3>1. events'[q] = IF q = p THEN << >> ELSE events[q]
      BY <1>2, <1>4, <2>3 DEF EventsOK
    <3> QED BY <1>2, <2>1, <2>3, <3>1 DEF EventsOK
  <2> QED BY <2>2, <2>3 DEF EventsOK
<1>13. Typed'
  BY <1>2, <1>3, <1>4, <1>7, <1>8, <1>10 DEF Typed, EventsOK
<1>14. Pairs'
  <2> SUFFICES ASSUME NEW x \in PIDS, NEW u \in shares'[x], u.attached, u.block \notin dropped'
               PROVE  /\ u.pid \in live' \ {x}
                      /\ \E r \in shares'[u.pid] : r.pid = x /\ r.block = u.block /\ r.attached
    BY DEF Pairs
  <2>1. x # p /\ u \in shares[x]
    BY <1>5, <1>9
  <2>2. /\ u.pid \in live \ {x}
        /\ \E r \in shares[u.pid] : r.pid = x /\ r.block = u.block /\ r.attached
    BY <1>1, <1>4, <2>1 DEF Pairs
  <2>3. u.pid \in PIDS \ {p}
    BY <1>2, <1>4, <2>2
  <2> QED BY <1>4, <1>7, <2>2, <2>3
<1>15. Exclusive'
  <2> SUFFICES ASSUME NEW x \in PIDS, NEW y \in PIDS, NEW u \in shares'[x], NEW v \in shares'[y],
                      u.block = v.block, u.block \notin dropped'
               PROVE  IF x = y THEN u = v ELSE u.attached /\ v.attached /\ u.pid = y /\ v.pid = x
    BY DEF Exclusive
  <2>1. CASE x # p /\ y # p
    <3>1. u \in shares[x] /\ v \in shares[y]
      BY <1>9, <2>1
    <3> QED BY <1>1, <1>4, <3>1 DEF Exclusive
  <2>2. CASE x = p /\ y = p
    BY <1>9, <2>2
  <2>3. CASE x = p /\ y # p
    <3>1. v \in shares[y] /\ u.block = b /\ b \notin dropped
      BY <1>4, <1>5, <1>9, <2>3
    <3> QED BY Zenon, <1>1, <3>1, FreeUnshared
  <2>4. CASE x # p /\ y = p
    <3>1. u \in shares[x] /\ v.block = b /\ b \notin dropped
      BY <1>4, <1>5, <1>9, <2>4
    <3> QED BY <1>1, <3>1, FreeUnshared
  <2> QED BY <2>1, <2>2, <2>3, <2>4
<1>16. Used'
  <2> SUFFICES ASSUME NEW x \in PIDS
               PROVE  /\ x \notin live' => shares'[x] = {} /\ mapped'[x] = {}
                      /\ \A c \in Blocks \ dropped' : c \in mapped'[x] <=> \E s \in shares'[x] : s.block = c
                      /\ mapped'[x] \cap free' \subseteq dropped'
    BY DEF Used
  <2>1. CASE x = p
    BY <1>3, <1>4, <1>5, <1>7, <1>8, <2>1
  <2>2. CASE x # p
    BY <1>1, <1>3, <1>4, <1>7, <1>8, <2>2 DEF Used
  <2> QED BY <2>1, <2>2
<1>17. PagesAccounted'
  <2> SUFFICES ASSUME NEW c \in Blocks, c \notin free', c \notin dropped'
               PROVE  \E x \in live' : \E u \in shares'[x] : u.block = c
    BY DEF PagesAccounted, Blocked
  <2>1. CASE c = b
    BY <1>4, <1>5, <1>7, <2>1
  <2>2. CASE c # b
    <3>1. \E x \in live : \E u \in shares[x] : u.block = c
      BY <1>1, <1>3, <1>4, <2>2 DEF PagesAccounted, Blocked
    <3> QED BY <1>2, <1>4, <1>7, <3>1
  <2> QED BY <2>1, <2>2
<1> QED BY <1>13, <1>14, <1>15, <1>16, <1>17 DEF IInv

LEMMA CreateFailsStep ==
  ASSUME IInv, NEW p \in PIDS, NEW q \in PIDS, NEW t \in Tags, NEW b \in Blocks,
         CreateFails(p, q, t, b)
  PROVE  IInv'
<1>1. Typed /\ Pairs /\ Exclusive /\ Used /\ PagesAccounted
  BY DEF IInv
<1>2. /\ p \in live /\ free' = free \ {b} /\ dropped' = dropped \cup {b}
      /\ mapped' \in {mapped, [mapped EXCEPT ![p] = @ \cup {b}]}
      /\ live' = live /\ shares' = shares /\ events' = events /\ missed' = missed
  BY DEF CreateFails
<1>3. mapped \in [PIDS -> SUBSET Blocks]
  BY <1>1 DEF Typed
<1>4. /\ mapped' \in [PIDS -> SUBSET Blocks]
      /\ \A x \in PIDS : mapped[x] \subseteq mapped'[x] /\ mapped'[x] \subseteq mapped[x] \cup {b}
      /\ \A x \in PIDS : x # p => mapped'[x] = mapped[x]
  BY <1>2, <1>3
<1>5. Typed'
  BY <1>1, <1>2, <1>4 DEF Typed
<1>6. Pairs' /\ Exclusive'
  <2>1. Pairs'
    BY <1>1, <1>2 DEF Pairs
  <2>2. Exclusive'
    BY <1>1, <1>2 DEF Exclusive
  <2> QED BY <2>1, <2>2
<1>7. Used'
  <2> SUFFICES ASSUME NEW x \in PIDS
               PROVE  /\ x \notin live' => shares'[x] = {} /\ mapped'[x] = {}
                      /\ \A c \in Blocks \ dropped' : c \in mapped'[x] <=> \E s \in shares'[x] : s.block = c
                      /\ mapped'[x] \cap free' \subseteq dropped'
    BY DEF Used
  <2>1. x \notin live' => shares'[x] = {} /\ mapped'[x] = {}
    BY <1>1, <1>2, <1>4 DEF Used
  <2>2. \A c \in Blocks \ dropped' : c \in mapped'[x] <=> \E s \in shares'[x] : s.block = c
    BY <1>1, <1>2, <1>4 DEF Used
  <2>3. mapped'[x] \cap free' \subseteq dropped'
    BY <1>1, <1>2, <1>4 DEF Used
  <2> QED BY <2>1, <2>2, <2>3
<1>8. PagesAccounted'
  BY <1>1, <1>2 DEF PagesAccounted
<1> QED BY <1>5, <1>6, <1>7, <1>8 DEF IInv

LEMMA ReadEventStep ==
  ASSUME IInv, NEW p \in PIDS, ReadEvent(p)
  PROVE  IInv'
<1>1. Typed /\ Pairs /\ Exclusive /\ Used /\ PagesAccounted
  BY DEF IInv
<1>2. /\ events[p] # << >> /\ events' = [events EXCEPT ![p] = Tail(@)]
      /\ live' = live /\ shares' = shares /\ mapped' = mapped /\ free' = free
      /\ dropped' = dropped /\ missed' = missed
  BY DEF ReadEvent
<1>3. events \in [PIDS -> Seq(Event)] /\ \A q \in PIDS : Len(events[q]) <= MaxEvents
  BY <1>1 DEF Typed
<1>4. Tail(events[p]) \in Seq(Event) /\ Len(Tail(events[p])) = Len(events[p]) - 1
  BY <1>2, <1>3
<1>5. events' \in [PIDS -> Seq(Event)]
  BY <1>2, <1>3, <1>4
<1>6. ASSUME NEW q \in PIDS PROVE Len(events'[q]) <= MaxEvents
  <2>1. events'[q] = IF q = p THEN Tail(events[p]) ELSE events[q]
    BY <1>2, <1>3
  <2>2. Len(events[p]) \in Nat
    BY <1>3
  <2> QED BY <1>3, <1>4, <2>1, <2>2, SharesAssumption
<1>7. Typed'
  BY <1>1, <1>2, <1>5, <1>6 DEF Typed
<1>8. (Pairs /\ Exclusive /\ Used /\ PagesAccounted)'
  BY <1>1, <1>2 DEF Pairs, Exclusive, Used, PagesAccounted
<1> QED BY <1>7, <1>8 DEF IInv

-----------------------------------------------------------------------------
LEMMA InitIInv ==
  ASSUME Init PROVE IInv
<1>1. /\ live = {} /\ shares = [p \in PIDS |-> {}] /\ mapped = [p \in PIDS |-> {}]
      /\ free = Blocks /\ events = [p \in PIDS |-> << >>] /\ dropped = {} /\ missed = {}
  BY DEF Init
<1>3. << >> \in Seq(Event) /\ Len(<< >>) = 0
  OBVIOUS
<1>4. Typed
  <2>1. events \in [PIDS -> Seq(Event)]
    BY <1>1, <1>3
  <2>2. \A p \in PIDS : Len(events[p]) <= MaxEvents
    BY <1>1, <1>3, SharesAssumption
  <2>3. /\ live \subseteq PIDS /\ shares \in [PIDS -> SUBSET Share]
        /\ mapped \in [PIDS -> SUBSET Blocks] /\ free \subseteq Blocks
        /\ dropped \subseteq Blocks /\ missed \subseteq live
    BY <1>1
  <2> QED BY <2>1, <2>2, <2>3 DEF Typed
<1>5. Pairs /\ Exclusive
  BY <1>1 DEF Pairs, Exclusive
<1>6. Used
  BY <1>1 DEF Used
<1>7. PagesAccounted
  BY <1>1 DEF PagesAccounted
<1> QED BY <1>4, <1>5, <1>6, <1>7 DEF IInv

LEMMA NextIInv ==
  ASSUME IInv, [Next]_vars PROVE IInv'
<1>1. ASSUME NEW p \in PIDS, Spawn(p) PROVE IInv'
  BY <1>1, SpawnStep
<1>2. ASSUME NEW p \in PIDS, Kill(p) PROVE IInv'
  BY <1>2, KillStep
<1>3. ASSUME NEW p \in PIDS, ReadEvent(p) PROVE IInv'
  BY <1>3, ReadEventStep
<1>4. ASSUME NEW p \in PIDS, NEW q \in PIDS, NEW t \in Tags, NEW b \in Blocks, Create(p, q, t, b)
      PROVE  IInv'
  BY <1>4, CreateStep
<1>5. ASSUME NEW p \in PIDS, NEW q \in PIDS, NEW t \in Tags, NEW b \in Blocks,
             CreateFails(p, q, t, b)
      PROVE  IInv'
  BY <1>5, CreateFailsStep
<1>6. ASSUME NEW p \in PIDS, NEW q \in PIDS, p # q, Delete(p, q) PROVE IInv'
  BY <1>6, DeleteStep
<1>7. CASE UNCHANGED vars
  BY <1>7 DEF vars, IInv, Typed, Pairs, Exclusive, Used, PagesAccounted
<1> QED BY <1>1, <1>2, <1>3, <1>4, <1>5, <1>6, <1>7 DEF Next

(* The inductive invariant holds in every state of the shares: the halves   *)
(* of a share find each other, no third share has their pages, and what a   *)
(* process has mapped is what its shares name, whatever the order of        *)
(* createShare(), releaseShare(), termination and reuse of process          *)
(* identifiers.                                                             *)
THEOREM Invariance == Spec => []IInv
<1>1. Init => IInv
  BY InitIInv
<1>2. IInv /\ [Next]_vars => IInv'
  BY NextIInv
<1> QED BY <1>1, <1>2, PTL DEF Spec

(* releaseShare() never returns a page to the allocator while a process has *)
(* it mapped, for any number of processes, tags and blocks.                 *)
THEOREM NoReleaseWhileMappedHolds == Spec => []NoReleaseWhileMapped
<1>1. IInv => NoReleaseWhileMapped
  BY DEF IInv, Used, NoReleaseWhileMapped
<1> QED BY <1>1, Invariance, PTL

(* Only the error paths of createShare() lose pages. *)
THEOREM PagesAccountedHolds == Spec => []PagesAccounted
<1>1. IInv => PagesAccounted
  BY DEF IInv
<1> QED BY <1>1, Invariance, PTL

(* What the inductive invariant says of the two halves of a share. *)
LEMMA SharesAgree ==
  ASSUME IInv PROVE AttachedIsShared /\ DetachedIsLast
<1>1. ASSUME NEW p \in PIDS, NEW s \in shares[p], s.attached, s.block \notin dropped
      PROVE  /\ s.pid \in live
             /\ \E r \in shares[s.pid] : r.pid = p /\ r.block = s.block /\ s.block \in mapped[s.pid]
  <2>1. s.pid \in live /\ \E r \in shares[s.pid] : r.pid = p /\ r.block = s.block
    BY <1>1 DEF IInv, Pairs
  <2>2. live \subseteq PIDS /\ s \in Share
    BY <1>1 DEF IInv, Typed
  <2>3. s.block \in Blocks
    BY <2>2 DEF Share
  <2>4. s.block \in mapped[s.pid]
    BY <1>1, <2>1, <2>2, <2>3 DEF IInv, Used
  <2> QED BY <2>1, <2>4
<1>2. ASSUME NEW p \in PIDS, NEW s \in shares[p], ~s.attached, s.block \notin dropped,
             NEW q \in PIDS \ {p}
      PROVE  s.block \notin mapped[q]
  <2>1. s \in Share
    BY <1>2 DEF IInv, Typed
  <2>2. s.block \in Blocks
    BY <2>1 DEF Share
  <2>3. \A r \in shares[q] : r.block # s.block
    BY <1>2 DEF IInv, Exclusive
  <2> QED BY <1>2, <2>2, <2>3 DEF IInv, Used
<1> QED BY <1>1, <1>2 DEF AttachedIsShared, DetachedIsLast

(* A share marked attached has its other half in a process that exists, and *)
(* never in a later process that was given the same identifier.             *)
THEOREM AttachedIsSharedHolds == Spec => []AttachedIsShared
<1>1. IInv => AttachedIsShared
  BY SharesAgree
<1> QED BY <1>1, Invariance, PTL

(* Pages are mapped nowhere else once their share is detached, so that its  *)
(* owner releases them exactly once.                                        *)
THEOREM DetachedIsLastHolds == Spec => []DetachedIsLast
<1>1. IInv => DetachedIsLast
  BY SharesAgree
<1> QED BY <1>1, Invariance, PTL
=============================================================================
