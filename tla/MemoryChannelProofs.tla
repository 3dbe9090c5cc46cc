------------------------ MODULE MemoryChannelProofs -------------------------
(***************************************************************************)
(* Proofs about MemoryChannel, for every page size, message size and set   *)
(* of messages: the inductive invariant IInv, what follows from it for the *)
(* slots, and the refinement of Fifo.                                      *)
(***************************************************************************)
EXTENDS MemoryChannel, TLAPS

(* The provers that are tried on a leaf which names none, with their time. *)
USE ZenonT(5), SMTT(30)

(* A page has room for at least one message behind the ring head. *)
LEMMA MaximumMessagesPositive ==
  /\ MaximumMessages \in Nat \ {0}
  /\ (MaximumMessages + 1) * MessageSize <= PageSize
  BY ChannelAssumption DEF MaximumMessages

(* Increment stays on the ring and wraps at its end. *)
LEMMA IncrementWraps ==
  ASSUME NEW i \in Index
  PROVE  /\ Increment(i) \in Index
         /\ Increment(i) = IF i = MaximumMessages - 1 THEN 0 ELSE i + 1
  BY MaximumMessagesPositive DEF Index, Increment

(* Different indices have different successors. *)
LEMMA IncrementInjective ==
  ASSUME NEW i \in Index, NEW j \in Index, i # j
  PROVE  Increment(i) # Increment(j)
  BY IncrementWraps, MaximumMessagesPositive DEF Index

(* A larger number of messages takes more bytes. *)
LEMMA ProductMonotonic ==
  ASSUME NEW a \in Nat, NEW b \in Nat, NEW n \in Nat, a <= b
  PROVE  /\ a * n <= b * n
         /\ (a + 1) * n = a * n + n
  OBVIOUS

USE DEF Slot

(* Slots are equal when their words are. *)
LEMMA SlotEqual ==
  ASSUME NEW a \in Slot, NEW b \in Slot, \A k \in 1 .. Words : a[k] = b[k]
  PROVE  a = b
<1>1. a = [k \in 1 .. Words |-> a[k]] /\ b = [k \in 1 .. Words |-> b[k]]
  OBVIOUS
<1> QED
  BY <1>1

(* The invariant holds in two new pages. *)
LEMMA InitIInv == Init => IInv
  BY MaximumMessagesPositive, ChannelAssumption DEF Init, IInv, TypeOK, End, Index, ZeroSlot

-----------------------------------------------------------------------------
(* Every step preserves the invariant. *)
LEMMA NextIInv == IInv /\ [Next]_vars => IInv'
<1> SUFFICES ASSUME IInv, [Next]_vars PROVE IInv'
  OBVIOUS
<1> USE ChannelAssumption
<1>0. TypeOK /\ prod.index = data.head /\ cons.index = feedback
  BY DEF IInv
<1>a. 0 \in 0 .. Words
  OBVIOUS
<1>1. ASSUME NEW m \in Messages, WriteCall(m) PROVE IInv'
  BY <1>1 DEF IInv, TypeOK, End, WriteCall
<1>2. CASE WriteCheck
  <2>1. CASE Increment(prod.index) = feedback
    BY <1>2, <2>1 DEF IInv, TypeOK, End, WriteCheck
  <2>2. CASE Increment(prod.index) # feedback
    <3>1. /\ prod' \in End /\ prod'.pc = "copy" /\ prod'.copied = 0
          /\ prod'.index = prod.index /\ prod'.buffer = prod.buffer
      BY <1>0, <1>2, <1>a, <2>2 DEF TypeOK, End, WriteCheck
    <3> QED
      BY <1>0, <1>2, <2>2, <3>1 DEF IInv, TypeOK, WriteCheck
  <2> QED
    BY <2>1, <2>2
<1>3. CASE WriteCopy
  <2> DEFINE i == prod.index
             k == prod.copied + 1
             filled == [data.slot[i] EXCEPT ![k] = prod.buffer[k]]
  <2>1. /\ i \in Index /\ k \in 1 .. Words /\ k \in 0 .. Words /\ prod.buffer \in Slot
        /\ data.slot \in [Index -> Slot] /\ data.head \in Index
    BY <1>0, <1>3 DEF TypeOK, End, WriteCopy
  <2>2. filled \in Slot /\ [data.slot EXCEPT ![i] = filled] \in [Index -> Slot]
    BY <2>1
  <2>3. /\ data' = [data EXCEPT !.slot = [data.slot EXCEPT ![i] = filled]]
        /\ prod' = [prod EXCEPT !.copied = k]
        /\ UNCHANGED <<feedback, cons>>
        /\ prod.pc = "copy"
    BY <1>0, <1>3, <2>1 DEF WriteCopy, TypeOK
  <2>4. /\ data' \in [head : Index, slot : [Index -> Slot]]
        /\ data'.head = data.head
        /\ data'.slot = [data.slot EXCEPT ![i] = filled]
    BY <1>0, <2>2, <2>3 DEF TypeOK
  <2>5. /\ prod' \in End /\ prod'.copied = k /\ prod'.index = i /\ prod'.buffer = prod.buffer
    BY <1>0, <2>1, <2>3 DEF TypeOK, End
  <2>6. TypeOK'
    BY <1>0, <2>3, <2>4, <2>5 DEF TypeOK
  <2>7. data'.slot[i] = filled
    BY <2>1, <2>4
  <2>8. \A j \in 1 .. k : filled[j] = prod.buffer[j]
    <3> SUFFICES ASSUME NEW j \in 1 .. k PROVE filled[j] = prod.buffer[j]
      OBVIOUS
    <3>1. j \in 1 .. Words
      BY <2>1
    <3>2. CASE j = k
      BY <3>2, <2>1
    <3>3. CASE j # k
      <4>1. j \in 1 .. prod.copied
        BY <3>3, <2>1, <1>0 DEF TypeOK, End
      <4> QED
        BY <4>1, <3>1, <3>3, <2>1, <2>3 DEF IInv
    <3> QED
      BY <3>2, <3>3
  <2>9. cons.pc = "copy" => data'.slot[cons.index] = data.slot[cons.index]
    BY <1>0, <2>1, <2>4 DEF TypeOK, End, IInv
  <2> HIDE DEF filled
  <2> QED
    BY <1>0, <2>3, <2>4, <2>5, <2>6, <2>7, <2>8, <2>9 DEF IInv
<1>4. CASE WritePublish
  <2>1. Increment(prod.index) \in Index /\ Increment(prod.index) # feedback
    BY <1>0, <1>4, IncrementWraps DEF TypeOK, End, WritePublish, IInv
  <2> QED
    BY <1>0, <1>4, <2>1 DEF IInv, WritePublish, TypeOK, End
<1>5. CASE ReadCall
  BY <1>5 DEF IInv, TypeOK, End, ReadCall
<1>6. CASE ReadCheck
  <2>1. CASE data.head = cons.index
    BY <1>6, <2>1 DEF IInv, TypeOK, End, ReadCheck
  <2>2. CASE data.head # cons.index
    <3>1. /\ cons' \in End /\ cons'.pc = "copy" /\ cons'.copied = 0
          /\ cons'.index = cons.index
      BY <1>0, <1>6, <1>a, <2>2 DEF TypeOK, End, ReadCheck
    <3> QED
      BY <1>0, <1>6, <2>2, <3>1 DEF IInv, TypeOK, ReadCheck
  <2> QED
    BY <2>1, <2>2
<1>7. CASE ReadCopy
  <2> DEFINE k == cons.copied + 1
             read == [cons.buffer EXCEPT ![k] = data.slot[cons.index][k]]
  <2>1. /\ k \in 1 .. Words /\ k \in 0 .. Words /\ cons.buffer \in Slot /\ cons.index \in Index
        /\ data.slot[cons.index] \in Slot
    BY <1>0, <1>7 DEF TypeOK, End, ReadCopy
  <2>2. read \in Slot
    BY <2>1
  <2>3. /\ cons' = [cons EXCEPT !.buffer = read, !.copied = k]
        /\ UNCHANGED <<data, feedback, prod>>
        /\ cons.pc = "copy"
    BY <1>0, <1>7, <2>1 DEF ReadCopy, TypeOK
  <2>4. /\ cons' \in End /\ cons'.copied = k /\ cons'.buffer = read
        /\ cons'.index = cons.index /\ cons'.pc = "copy"
    BY <1>0, <2>1, <2>2, <2>3 DEF TypeOK, End
  <2>5. \A j \in 1 .. k : read[j] = data.slot[cons.index][j]
    <3> SUFFICES ASSUME NEW j \in 1 .. k PROVE read[j] = data.slot[cons.index][j]
      OBVIOUS
    <3>1. j \in 1 .. Words
      BY <2>1
    <3>2. CASE j = k
      BY <3>2, <2>1
    <3>3. CASE j # k
      <4>1. j \in 1 .. cons.copied
        BY <3>3, <2>1, <1>0 DEF TypeOK, End
      <4> QED
        BY <4>1, <3>1, <3>3, <2>1, <2>3 DEF IInv
    <3> QED
      BY <3>2, <3>3
  <2> HIDE DEF read
  <2> QED
    BY <1>0, <2>3, <2>4, <2>5 DEF IInv, TypeOK
<1>8. CASE ReadFeedback
  <2>1. Increment(cons.index) \in Index
    BY <1>0, IncrementWraps DEF TypeOK, End
  <2>2. prod.pc = "copy" => Increment(prod.index) # Increment(cons.index)
    BY <1>0, <1>8, IncrementInjective DEF TypeOK, End, ReadFeedback, IInv
  <2> QED
    BY <1>0, <1>8, <2>1, <2>2 DEF IInv, ReadFeedback, TypeOK, End
<1>9. CASE ProducerRestart
  BY <1>9 DEF IInv, TypeOK, End, ProducerRestart, ZeroSlot
<1>10. CASE ConsumerRestart
  BY <1>10 DEF IInv, TypeOK, End, ConsumerRestart, ZeroSlot
<1>11. CASE UNCHANGED vars
  BY <1>11 DEF IInv, TypeOK, vars
<1> QED
  BY <1>1, <1>2, <1>3, <1>4, <1>5, <1>6, <1>7, <1>8, <1>9, <1>10, <1>11
     DEF Next, Producer, Consumer

(* IInv is an invariant of MemoryChannel. *)
THEOREM Invariance == Spec => []IInv
  BY InitIInv, NextIInv, PTL DEF Spec

(* The pages and the channel objects keep their types; in particular every *)
(* index stays on the ring.                                                *)
THEOREM TypeCorrect == Spec => []TypeOK
<1>1. IInv => TypeOK
  BY DEF IInv
<1> QED
  BY <1>1, Invariance, PTL

(* Producer and consumer never work on the same slot. *)
THEOREM SlotsDisjointHolds == Spec => []SlotsDisjoint
<1>1. IInv => SlotsDisjoint
  BY DEF IInv, SlotsDisjoint
<1> QED
  BY <1>1, Invariance, PTL

(* No access leaves the data page or overlaps the ring head. *)
THEOREM InPageHolds == Spec => []InPage
<1>1. IInv => InPage
  <2> SUFFICES ASSUME IInv, NEW i \in Index
               PROVE  Offset(i) >= HeadSize /\ Offset(i) + MessageSize <= PageSize
    BY DEF IInv, TypeOK, End, InPage
  <2>1. i + 1 \in Nat /\ i + 1 >= 1 /\ (i + 1) + 1 <= MaximumMessages + 1
    BY MaximumMessagesPositive DEF Index
  <2>2. 1 * MessageSize <= (i + 1) * MessageSize
    BY <2>1, ProductMonotonic, ChannelAssumption
  <2>3. ((i + 1) + 1) * MessageSize = (i + 1) * MessageSize + MessageSize
    BY <2>1, ProductMonotonic, ChannelAssumption
  <2>4. ((i + 1) + 1) * MessageSize <= (MaximumMessages + 1) * MessageSize
    <3>1. (i + 1) + 1 \in Nat
      BY <2>1
    <3> QED
      BY <2>1, <3>1, ProductMonotonic, MaximumMessagesPositive, ChannelAssumption
  <2>5. (i + 1) * MessageSize \in Nat
    BY <2>1, ChannelAssumption
  <2> QED
    BY <2>2, <2>3, <2>4, <2>5, MaximumMessagesPositive, ChannelAssumption DEF Offset
<1> QED
  BY <1>1, Invariance, PTL

-----------------------------------------------------------------------------
(* Refinement.  First the arithmetic of the ring. *)

(* Distance and After stay in range, and Distance grows with its end. *)
LEMMA DistanceProperties ==
  ASSUME NEW i \in Index, NEW j \in Index
  PROVE  /\ Distance(i, j) \in 0 .. MaximumMessages - 1
         /\ Distance(i, j) = 0 <=> i = j
         /\ Distance(i, j) = MaximumMessages - 1 <=> Increment(j) = i
         /\ Increment(j) # i => Distance(i, Increment(j)) = Distance(i, j) + 1
         /\ i # j => Distance(Increment(i), j) = Distance(i, j) - 1
         /\ After(i, Distance(i, j)) = j
  BY IncrementWraps, MaximumMessagesPositive DEF Index, Distance, After

LEMMA AfterProperties ==
  ASSUME NEW i \in Index, NEW j \in Index, NEW n \in 0 .. Distance(i, j) - 1
  PROVE  /\ After(i, n) \in Index
         /\ After(i, n) # j
         /\ After(i, 0) = i
         /\ n > 0 => After(Increment(i), n - 1) = After(i, n)
  BY IncrementWraps, MaximumMessagesPositive DEF Index, Distance, After

(* The contents of the ring form a sequence of slots. *)
LEMMA ContentsType ==
  ASSUME NEW slot \in [Index -> Slot], NEW i \in Index, NEW j \in Index
  PROVE  /\ Contents(slot, i, j) \in Seq(Slot)
         /\ Len(Contents(slot, i, j)) = Distance(i, j)
         /\ \A n \in 1 .. Distance(i, j) : Contents(slot, i, j)[n] = slot[After(i, n - 1)]
<1>1. Distance(i, j) \in Nat
  BY DistanceProperties, MaximumMessagesPositive
<1>2. \A n \in 1 .. Distance(i, j) : slot[After(i, n - 1)] \in Slot
  <2> SUFFICES ASSUME NEW n \in 1 .. Distance(i, j) PROVE slot[After(i, n - 1)] \in Slot
    OBVIOUS
  <2>1. n - 1 \in 0 .. Distance(i, j) - 1
    BY <1>1
  <2> QED
    BY <2>1, AfterProperties
<1>3. Contents(slot, i, j) \in [1 .. Distance(i, j) -> Slot]
  BY <1>2 DEF Contents
<1>4. Contents(slot, i, j) \in Seq(Slot)
  BY <1>1, <1>3
<1> QED
  BY <1>1, <1>3, <1>4 DEF Contents

(* Filling the free slot at the producer's index does not show. *)
LEMMA ContentsFill ==
  ASSUME NEW slot \in [Index -> Slot], NEW i \in Index, NEW j \in Index, NEW m \in Slot
  PROVE  Contents([slot EXCEPT ![j] = m], i, j) = Contents(slot, i, j)
<1> DEFINE filled == [slot EXCEPT ![j] = m]
<1>1. Distance(i, j) \in Nat
  BY DistanceProperties, MaximumMessagesPositive
<1>2. \A n \in 1 .. Distance(i, j) : filled[After(i, n - 1)] = slot[After(i, n - 1)]
  <2> SUFFICES ASSUME NEW n \in 1 .. Distance(i, j)
               PROVE  filled[After(i, n - 1)] = slot[After(i, n - 1)]
    OBVIOUS
  <2>1. n - 1 \in 0 .. Distance(i, j) - 1
    BY <1>1
  <2>2. After(i, n - 1) \in Index /\ After(i, n - 1) # j
    BY <2>1, AfterProperties
  <2> QED
    BY <2>2
<1> HIDE DEF filled
<1>3. Contents(filled, i, j) = Contents(slot, i, j)
  BY <1>2 DEF Contents
<1> QED
  BY <1>3 DEF filled

(* Publishing the next index appends the message in the slot. *)
LEMMA ContentsAppend ==
  ASSUME NEW slot \in [Index -> Slot], NEW i \in Index, NEW j \in Index, Increment(j) # i
  PROVE  Contents(slot, i, Increment(j)) = Append(Contents(slot, i, j), slot[j])
<1> DEFINE q == Contents(slot, i, j)
           r == Contents(slot, i, Increment(j))
           d == Distance(i, j)
<1>1. /\ Increment(j) \in Index /\ d \in Nat
      /\ Distance(i, Increment(j)) = d + 1 /\ After(i, d) = j
  BY IncrementWraps, DistanceProperties, MaximumMessagesPositive
<1>a. /\ q \in Seq(Slot) /\ Len(q) = d
      /\ \A n \in 1 .. d : q[n] = slot[After(i, n - 1)]
  BY ContentsType
<1>b. /\ r \in Seq(Slot) /\ Len(r) = Distance(i, Increment(j))
      /\ \A n \in 1 .. Distance(i, Increment(j)) : r[n] = slot[After(i, n - 1)]
  BY <1>1, ContentsType
<1> HIDE DEF q, r, d
<1>c. d \in Nat
  BY <1>1
<1>2. /\ q \in Seq(Slot) /\ Len(q) = d
      /\ r \in Seq(Slot) /\ Len(r) = d + 1
      /\ slot[j] \in Slot
      /\ \A n \in 1 .. d : q[n] = slot[After(i, n - 1)]
      /\ \A n \in 1 .. d + 1 : r[n] = slot[After(i, n - 1)]
  BY <1>1, <1>a, <1>b
<1>3. /\ Append(q, slot[j]) \in Seq(Slot) /\ Len(Append(q, slot[j])) = d + 1
      /\ \A n \in 1 .. d : Append(q, slot[j])[n] = q[n]
      /\ Append(q, slot[j])[d + 1] = slot[j]
  BY <1>2
<1>4. \A n \in 1 .. d + 1 : r[n] = Append(q, slot[j])[n]
  <2> SUFFICES ASSUME NEW n \in 1 .. d + 1 PROVE r[n] = Append(q, slot[j])[n]
    OBVIOUS
  <2>1. CASE n = d + 1
    BY <1>1, <1>2, <1>3, <2>1
  <2>2. CASE n \in 1 .. d
    BY <1>2, <1>3, <2>2
  <2>3. n = d + 1 \/ n \in 1 .. d
    BY <1>c
  <2> QED
    BY <2>1, <2>2, <2>3
<1> QED
  BY <1>2, <1>3, <1>4 DEF q, r

(* Moving the consumer's index takes the first message off. *)
LEMMA ContentsTail ==
  ASSUME NEW slot \in [Index -> Slot], NEW i \in Index, NEW j \in Index, i # j
  PROVE  /\ Contents(slot, i, j) # << >>
         /\ Head(Contents(slot, i, j)) = slot[i]
         /\ Tail(Contents(slot, i, j)) = Contents(slot, Increment(i), j)
<1> DEFINE q == Contents(slot, i, j)
           r == Contents(slot, Increment(i), j)
           d == Distance(i, j)
<1>1. /\ Increment(i) \in Index /\ d \in Nat \ {0}
      /\ Distance(Increment(i), j) = d - 1
  BY IncrementWraps, DistanceProperties, MaximumMessagesPositive
<1>a. /\ q \in Seq(Slot) /\ Len(q) = d
      /\ \A n \in 1 .. d : q[n] = slot[After(i, n - 1)]
  BY ContentsType
<1>b. /\ r \in Seq(Slot) /\ Len(r) = Distance(Increment(i), j)
      /\ \A n \in 1 .. Distance(Increment(i), j) : r[n] = slot[After(Increment(i), n - 1)]
  BY <1>1, ContentsType
<1>3. \A n \in 1 .. d - 1 : After(Increment(i), n - 1) = After(i, n)
  BY <1>1, AfterProperties
<1>4. After(i, 0) = i
  BY <1>1, AfterProperties
<1> HIDE DEF q, r, d
<1>c. d \in Nat \ {0}
  BY <1>1
<1>2. /\ q \in Seq(Slot) /\ Len(q) = d
      /\ r \in Seq(Slot) /\ Len(r) = d - 1
      /\ \A n \in 1 .. d : q[n] = slot[After(i, n - 1)]
      /\ \A n \in 1 .. d - 1 : r[n] = slot[After(Increment(i), n - 1)]
  BY <1>1, <1>a, <1>b
<1>5. q # << >> /\ Head(q) = slot[i]
  BY <1>1, <1>2, <1>4
<1>6. /\ Tail(q) \in Seq(Slot) /\ Len(Tail(q)) = d - 1
      /\ \A n \in 1 .. d - 1 : Tail(q)[n] = q[n + 1]
  BY <1>2, <1>5
<1>7. \A n \in 1 .. d - 1 : Tail(q)[n] = r[n]
  <2> SUFFICES ASSUME NEW n \in 1 .. d - 1 PROVE Tail(q)[n] = r[n]
    OBVIOUS
  <2>1. n + 1 \in 1 .. d /\ (n + 1) - 1 = n
    BY <1>c
  <2>2. q[n + 1] = slot[After(i, n)]
    BY <1>2, <2>1
  <2> QED
    BY <1>2, <1>3, <1>6, <2>2
<1> QED
  BY <1>2, <1>5, <1>6, <1>7 DEF q, r

-----------------------------------------------------------------------------
(* Two new pages hold the empty queue. *)
LEMMA InitRefines == Init => F!Init
<1> SUFFICES ASSUME Init PROVE F!Init
  OBVIOUS
<1>1. 0 \in Index /\ [i \in Index |-> ZeroSlot] \in [Index -> Slot]
  BY MaximumMessagesPositive, ChannelAssumption DEF Index, ZeroSlot
<1>2. Queue \in Seq(Slot) /\ Len(Queue) = Distance(0, 0)
  BY <1>1, ContentsType DEF Init, Queue
<1>3. Queue = << >>
  BY <1>1, <1>2, DistanceProperties
<1> QED
  BY <1>3 DEF Init, F!Init

(* Every step is a step of the queue or leaves it as it is: write() takes   *)
(* effect when the head is published, read() when the feedback is written,  *)
(* and a refused call when it reads the other end's head.                   *)
LEMMA NextRefines == IInv /\ [Next]_vars => [F!Next]_F!vars
<1> SUFFICES ASSUME IInv, [Next]_vars PROVE [F!Next]_F!vars
  OBVIOUS
<1>0. /\ TypeOK /\ prod.index = data.head /\ cons.index = feedback
      /\ data.slot \in [Index -> Slot] /\ data.head \in Index /\ feedback \in Index
  BY DEF IInv, TypeOK
<1>a. Queue \in Seq(Slot) /\ Len(Queue) = Distance(feedback, data.head)
  BY <1>0, ContentsType DEF Queue
<1>1. ASSUME NEW m \in Messages, WriteCall(m) PROVE F!Forget
  <2>1. prod'.result = None
    BY <1>0, <1>1 DEF TypeOK, End, WriteCall
  <2> QED
    BY <1>1, <2>1 DEF WriteCall, F!Forget, Queue
<1>2. CASE WriteCheck
  <2>1. CASE Increment(prod.index) = feedback
    <3>1. Len(Queue) = MaximumMessages - 1
      BY <1>0, <1>a, <2>1, DistanceProperties
    <3>2. prod'.result = ChannelFull
      BY <1>0, <1>2, <2>1 DEF TypeOK, End, WriteCheck
    <3> QED
      BY <1>2, <3>1, <3>2 DEF WriteCheck, F!Next, F!WriteFull, Queue
  <2>2. CASE Increment(prod.index) # feedback
    <3>1. prod'.result = prod.result
      BY <1>0, <1>2, <2>2 DEF TypeOK, End, WriteCheck
    <3> QED
      BY <1>2, <3>1 DEF WriteCheck, F!vars, Queue
  <2> QED
    BY <2>1, <2>2
<1>3. CASE WriteCopy
  <2> DEFINE m == [data.slot[prod.index] EXCEPT ![prod.copied + 1] = prod.buffer[prod.copied + 1]]
  <2>1. prod.copied + 1 \in 1 .. Words /\ prod.buffer \in Slot /\ prod.index \in Index
    BY <1>0, <1>3, ChannelAssumption DEF TypeOK, End, WriteCopy
  <2>2. m \in Slot
    BY <1>0, <2>1
  <2>3. /\ data' = [data EXCEPT !.slot = [data.slot EXCEPT ![data.head] = m]]
        /\ prod'.result = prod.result
        /\ feedback' = feedback /\ cons' = cons
    BY <1>0, <1>3, <2>1 DEF TypeOK, End, WriteCopy
  <2> HIDE DEF m
  <2>a. data'.slot = [data.slot EXCEPT ![data.head] = m] /\ data'.head = data.head
    BY <1>0, <2>3 DEF TypeOK
  <2>b. Contents(data'.slot, feedback, data.head) = Contents(data.slot, feedback, data.head)
    BY <1>0, <2>2, <2>a, ContentsFill
  <2>4. Queue' = Queue
    BY <2>3, <2>a, <2>b DEF Queue
  <2> QED
    BY <1>3, <2>3, <2>4 DEF F!vars, WriteCopy
<1>4. CASE WritePublish
  <2>1. Increment(data.head) # feedback /\ prod.buffer \in Messages
    BY <1>0, <1>4 DEF IInv, WritePublish
  <2>2. data.slot[data.head] = prod.buffer
    <3>1. data.slot[data.head] \in Slot /\ prod.buffer \in Slot
      BY <1>0 DEF TypeOK, End
    <3>2. \A k \in 1 .. Words : data.slot[data.head][k] = prod.buffer[k]
      BY <1>0, <1>4 DEF IInv, WritePublish
    <3> QED
      BY <3>1, <3>2, SlotEqual
  <2>3. /\ data'.head = Increment(data.head) /\ data'.slot = data.slot
        /\ prod'.result = Success
    BY <1>0, <1>4 DEF TypeOK, End, WritePublish
  <2>4. Queue' = Append(Queue, prod.buffer)
    BY <1>0, <1>4, <2>1, <2>2, <2>3, ContentsAppend DEF Queue, WritePublish
  <2>5. Len(Queue) < MaximumMessages - 1
    BY <1>0, <1>a, <2>1, DistanceProperties, MaximumMessagesPositive
  <2>6. F!Write(prod.buffer)
    BY <1>4, <2>3, <2>4, <2>5 DEF F!Write, WritePublish
  <2> QED
    BY <2>1, <2>6 DEF F!Next
<1>5. CASE ReadCall
  <2>1. cons'.result = None
    BY <1>0, <1>5 DEF TypeOK, End, ReadCall
  <2> QED
    BY <1>5, <2>1 DEF ReadCall, F!Next, F!Forget, Queue
<1>6. CASE ReadCheck
  <2>1. CASE data.head = cons.index
    <3>1. Queue = << >>
      BY <1>0, <1>a, <2>1, DistanceProperties
    <3>2. cons'.result = NotFound
      BY <1>0, <1>6, <2>1 DEF TypeOK, End, ReadCheck
    <3> QED
      BY <1>6, <3>1, <3>2 DEF ReadCheck, F!Next, F!ReadNone, Queue
  <2>2. CASE data.head # cons.index
    <3>1. cons'.result = cons.result
      BY <1>0, <1>6, <2>2 DEF TypeOK, End, ReadCheck
    <3> QED
      BY <1>6, <3>1 DEF ReadCheck, F!vars, Queue
  <2> QED
    BY <2>1, <2>2
<1>7. CASE ReadCopy
  <2>1. cons'.result = cons.result
    BY <1>0, <1>7 DEF TypeOK, End, ReadCopy
  <2> QED
    BY <1>7, <2>1 DEF ReadCopy, F!vars, Queue
<1>8. CASE ReadFeedback
  <2>1. feedback # data.head
    BY <1>0, <1>8 DEF IInv, ReadFeedback
  <2>2. cons.buffer = data.slot[feedback]
    <3>1. data.slot[feedback] \in Slot /\ cons.buffer \in Slot
      BY <1>0 DEF TypeOK, End
    <3>2. \A k \in 1 .. Words : cons.buffer[k] = data.slot[feedback][k]
      BY <1>0, <1>8 DEF IInv, ReadFeedback
    <3> QED
      BY <3>1, <3>2, SlotEqual
  <2>3. cons'.result = cons.buffer /\ feedback' = Increment(feedback)
    BY <1>0, <1>8 DEF TypeOK, End, ReadFeedback
  <2>4. Queue # << >> /\ Head(Queue) = cons.buffer /\ Queue' = Tail(Queue)
    BY <1>0, <1>8, <2>1, <2>2, <2>3, ContentsTail DEF Queue, ReadFeedback
  <2> QED
    BY <1>8, <2>3, <2>4 DEF F!Next, F!Read, ReadFeedback
<1>9. CASE ProducerRestart
  BY <1>9 DEF ProducerRestart, F!Next, F!Forget, Queue
<1>10. CASE ConsumerRestart
  BY <1>10 DEF ConsumerRestart, F!Next, F!Forget, Queue
<1>11. CASE UNCHANGED vars
  BY <1>11 DEF vars, F!vars, Queue
<1> QED
  BY <1>1, <1>2, <1>3, <1>4, <1>5, <1>6, <1>7, <1>8, <1>9, <1>10, <1>11
     DEF Next, Producer, Consumer, F!Next

(* MemoryChannel implements the bounded first in first out queue, with a    *)
(* capacity of m_maximumMessages - 1, for every page and message size the   *)
(* constructor accepts and for messages of any number of words.             *)
THEOREM Refinement == Spec => ImplementsFifo
<1>1. Init => F!Init
  BY InitRefines
<1>2. IInv /\ [Next]_vars => [F!Next]_F!vars
  BY NextRefines
<1> QED
  BY <1>1, <1>2, Invariance, PTL DEF Spec, ImplementsFifo, F!Spec
=============================================================================
