--------------------------- MODULE MemoryChannel ----------------------------
(***************************************************************************)
(* lib/libipc/MemoryChannel.cpp: a ring of messages in two shared pages.   *)
(* The data page holds the producer's ring head and the message slots and  *)
(* is written by the producer only; the feedback page holds the ring head  *)
(* of the consumer and is written by the consumer only.                    *)
(*                                                                         *)
(* Producer and consumer are two processes, or the kernel and a process,   *)
(* and are preempted anywhere, so each access to a shared page is a step   *)
(* of its own and a message is copied word by word.  Either end may be     *)
(* restarted at any time, in the middle of a call too; it then goes on     *)
(* from a soft reset, as ChannelServer does after RecoveryServer restarts  *)
(* its process.                                                            *)
(***************************************************************************)
EXTENDS Integers, Sequences

CONSTANTS
  PageSize,     \* PAGESIZE
  MessageSize,  \* m_messageSize, in bytes
  HeadSize,     \* sizeof(RingHead)
  Words,        \* number of memory accesses that copy one message
  Word,         \* the values of one of these accesses, zero included
  Messages,     \* the messages that are written to the channel
  Zero,         \* the zero word that fills a new page
  Success, ChannelFull, NotFound, \* Channel::Result
  None          \* no result yet

(* The assertions of the constructor. *)
ASSUME ChannelAssumption ==
  /\ PageSize \in Nat /\ MessageSize \in Nat /\ HeadSize \in Nat \ {0}
  /\ MessageSize >= HeadSize
  /\ MessageSize < PageSize \div 2
  /\ Words \in Nat \ {0}
  /\ Zero \in Word
  /\ Messages \subseteq [1 .. Words -> Word]

(* The messages of the instance that TLC checks: every word but zero.      *)
AnyMessage == [1 .. Words -> Word \ {Zero}]

(* m_maximumMessages *)
MaximumMessages == (PageSize \div MessageSize) - 1

Index == 0 .. MaximumMessages - 1

VARIABLES
  data,     \* the data page: head is its RingHead, slot[i] the message i
  feedback, \* the RingHead in the feedback page
  prod,     \* the producer's object and the local variables of write()
  cons      \* the consumer's object and the local variables of read()

vars == <<data, feedback, prod, cons>>

Slot == [1 .. Words -> Word]
ZeroSlot == [k \in 1 .. Words |-> Zero]

(* The byte offset of message i in the data page. *)
Offset(i) == (i + 1) * MessageSize

Increment(i) == (i + 1) % MaximumMessages

(* Two zeroed pages and two channels after a hard reset. *)
Init ==
  /\ data = [head |-> 0, slot |-> [i \in Index |-> ZeroSlot]]
  /\ feedback = 0
  /\ prod = [pc |-> "idle", index |-> 0, buffer |-> ZeroSlot, copied |-> 0, result |-> None]
  /\ cons = [pc |-> "idle", index |-> 0, buffer |-> ZeroSlot, copied |-> 0, result |-> None]

-----------------------------------------------------------------------------
(* write(), by the producer *)

WriteCall(m) ==
  /\ prod.pc = "idle"
  /\ prod' = [prod EXCEPT !.pc = "check", !.buffer = m, !.result = None]
  /\ UNCHANGED <<data, feedback, cons>>

(* Mutant: the last free slot is used, so that a full ring looks empty. *)
WriteCheck_lastSlot ==
  /\ prod.pc = "check"
  /\ prod' = [prod EXCEPT !.pc = "copy", !.copied = 0]
  /\ UNCHANGED <<data, feedback, cons>>

(* The consumer's ring head is read and compared. *)
WriteCheck ==
  /\ prod.pc = "check"
  /\ prod' = IF Increment(prod.index) = feedback
               THEN [prod EXCEPT !.pc = "idle", !.result = ChannelFull]
               ELSE [prod EXCEPT !.pc = "copy", !.copied = 0]
  /\ UNCHANGED <<data, feedback, cons>>

WriteCopy ==
  /\ prod.pc = "copy"
  /\ prod.copied < Words
  /\ data' = [data EXCEPT !.slot[prod.index][prod.copied + 1] = prod.buffer[prod.copied + 1]]
  /\ prod' = [prod EXCEPT !.copied = @ + 1]
  /\ UNCHANGED <<feedback, cons>>

(* Mutant: the head is published before the message is complete. *)
WritePublish_early ==
  /\ prod.pc = "copy"
  /\ data' = [data EXCEPT !.head = Increment(prod.index)]
  /\ prod' = [prod EXCEPT !.pc = "idle", !.index = Increment(@), !.result = Success]
  /\ UNCHANGED <<feedback, cons>>

(* The producer's ring head is written to the data page. *)
WritePublish ==
  /\ prod.pc = "copy"
  /\ prod.copied = Words
  /\ data' = [data EXCEPT !.head = Increment(prod.index)]
  /\ prod' = [prod EXCEPT !.pc = "idle", !.index = Increment(@), !.result = Success]
  /\ UNCHANGED <<feedback, cons>>

-----------------------------------------------------------------------------
(* read(), by the consumer *)

ReadCall ==
  /\ cons.pc = "idle"
  /\ cons' = [cons EXCEPT !.pc = "check", !.result = None]
  /\ UNCHANGED <<data, feedback, prod>>

(* The producer's ring head is read and compared. *)
ReadCheck ==
  /\ cons.pc = "check"
  /\ cons' = IF data.head = cons.index
               THEN [cons EXCEPT !.pc = "idle", !.result = NotFound]
               ELSE [cons EXCEPT !.pc = "copy", !.copied = 0]
  /\ UNCHANGED <<data, feedback, prod>>

ReadCopy ==
  /\ cons.pc = "copy"
  /\ cons.copied < Words
  /\ cons' = [cons EXCEPT !.buffer[cons.copied + 1] = data.slot[cons.index][cons.copied + 1],
                          !.copied = @ + 1]
  /\ UNCHANGED <<data, feedback, prod>>

(* The consumer's ring head is written to the feedback page. *)
ReadFeedback ==
  /\ cons.pc = "copy"
  /\ cons.copied = Words
  /\ feedback' = Increment(cons.index)
  /\ cons' = [cons EXCEPT !.pc = "idle", !.index = Increment(@), !.result = cons.buffer]
  /\ UNCHANGED <<data, prod>>

-----------------------------------------------------------------------------
(* A restart of the process at one end, then reset(false): the producer     *)
(* takes its index from the data page, the consumer from the feedback page. *)

ProducerRestart ==
  /\ prod' = [pc |-> "idle", index |-> data.head, buffer |-> ZeroSlot,
              copied |-> 0, result |-> None]
  /\ UNCHANGED <<data, feedback, cons>>

(* Mutant: the consumer continues from the producer's head. *)
ConsumerRestart_fromData ==
  /\ cons' = [pc |-> "idle", index |-> data.head, buffer |-> ZeroSlot,
              copied |-> 0, result |-> None]
  /\ UNCHANGED <<data, feedback, prod>>

ConsumerRestart ==
  /\ cons' = [pc |-> "idle", index |-> feedback, buffer |-> ZeroSlot,
              copied |-> 0, result |-> None]
  /\ UNCHANGED <<data, feedback, prod>>

Producer ==
  \/ \E m \in Messages : WriteCall(m)
  \/ WriteCheck
  \/ WriteCopy
  \/ WritePublish

Consumer == ReadCall \/ ReadCheck \/ ReadCopy \/ ReadFeedback

Next == Producer \/ Consumer \/ ProducerRestart \/ ConsumerRestart

Spec == Init /\ [][Next]_vars

-----------------------------------------------------------------------------
(* The refinement mapping: the queue is what lies between the two heads.    *)

(* The number of steps from ring index i forward to ring index j. *)
Distance(i, j) == IF i <= j THEN j - i ELSE j - i + MaximumMessages

(* The ring index n steps after i. *)
After(i, n) == IF i + n < MaximumMessages THEN i + n ELSE i + n - MaximumMessages

(* The messages from ring index i up to, and without, ring index j. *)
Contents(slot, i, j) == [n \in 1 .. Distance(i, j) |-> slot[After(i, n - 1)]]

Queue == Contents(data.slot, feedback, data.head)

F == INSTANCE Fifo WITH queue    <- Queue,
                        wresult  <- prod.result,
                        rresult  <- cons.result,
                        Capacity <- MaximumMessages - 1

(* MemoryChannel implements the bounded first in first out queue of whole   *)
(* messages: nothing is lost, duplicated, reordered or torn, "full" and     *)
(* "empty" are reported only when true, whichever way the two ends          *)
(* interleave and wherever one of them is restarted.                        *)
ImplementsFifo == F!Spec

End == [pc : {"idle", "check", "copy"}, index : Index, buffer : Slot, copied : 0 .. Words,
        result : Slot \cup {Success, ChannelFull, NotFound, None}]

(* The types of the pages and of the two channel objects. *)
TypeOK ==
  /\ data \in [head : Index, slot : [Index -> Slot]]
  /\ feedback \in Index
  /\ prod \in End
  /\ cons \in End

(* The inductive invariant: the private indices agree with the shared ring  *)
(* heads, a producer that copies has a free slot and a consumer that copies *)
(* a used one, and what has been copied so far is right.                    *)
IInv ==
  /\ TypeOK
  /\ prod.index = data.head
  /\ cons.index = feedback
  /\ prod.pc # "idle" => prod.buffer \in Messages
  /\ prod.pc = "copy" =>
       /\ Increment(prod.index) # feedback
       /\ \A k \in 1 .. prod.copied : data.slot[prod.index][k] = prod.buffer[k]
  /\ cons.pc = "copy" =>
       /\ cons.index # data.head
       /\ \A k \in 1 .. cons.copied : cons.buffer[k] = data.slot[cons.index][k]

(* The two ends never touch the same slot at the same time. *)
SlotsDisjoint == ~(prod.pc = "copy" /\ cons.pc = "copy" /\ prod.index = cons.index)

(* Every access stays inside the data page and off its ring head. *)
InPage ==
  \A e \in {prod, cons} :
    /\ Offset(e.index) >= HeadSize
    /\ Offset(e.index) + MessageSize <= PageSize
=============================================================================
