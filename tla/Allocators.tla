----------------------------- MODULE Allocators -----------------------------
(***************************************************************************)
(* The physical page allocator of lib/liballoc: SplitAllocator, a thin     *)
(* layer on BitAllocator, on the BitArray of lib/libstd.  An allocator is  *)
(* a record: size is the number of chunks, set the chunks in use, and last *)
(* (m_lastBit) where the previous search ended.  A chunk is its bit index; *)
(* its address is base() plus the index.                                   *)
(***************************************************************************)
EXTENDS Integers, FiniteSets, FiniteSetsExt

NoBit == -1

Allocator == [size : Nat, set : SUBSET Nat, last : Nat]

(* The chunks of a request for count of them that starts at bit. *)
Run(bit, count) == bit .. bit + count - 1

(* What BitArray::setNext looks for: an aligned start at or after start    *)
(* with count clear bits.  A request for no bits at all finds one.         *)
Fits(a, count, start, boundary) ==
  {bit \in start .. a.size - 1 :
     /\ bit % boundary = 0
     /\ bit \notin a.set
     /\ \A i \in Run(bit, count) : i < a.size /\ i \notin a.set}

First(F) == IF F = {} THEN NoBit ELSE Min(F)

(* BitArray::setNext *)
setNext(a, count, start, boundary) == First(Fits(a, count, start, boundary))

(* BitAllocator::allocateFrom, with what setNext() found *)
allocateFrom(a, count, bit) ==
  [bit |-> bit,
   alloc |-> IF bit = NoBit THEN a ELSE [a EXCEPT !.set = @ \cup {bit} \cup Run(bit, count), !.last = bit]]

(* BitAllocator::allocate: from where the previous search ended, then from *)
(* the start.                                                              *)
allocate(a, count, boundary) ==
  LET start == IF Fits(a, count, a.last, boundary) # {} THEN a.last ELSE 0
  IN allocateFrom(a, count, setNext(a, count, start, boundary))

(* BitAllocator::allocateAt, of a chunk that is not in use. *)
allocateAt(a, bit) == [a EXCEPT !.set = @ \cup {bit}]

isAllocated(a, bit) == bit \in a.set

(* BitAllocator::release frees one chunk, however many allocate() gave. *)
release(a, bit) == [a EXCEPT !.set = @ \ {bit}]

(* BitAllocator::available *)
available(a) == a.size - Cardinality(a.set)
=============================================================================
