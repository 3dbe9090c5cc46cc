--------------------------------- MODULE Heap ---------------------------------
(* Bit arrays and the pools of the heap. *)
EXTENDS Integers, FiniteSetsExt, FiniteSets, SequencesExt

(* lib/libstd/BitArray.cpp: the bitmap below the allocators, with the search *)
(* loop of setNext() as it is written; module Allocators uses what it        *)
(* computes.                                                                 *)

CONSTANTS BitCount,
          Ranges,      \* the ranges <<from, to>> that setRange() is called with
          BitArray_Requests,    \* the requests <<count, start, boundary>> of setNext()
          MaxCalls     \* bound: the calls that change the bitmap

VARIABLE bitmap

BitArray_Bits == 0 .. BitCount - 1
Closed == INSTANCE Allocators

(* m_array, as the set of bits that are on, and m_set *)
BitArray_Init == bitmap = [on |-> {}, set |-> 0, calls |-> 0]
Becomes(b) == bitmap.calls < MaxCalls /\ bitmap' = [b EXCEPT !.calls = @ + 1]

(* BitArray::set *)
set(b, bit, value) ==
  IF bit >= BitCount \/ (bit \in b.on) = value THEN b
  ELSE IF value THEN [b EXCEPT !.on = @ \cup {bit}, !.set = @ + 1]
                ELSE [b EXCEPT !.on = @ \ {bit}, !.set = @ - 1]

(* BitArray::setRange: set() of every bit of the range *)
SetBits(b, from, to) ==
  LET more == ((from .. to) \cap BitArray_Bits) \ b.on IN [b EXCEPT !.on = @ \cup more, !.set = @ + Cardinality(more)]
setRange(from, to) == Becomes(SetBits(bitmap, from, to))
unset(bit) == Becomes(set(bitmap, bit, FALSE))

(* The search of BitArray::setNext, from bit i with a run of found bits at   *)
(* from: a full word, then a full byte is passed over at once.               *)
Full(b, i, width) ==
  BitCount > width /\ i < BitCount - width /\ (i \div width) * width .. (i \div width) * width + width - 1 \subseteq b.on
Skip(i, width) == i + (width - (i % width))

(* Mutant: a skipped byte does not end the run that was found before it. *)
RECURSIVE Search_keeps_run(_, _, _, _, _, _)
Search_keeps_run(b, i, from, found, count, boundary) ==
  IF i >= BitCount THEN [bit |-> Closed!NoBit, last |-> i]
  ELSE IF i \in b.on THEN Search_keeps_run(b, i + 1, from, found, count, boundary)
  ELSE LET first == found = 0 /\ i % boundary = 0
           f == IF found > 0 THEN found + 1 ELSE IF first THEN 1 ELSE 0
           s == IF first THEN i ELSE from
       IN IF f >= count THEN [bit |-> s, last |-> i] ELSE Search_keeps_run(b, i + 1, s, f, count, boundary)

RECURSIVE Search(_, _, _, _, _, _)
Search(b, i, from, found, count, boundary) ==
  IF i >= BitCount THEN [bit |-> Closed!NoBit, last |-> i]
  ELSE IF Full(b, i, 32) THEN Search(b, Skip(i, 32), 0, 0, count, boundary)
  ELSE IF Full(b, i, 8) THEN Search(b, Skip(i, 8), 0, 0, count, boundary)
  ELSE IF i \in b.on THEN Search(b, i + 1, 0, 0, count, boundary)
  ELSE LET first == found = 0 /\ i % boundary = 0
           f == IF found > 0 THEN found + 1 ELSE IF first THEN 1 ELSE 0
           s == IF first THEN i ELSE from
       IN IF f >= count THEN [bit |-> s, last |-> i] ELSE Search(b, i + 1, s, f, count, boundary)

(* BitArray::setNext *)
setNext(count, start, boundary) ==
  LET r == Search(bitmap, start, 0, 0, count, boundary)
  IN Becomes(IF r.bit = Closed!NoBit THEN bitmap ELSE SetBits(bitmap, r.bit, r.last))

(* BitArray::clear, and setArray() with a bitmap of which half is on: m_set  *)
(* is counted again.                                                         *)
setArray(on) == Becomes([bitmap EXCEPT !.on = on, !.set = Cardinality(on)])
clear == Becomes([bitmap EXCEPT !.on = {}, !.set = 0])

BitArray_Next ==
  \/ clear
  \/ setArray({b \in BitArray_Bits : b % 2 = 0})
  \/ \E r \in Ranges : setRange(r[1], r[2])
  \/ \E bit \in {r[1] : r \in Ranges} : unset(bit)
  \/ \E r \in BitArray_Requests : setNext(r[1], r[2], r[3])

(* m_set, which BitAllocator::available() reports, is the number of bits on. *)
Counted == bitmap.set = Cardinality(bitmap.on)

(* The loop with its two fast paths finds the first aligned run of clear     *)
(* bits, the one that module Allocators defines in closed form               *)
(* (BitArray.cpp:104-160).                                                   *)
SearchFindsFirst ==
  \A r \in BitArray_Requests :
    LET found == Search(bitmap, r[2], 0, 0, r[1], r[3])
        first == Closed!setNext([size |-> BitCount, set |-> bitmap.on, last |-> 0], r[1], r[2], r[3])
    IN /\ found.bit = first
       /\ found.bit # Closed!NoBit => found.last = found.bit + r[1] - 1

-------------------------------------------------------------------------------
(* lib/liballoc/PoolAllocator.cpp, the heap of the kernel and of every       *)
(* program, on its parent: the BubbleAllocator of the kernel, or the         *)
(* PageAllocator of a program, which maps 32 pages at a time.  Addresses and *)
(* sizes are in bytes, as on a 32-bit processor.                             *)

CONSTANTS PoolAllocator_Requests,      \* the sizes that new is called with
          Parents,       \* [grain, size]: what the parent rounds up to, and how much it has
          MaxObjects     \* bound: the objects that are alive

VARIABLE heap

PoolAllocator_Bits == INSTANCE Allocators

PoolSize == 64           \* sizeof(Pool)
PrefixSize == 8
PostfixSize == 4
Chunk == 16384           \* KiloByte(16)
MinimumPoolSize == 2
MaximumPoolSize == 27

(* m_pools: for every index the list of its pools, the newest one first; the *)
(* bytes the parent has given out; and the objects that new returned.        *)
PoolAllocator_Init == \E p \in Parents : heap = [pools |-> [i \in MinimumPoolSize .. MaximumPoolSize |-> <<>>],
                                   parent |-> p, allocated |-> 0, objects |-> {}]

(* Allocator::aligned *)
aligned(n, boundary) == IF n % boundary = 0 THEN n ELSE n + (boundary - (n % boundary))

(* PoolAllocator::calculateObjectSize, calculateObjectCount *)
calculateObjectSize(index) == 2^index
calculateObjectCount(objectSize) == IF objectSize >= Chunk THEN 1 ELSE Chunk \div objectSize

(* BubbleAllocator::allocate, PageAllocator::allocate *)
Parent(h, size) ==
  LET bytes == aligned(size, h.parent.grain)
  IN IF h.allocated + bytes > h.parent.size THEN {} ELSE {[address |-> h.allocated, size |-> bytes]}

(* The loop of allocatePool: as many objects as fit with their bitmap.       *)
ObjectCount(size, objectCount, objectSize) ==
  LET first == (size - PoolSize - objectCount) \div objectSize
  IN CHOOSE n \in objectCount .. first :
       /\ PoolSize + aligned(n, 4) + n * objectSize <= size
       /\ \A m \in n + 1 .. first : PoolSize + aligned(m, 4) + m * objectSize > size

(* PoolAllocator::allocatePool: the Pool, its bitmap and its objects in one  *)
(* piece of memory of the parent.                                            *)
Pool(index, range, n) ==
  [index |-> index, address |-> range.address, size |-> range.size,
   base |-> range.address + PoolSize + aligned(n, 4), bits |-> [size |-> n, set |-> {}, last |-> 0]]
allocatePool(h, index, objectCount) ==
  LET objectSize == calculateObjectSize(index)
      total == aligned(PoolSize + objectCount + objectCount * objectSize, 4)
  IN {[h EXCEPT !.pools[index] = <<Pool(index, range, ObjectCount(range.size, objectCount, objectSize))>> \o @,
                !.allocated = @ + range.size] : range \in Parent(h, total)}

(* PoolAllocator::retrievePool: the first pool of the list with a free       *)
(* object, or a new one, of which the size grows with the number of pools.   *)
Index(size) ==
  CHOOSE i \in MinimumPoolSize .. MaximumPoolSize :
    /\ size <= calculateObjectSize(i)
    /\ i > MinimumPoolSize => size > calculateObjectSize(i - 1)
Available(pool) == PoolAllocator_Bits!available(pool.bits) > 0
retrievePool(h, index) ==
  LET pools == h.pools[index]
      usable == {i \in DOMAIN pools : Available(pools[i])}
      objects == calculateObjectCount(calculateObjectSize(index))
  IN IF usable # {} THEN {[h |-> h, i |-> CHOOSE i \in usable : \A j \in usable : i <= j]}
     ELSE {[h |-> g, i |-> 1] : g \in allocatePool(h, index, IF pools = <<>> THEN objects ELSE objects * Len(pools))}

Object(pool, bit, size) ==
  LET address == pool.base + bit * calculateObjectSize(pool.index)
  IN [address |-> address + PrefixSize, size |-> size, index |-> pool.index, pool |-> pool.address,
      postfix |-> address + PrefixSize + aligned(size, 4)]
Taken(g, index, i, size) ==
  LET pool == g.pools[index][i]
      a == PoolAllocator_Bits!allocate(pool.bits, 1, 1)
  IN [g EXCEPT !.pools[index][i].bits = a.alloc, !.objects = @ \cup {Object(pool, a.bit, size)}]


(* PoolAllocator::allocate *)
allocate(size) ==
  /\ size > 0 /\ Cardinality(heap.objects) < MaxObjects
  /\ LET index == Index(aligned(size, 4) + PrefixSize + PostfixSize)
         found == retrievePool(heap, index)
     IN IF found = {} THEN UNCHANGED heap
        ELSE heap' \in {Taken(f.h, index, f.i, size) : f \in found}

(* PoolAllocator::release: the chunk of the object is free again.  The pool  *)
(* stays when it is empty: neither parent releases memory.                   *)
release(o) ==
  /\ o \in heap.objects
  /\ LET i == CHOOSE i \in DOMAIN heap.pools[o.index] : heap.pools[o.index][i].address = o.pool
         pool == heap.pools[o.index][i]
         bit == (o.address - PrefixSize - pool.base) \div calculateObjectSize(o.index)
     IN heap' = [heap EXCEPT !.objects = @ \ {o}, !.pools[o.index][i].bits = PoolAllocator_Bits!release(@, bit)]

PoolAllocator_Next == \/ \E size \in PoolAllocator_Requests : allocate(size)
        \/ \E o \in heap.objects : release(o)

(* Every object, with its prefix and postfix, lies inside its pool behind    *)
(* the bitmap, the pools lie apart in the memory of the parent, and no two   *)
(* objects share a byte: nothing that a program writes into an object        *)
(* reaches another object, a signature or a bitmap (PoolAllocator.cpp:87).   *)
ObjectsApart ==
  LET Pools == UNION {Range(heap.pools[i]) : i \in DOMAIN heap.pools}
      Start(o) == o.address - PrefixSize
      End(o) == o.postfix + PostfixSize
  IN /\ \A p \in Pools : /\ p.base + p.bits.size * calculateObjectSize(p.index) <= p.address + p.size
                         /\ p.address + p.size <= heap.allocated
                         /\ p.base >= p.address + PoolSize + p.bits.size
     /\ \A p, q \in Pools : p # q => p.address + p.size <= q.address \/ q.address + q.size <= p.address
     /\ \A o \in heap.objects : \E p \in Pools :
          /\ p.address = o.pool /\ p.base <= Start(o)
          /\ End(o) <= p.base + p.bits.size * calculateObjectSize(p.index)
     /\ \A o, q \in heap.objects : o # q => End(o) <= Start(q) \/ End(q) <= Start(o)
===============================================================================
