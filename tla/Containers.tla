------------------------------ MODULE Containers ------------------------------
(* The containers of lib/libstd: linked list, hash table, ring queue, vector and index. *)
EXTENDS Integers, SequencesExt, FiniteSetsExt

(* lib/libstd/List.h and ListIterator.h: the doubly linked list, and the     *)
(* iterator that the servers use to walk it and to remove items on the way.  *)
(* Nodes are addresses of a heap; deleting a node frees its address, and the *)
(* next new node may get it again.                                           *)

CONSTANTS List_Item,  \* the items
          MaxNodes    \* bound: the nodes the heap holds

VARIABLE list

List_ZERO == 0
Address == 1 .. MaxNodes
Freed == [data |-> "freed", prev |-> List_ZERO, next |-> List_ZERO]

(* The List with its iterator: the heap, m_head, m_tail and m_count, and     *)
(* m_current and m_next.  items and passed are the sequence that the list    *)
(* stands for and the items the iteration has dealt with.                    *)
List_Init ==
  list = [node |-> [a \in Address |-> Freed], head |-> List_ZERO, tail |-> List_ZERO, count |-> 0,
          current |-> List_ZERO, next |-> List_ZERO, items |-> <<>>, passed |-> <<>>, todo |-> <<>>]

Unused(l) == {a \in Address : l.node[a] = Freed}
NewNode(l) == CHOOSE a \in Unused(l) : TRUE

(* List::prepend *)
PrependAt(l, a, t) ==
  [l EXCEPT !.node = [n \in Address |-> CASE n = a -> [data |-> t, prev |-> List_ZERO, next |-> l.head]
                                          [] n = l.head -> [@[n] EXCEPT !.prev = a]
                                          [] OTHER -> @[n]],
            !.head = a, !.tail = IF @ = List_ZERO THEN a ELSE @, !.count = @ + 1]
prepend(t) ==
  /\ Unused(list) # {}
  /\ list' = [PrependAt(list, NewNode(list), t) EXCEPT !.items = <<t>> \o @]

(* List::append, operator << *)
AppendAt(l, a, t) ==
  [l EXCEPT !.node = [n \in Address |-> CASE n = a -> [data |-> t, prev |-> l.tail, next |-> List_ZERO]
                                          [] n = l.tail -> [@[n] EXCEPT !.next = a]
                                          [] OTHER -> @[n]],
            !.tail = a, !.head = IF @ = List_ZERO THEN a ELSE @, !.count = @ + 1]
List_append(t) ==
  /\ Unused(list) # {}
  /\ list' = [AppendAt(list, NewNode(list), t) EXCEPT !.items = Append(@, t)]

(* Mutant: m_tail is not updated when the last node goes. *)
Unlink_keeps_tail(l, a) ==
  [l EXCEPT !.node = [n \in Address |-> CASE n = a -> Freed
                                          [] n # a /\ n = l.node[a].prev -> [@[n] EXCEPT !.next = l.node[a].next]
                                          [] n # a /\ n = l.node[a].next -> [@[n] EXCEPT !.prev = l.node[a].prev]
                                          [] OTHER -> @[n]],
            !.head = IF a = @ THEN l.node[a].next ELSE @, !.count = @ - 1]

(* List::remove(Node) *)
Unlink(l, a) ==
  [l EXCEPT !.node = [n \in Address |-> CASE n = a -> Freed
                                          [] n # a /\ n = l.node[a].prev -> [@[n] EXCEPT !.next = l.node[a].next]
                                          [] n # a /\ n = l.node[a].next -> [@[n] EXCEPT !.prev = l.node[a].prev]
                                          [] OTHER -> @[n]],
            !.head = IF a = @ THEN l.node[a].next ELSE @,
            !.tail = IF a = @ THEN l.node[a].prev ELSE @,
            !.count = @ - 1]

(* List::remove(T): the walk reads the next node before it frees this one.   *)
RECURSIVE RemoveFrom(_, _, _)
RemoveFrom(l, a, t) ==
  IF a = List_ZERO THEN l
  ELSE RemoveFrom(IF l.node[a].data = t THEN Unlink(l, a) ELSE l, l.node[a].next, t)
List_remove(t) ==
  list' = [RemoveFrom(list, list.head, t) EXCEPT !.items = SelectSeq(@, LAMBDA x : x # t),
                                                 !.current = List_ZERO, !.next = List_ZERO, !.todo = <<>>]

(* List::clear, ~List *)
RECURSIVE DeleteFrom(_, _)
DeleteFrom(node, a) == IF a = List_ZERO THEN node ELSE DeleteFrom([node EXCEPT ![a] = Freed], node[a].next)
List_clear ==
  list' = [list EXCEPT !.node = DeleteFrom(@, list.head), !.head = List_ZERO, !.tail = List_ZERO, !.count = 0,
                       !.items = <<>>, !.current = List_ZERO, !.next = List_ZERO, !.todo = <<>>]

(* List::get, at, contains and head/tail read the walk.                      *)
RECURSIVE Walk(_, _)
Walk(node, a) == IF a = List_ZERO THEN <<>> ELSE <<node[a].data>> \o Walk(node, node[a].next)
RECURSIVE WalkBack(_, _)
WalkBack(node, a) == IF a = List_ZERO THEN <<>> ELSE Append(WalkBack(node, node[a].prev), node[a].data)
List_get(l, position) == IF position >= l.count THEN {} ELSE {Walk(l.node, l.head)[position + 1]}
List_contains(l, t) == t \in Range(Walk(l.node, l.head))

(* ListIterator(list), reset *)
reset ==
  list' = [list EXCEPT !.current = list.head, !.next = list.head, !.passed = <<>>, !.todo = list.items]

(* ListIterator::operator++ *)
List_hasCurrent == list.current # List_ZERO
hasNext(l) == l.next # List_ZERO
Step(l) ==
  IF l.current = List_ZERO THEN l
  ELSE LET n == l.node[l.current].next
       IN [l EXCEPT !.current = n, !.next = IF n # List_ZERO THEN l.node[n].next ELSE List_ZERO]
List_increment ==
  /\ List_hasCurrent
  /\ list' = [Step(list) EXCEPT !.passed = Append(@, list.node[list.current].data), !.todo = Tail(@)]

(* Mutant: the iterator steps over the item that follows the removed one. *)
IteratorRemove_steps(l) ==
  LET n == l.node[l.current].next
      l2 == IF n # List_ZERO THEN l.node[n].next ELSE List_ZERO
  IN Unlink([l EXCEPT !.current = l2, !.next = l2], l.current)

(* ListIterator::remove *)
IteratorRemove(l) ==
  Unlink([l EXCEPT !.current = l.node[l.current].next, !.next = l.node[l.current].next], l.current)
List_removeCurrent ==
  /\ List_hasCurrent
  /\ LET position == Len(list.items) - Len(list.todo) + 1
     IN list' = [IteratorRemove(list) EXCEPT !.passed = Append(@, list.node[list.current].data),
                                             !.todo = Tail(@), !.items = RemoveAt(@, position)]

(* An iteration is a loop of the caller: the list changes in it only through *)
(* the iterator.                                                             *)
List_Next ==
  \/ List_hasCurrent /\ (List_increment \/ List_removeCurrent)
  \/ ~List_hasCurrent /\ \/ \E t \in List_Item : prepend(t) \/ List_append(t) \/ List_remove(t)
                         \/ List_clear
                         \/ reset

(* The links are those of the sequence of items, walked from m_head and from *)
(* m_tail, m_count is its length, and the other nodes are freed: no item is  *)
(* lost, no freed node stays linked and none is leaked (List.h:111-247).     *)
Linked ==
  /\ Cardinality(Address) - Cardinality(Unused(list)) = Len(list.items)
  /\ Walk(list.node, list.head) = list.items
  /\ WalkBack(list.node, list.tail) = list.items
  /\ list.count = Len(list.items)
  /\ \A t \in List_Item : List_contains(list, t) <=> t \in Range(list.items)
  /\ \A i \in 0 .. MaxNodes : List_get(list, i) = IF i < Len(list.items) THEN {list.items[i + 1]} ELSE {}

(* An iteration that removes some of the items it meets meets every item of  *)
(* the list once, in order (ListIterator.h:153-186).                         *)
IterationComplete ==
  Walk(list.node, list.current) = list.todo

-------------------------------------------------------------------------------
(* lib/libstd/HashTable.h with Associative.h and HashIterator.h.  A bucket   *)
(* list is the sequence that module List shows a List to be.                 *)

CONSTANTS Key, Val,
          Hash,        \* hash(key, size): key -> bucket
          TableSize,
          MaxPairs     \* bound: the number of buckets in the table

VARIABLE table

(* Vector<List<Bucket>> m_table and m_count; keys is the snapshot that a     *)
(* HashIterator walks.  held is the association that the table stands for:   *)
(* for every key the values appended, in order.                              *)
HashTable_Init == table = [list |-> [i \in 0 .. TableSize - 1 |-> <<>>], count |-> 0, keys |-> <<>>,
                 held |-> [k \in Key |-> <<>>]]

Bucket(k, v) == [key |-> k, value |-> v]
Buckets(t, k) == t.list[Hash[k]]
Has(s, k) == \E i \in DOMAIN s : s[i].key = k
First(s, k) == CHOOSE i \in DOMAIN s : s[i].key = k /\ \A j \in 1 .. i - 1 : s[j].key # k

(* HashTable::append *)
appended(t, k, v) ==
  [t EXCEPT !.list[Hash[k]] = Append(@, Bucket(k, v)), !.count = @ + 1, !.held[k] = Append(@, v)]
HashTable_append(k, v) == table.count < MaxPairs /\ table' = appended(table, k, v)

(* Mutant: the first bucket of the list is overwritten, whatever its key. *)
insert_any_key(k, v) ==
  IF Has(Buckets(table, k), k)
  THEN table' = [table EXCEPT !.list[Hash[k]][1].value = v, !.held[k][1] = v]
  ELSE HashTable_append(k, v)

(* HashTable::insert: a key that exists gets the new value in its first bucket. *)
HashTable_insert(k, v) ==
  IF Has(Buckets(table, k), k)
  THEN table' = [table EXCEPT !.list[Hash[k]][First(Buckets(table, k), k)].value = v, !.held[k][1] = v]
  ELSE HashTable_append(k, v)

(* HashTable::remove *)
removed(t, k) ==
  LET left == SelectSeq(Buckets(t, k), LAMBDA b : b.key # k)
  IN [t EXCEPT !.list[Hash[k]] = left, !.count = @ - (Len(Buckets(t, k)) - Len(left)), !.held[k] = <<>>]
HashTable_remove(k) == table' = removed(table, k)

(* HashTable::keys, values, get, at and value *)
AllBuckets(t) == FlattenSeq([i \in 1 .. TableSize |-> t.list[i - 1]])
keys(t) == FoldLeft(LAMBDA lst, b : IF b.key \in Range(lst) THEN lst ELSE Append(lst, b.key), <<>>, AllBuckets(t))
keysOf(t, v) ==
  FoldLeft(LAMBDA lst, b : IF b.value # v \/ b.key \in Range(lst) THEN lst ELSE Append(lst, b.key), <<>>, AllBuckets(t))
values(t) == [i \in DOMAIN AllBuckets(t) |-> AllBuckets(t)[i].value]
valuesOf(t, k) == LET s == SelectSeq(Buckets(t, k), LAMBDA b : b.key = k) IN [i \in DOMAIN s |-> s[i].value]
HashTable_get(t, k) == IF Has(Buckets(t, k), k) THEN {Buckets(t, k)[First(Buckets(t, k), k)].value} ELSE {}
HashTable_contains(t, k) == Len(valuesOf(t, k)) > 0

(* Associative::clear: the loop asks hasNext() of an iterator that it moves  *)
(* with ++, which is false at the last of several keys; that key stays.      *)
clearedKeys(ks) == IF Len(ks) > 1 THEN Front(ks) ELSE ks
HashTable_clear == table' = FoldLeft(removed, table, clearedKeys(keys(table)))

(* HashIterator: the keys are copied when the loop starts; ++ leaves the     *)
(* current key, remove takes all its values out of the table.                *)
HashTable_hasCurrent == table.keys # <<>>
iterate == table' = [table EXCEPT !.keys = keys(table)]
HashTable_increment == table' = [table EXCEPT !.keys = Tail(@)]
HashTable_removeCurrent == table' = [removed(table, Head(table.keys)) EXCEPT !.keys = Tail(@)]

HashTable_Next ==
  \/ HashTable_hasCurrent /\ (HashTable_increment \/ HashTable_removeCurrent)
  \/ ~HashTable_hasCurrent /\ \/ \E k \in Key : HashTable_remove(k) \/ \E v \in Val : HashTable_insert(k, v) \/ HashTable_append(k, v)
                              \/ HashTable_clear
                              \/ iterate

(* The table is the association: collisions, overwriting and repeated keys   *)
(* leave for every key its values in order and nothing else, and count() is  *)
(* their number (HashTable.h:133-334).                                       *)
MapsKeys ==
  /\ \A k \in Key : /\ valuesOf(table, k) = table.held[k]
                    /\ HashTable_get(table, k) = IF table.held[k] = <<>> THEN {} ELSE {table.held[k][1]}
                    /\ HashTable_contains(table, k) <=> table.held[k] # <<>>
  /\ Range(keys(table)) = {k \in Key : table.held[k] # <<>>}
  /\ \A v \in Val : Range(keysOf(table, v)) = {k \in Key : v \in Range(table.held[k])}
  /\ table.count = Len(values(table))
  /\ Range(values(table)) = UNION {Range(table.held[k]) : k \in Key}

(* The keys that an iteration still has to visit are in the table: current() *)
(* never falls back on the head of the first bucket list, and that list may  *)
(* be empty (HashIterator.h:93-141, HashTable.h:307-316).                    *)
IteratesPresent ==
  \A i \in DOMAIN table.keys : HashTable_contains(table, table.keys[i])

-------------------------------------------------------------------------------
(* lib/libstd/Queue.h: the ring in which the kernel keeps its ready and its  *)
(* sleeping processes and a network device its packets.                      *)

CONSTANTS Queue_Item, Queue_N

VARIABLE queue

(* m_array, m_head, m_tail and m_count; items is the FIFO it stands for.     *)
Queue_Init == queue = [array |-> [i \in 0 .. Queue_N - 1 |-> "none"], head |-> 0, tail |-> 0, count |-> 0, items |-> <<>>]

(* Queue::push *)
Queue_Pushed(q, item) ==
  IF q.count >= Queue_N THEN q
  ELSE [q EXCEPT !.array[q.head] = item, !.head = (@ + 1) % Queue_N, !.count = @ + 1]
push(item) ==
  queue' = [Queue_Pushed(queue, item) EXCEPT !.items = IF Len(@) < Queue_N THEN Append(@, item) ELSE @]

(* Queue::pop: the callers ask count() first.                                *)
Popped(q) == [q EXCEPT !.tail = (@ + 1) % Queue_N, !.count = @ - 1]
pop == queue.count > 0 /\ queue' = [Popped(queue) EXCEPT !.items = Tail(@)]

(* Queue::contains *)
Queue_contains(q, item) == \E i \in 0 .. q.count - 1 : q.array[(q.tail + i) % Queue_N] = item

(* Mutant: the loop compares with the count that it changes itself. *)
RECURSIVE Rotate_live_count(_, _, _)
Rotate_live_count(q, i, value) ==
  IF i >= q.count THEN q
  ELSE LET item == q.array[q.tail]
           p == Popped(q)
       IN Rotate_live_count(IF item # value THEN Queue_Pushed(p, item) ELSE p, i + 1, value)
remove_live_count(value) ==
  queue' = [Rotate_live_count(queue, 0, value) EXCEPT !.items = SelectSeq(@, LAMBDA x : x # value)]

(* Queue::remove: every item is popped and, unless it is the value, pushed.  *)
RECURSIVE Rotate(_, _, _)
Rotate(q, n, value) ==
  IF n = 0 THEN q
  ELSE LET item == q.array[q.tail]
           p == Popped(q)
       IN Rotate(IF item # value THEN Queue_Pushed(p, item) ELSE p, n - 1, value)
Queue_remove(value) ==
  queue' = [Rotate(queue, queue.count, value) EXCEPT !.items = SelectSeq(@, LAMBDA x : x # value)]

(* Queue::clear *)
Queue_clear == queue' = [queue EXCEPT !.head = 0, !.tail = 0, !.count = 0, !.items = <<>>]

Queue_Next == Queue_clear \/ pop \/ \E item \in Queue_Item : push(item) \/ Queue_remove(item)

(* The ring holds the items of the FIFO in order, wherever m_tail stands:    *)
(* remove() from the middle neither reorders nor drops another item          *)
(* (Queue.h:55-126; Scheduler::dequeue and ProcessManager rely on it).       *)
IsFifo ==
  /\ queue.items = [i \in 1 .. queue.count |-> queue.array[(queue.tail + i - 1) % Queue_N]]
  /\ \A item \in Queue_Item : Queue_contains(queue, item) <=> item \in Range(queue.items)

-------------------------------------------------------------------------------
(* lib/libstd/Vector.h and Array.h with Sequence.h and Container.cpp.  What  *)
(* new T[] leaves in an element is not defined: it is "undefined" here.            *)

CONSTANTS Vector_Item,
          Sizes,      \* the sizes a vector is created with
          MaxSize     \* bound: what a vector may grow to

VARIABLE vector

Undefined == "undefined"
New(size) == [i \in 0 .. size - 1 |-> Undefined]

(* m_array, m_size and m_count; items is the sequence the vector stands for. *)
Created(size) == [array |-> New(size), size |-> size, count |-> 0, items |-> <<>>]
Vector_Init == \E size \in Sizes : vector = Created(size)

(* Mutant: the new array starts empty. *)
resize_no_copy(v, size) == [v EXCEPT !.array = New(size), !.size = size]

(* Vector::resize, to a larger size (Container::reserve) *)
resize(v, size) ==
  [v EXCEPT !.array = [i \in 0 .. size - 1 |-> IF i < v.size THEN @[i] ELSE Undefined], !.size = size]
reserve(size) ==
  /\ size \in 1 .. MaxSize
  /\ vector' = IF vector.size > size THEN vector ELSE resize(vector, size)

(* Vector::insert(item) *)
Place(v, position, item) == [v EXCEPT !.array[position] = item]
Vector_Pushed(v, item) == [Place(v, v.count, item) EXCEPT !.count = @ + 1, !.items = Append(@, item)]
Vector_insert(item) ==
  /\ vector.count < vector.size \/ 2 * vector.size <= MaxSize
  /\ vector' = Vector_Pushed(IF vector.count = vector.size THEN resize(vector, 2 * vector.size) ELSE vector, item)

(* Vector::insert(position, item): the count grows to the position, and the  *)
(* elements that it skips keep what they had.                                *)
Larger(size, position) == size + (IF position > 2 * size THEN position ELSE 2 * size)
Room(v, position) == IF position >= v.size THEN resize(v, Larger(v.size, position)) ELSE v
Counted(v, position) == [v EXCEPT !.count = IF position >= @ THEN position + 1 ELSE @]
Extended(v) == [v EXCEPT !.items = [i \in 1 .. v.count |-> v.array[i - 1]]]
Vector_insertAt(position, item) ==
  /\ position < vector.size \/ Larger(vector.size, position) <= MaxSize
  /\ vector' = Extended(Place(Counted(Room(vector, position), position), position, item))

(* Vector::removeAt *)
removeAt(position) ==
  /\ position < vector.count
  /\ vector' = [vector EXCEPT !.array = [i \in 0 .. vector.size - 1 |->
                                           IF i \in position .. vector.count - 2 THEN @[i + 1] ELSE @[i]],
                              !.count = @ - 1, !.items = RemoveAt(@, position + 1)]

(* Vector::clear *)
Vector_clear == vector' = [vector EXCEPT !.count = 0, !.items = <<>>]

(* Sequence::fill, of a Vector and of an Array of the same size *)
fill(item) ==
  vector' = [vector EXCEPT !.array = [i \in DOMAIN @ |-> item], !.count = vector.size,
                           !.items = [i \in 1 .. vector.size |-> item]]

(* Vector::get, Sequence::contains and Sequence::compareTo: contains() looks *)
(* at all size() elements, those behind count() included.                    *)
Vector_get(v, position) == IF position >= v.count THEN {} ELSE {v.array[position]}
Vector_contains(v, item) == \E i \in 0 .. v.size - 1 : v.array[i] = item
Differ(v, w) == {i \in 0 .. v.count - 1 : v.array[i] # w.array[i]}
compareTo(v, w) ==
  CASE v.size # w.size -> w.size - v.size
    [] v.size = w.size /\ v.count # w.count -> w.count - v.count
    [] OTHER -> IF Differ(v, w) = {} THEN 0 ELSE Min(Differ(v, w)) + 1

Vector_Next ==
  \/ Vector_clear
  \/ \E size \in 1 .. MaxSize : reserve(size)
  \/ \E item \in Vector_Item : Vector_insert(item) \/ fill(item) \/ \E position \in 0 .. MaxSize : Vector_insertAt(position, item)
  \/ \E position \in 0 .. MaxSize : removeAt(position)

(* The elements below count() are the items inserted, in order, through all  *)
(* growing and moving, get() gives them out and nothing behind them, and a   *)
(* vector compares equal to itself and to no vector with one item more.      *)
Holds ==
  /\ vector.count <= vector.size
  /\ \A i \in 0 .. MaxSize :
       Vector_get(vector, i) = IF i < Len(vector.items) THEN {vector.items[i + 1]} ELSE {}
  /\ \A i \in DOMAIN vector.items : Vector_contains(vector, vector.items[i])
  /\ compareTo(vector, vector) = 0
  /\ \A item \in Vector_Item : vector.count < vector.size => compareTo(vector, Vector_Pushed(vector, item)) # 0

-------------------------------------------------------------------------------
(* lib/libstd/Index.h: the fixed table of pointers in which the kernel keeps *)
(* its processes, shares and apis, and the servers their files and sockets.  *)

CONSTANTS Object, Index_N

VARIABLE index

Index_ZERO == "zero"
Slot == 0 .. Index_N - 1

(* m_array and m_count *)
Index_Init == index = [array |-> [i \in Slot |-> Index_ZERO], count |-> 0]

(* Index::insert *)
EmptySlots(x) == {i \in Slot : x.array[i] = Index_ZERO}
Index_insert(item) ==
  index' = IF index.count = Index_N THEN index
           ELSE [index EXCEPT !.array[Min(EmptySlots(index))] = item, !.count = @ + 1]

(* Mutant: an object that replaces another one is counted again. *)
insertAt_counts(position, item) ==
  index' = [index EXCEPT !.array[position] = item, !.count = @ + 1]

(* Index::insertAt *)
Index_insertAt(position, item) ==
  index' = [index EXCEPT !.array[position] = item, !.count = IF index.array[position] = Index_ZERO THEN @ + 1 ELSE @]

(* Index::remove *)
Index_remove(position) ==
  /\ index.array[position] # Index_ZERO
  /\ index' = [index EXCEPT !.array[position] = Index_ZERO, !.count = @ - 1]

(* Index::deleteAll *)
deleteAll == index' = [index EXCEPT !.array = [i \in Slot |-> Index_ZERO], !.count = 0]

(* Index::get, contains *)
Index_get(x, position) == IF position >= Index_N THEN Index_ZERO ELSE x.array[position]
Index_contains(x, item) == \E i \in Slot : x.array[i] = item

Index_Next ==
  \/ deleteAll
  \/ \E item \in Object : Index_insert(item) \/ \E i \in Slot : Index_insertAt(i, item)
  \/ \E i \in Slot : Index_remove(i)

(* m_count is the number of objects: insert() is refused exactly when there  *)
(* is no empty slot, and its loop never ends without one (assert(false) at   *)
(* Index.h:86).                                                              *)
Counts ==
  /\ index.count = Cardinality({i \in Slot : Index_get(index, i) # Index_ZERO})
  /\ index.count < Index_N => EmptySlots(index) # {}
===============================================================================
