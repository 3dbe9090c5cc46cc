--------------------------- MODULE ProcessShares ----------------------------
(***************************************************************************)
(* The memory shares of processes on one core: kernel/ProcessShares.cpp,   *)
(* the VMShare handler of kernel/API/VMShare.cpp, and the parts of         *)
(* Process::initialize, Process::raiseEvent and ~Process that use them.    *)
(*                                                                         *)
(* The pages of one share are a block of the physical allocator.  A share  *)
(* is a pair of MemoryShare objects, one in each process, that name the    *)
(* same block; it is attached while the other process still has its half.  *)
(* A kernel call is one step.  The kernel event channel of a process is    *)
(* the bounded queue that module MemoryChannel implements.                 *)
(***************************************************************************)
EXTENDS Naturals, Sequences, FiniteSets

CONSTANTS
  PIDS,       \* slots of the process table
  Kernel,     \* KERNEL_PID
  Tags,       \* the tag identifiers in use
  Tag,        \* the tag identifier of channels, 0
  Blocks,     \* physical memory for shares
  MaxShares,  \* MaximumMemoryShares, the kernel event channel included
  MaxEvents   \* bound: capacity of a kernel event channel

ASSUME SharesAssumption ==
  /\ Kernel \notin PIDS
  /\ Tag \in Tags
  /\ MaxShares \in Nat \ {0}
  /\ MaxEvents \in Nat \ {0}
  /\ IsFiniteSet(Blocks)

VARIABLES
  live,    \* the processes that exist
  shares,  \* m_shares of each process
  mapped,  \* the blocks mapped in the memory context of each process
  free,    \* the free blocks of the physical allocator
  events,  \* the kernel event channel of each process
  dropped, \* history: the blocks that an error path of createShare() lost
  missed   \* history: the processes that missed an event since they exist

vars == <<live, shares, mapped, free, events, dropped, missed>>

Share == [pid : PIDS \cup {Kernel}, tag : Tags, block : Blocks, attached : BOOLEAN]

Event == [type : {"ShareCreated"}, pid : PIDS, block : Blocks]
           \cup [type : {"ProcessTerminated"}, pid : PIDS]

Init ==
  /\ live = {}
  /\ shares = [p \in PIDS |-> {}]
  /\ mapped = [p \in PIDS |-> {}]
  /\ free = Blocks
  /\ events = [p \in PIDS |-> << >>]
  /\ dropped = {}
  /\ missed = {}

-----------------------------------------------------------------------------
(* Index::insert does nothing when the index is full; createShare() does    *)
(* not look at its result.                                                  *)
insert(S, s) == IF Cardinality(S) < MaxShares THEN S \cup {s} ELSE S

(* Process::raiseEvent ignores that the channel is full.  raise(evs, Q, e)  *)
(* writes event e to the channels of the processes Q.                       *)
raise(evs, Q, e) ==
  [p \in PIDS |-> IF p \in Q /\ Len(evs[p]) < MaxEvents THEN Append(evs[p], e) ELSE evs[p]]

Full(Q) == {p \in Q : Len(events[p]) = MaxEvents}

findShare(p, q, t) == {s \in shares[p] : s.pid = q /\ s.tag = t}

Blocked(S) == {s.block : s \in S}

(* releaseShare() of an attached share marks every share that the other     *)
(* process has with us, of this tag and of others, as detached.             *)
detach(shs, p, Q) ==
  [q \in PIDS |-> IF q \in Q
                    THEN {IF s.pid = p THEN [s EXCEPT !.attached = FALSE] ELSE s : s \in shs[q]}
                    ELSE shs[q]]

(* Mutant: the pages are released by the first process that detaches. *)
released_attached(S) == Blocked(S)

(* Mutant: no pages are released. *)
released_none(S) == {}

(* releaseShare() of a detached share returns its pages to the allocator.   *)
released(S) == Blocked({s \in S : ~s.attached})

(* Mutant: the other process is looked for among the detached shares. *)
Others_detached(S) == {s.pid : s \in {r \in S : ~r.attached}} \cap live

(* The processes that still exist at the other end of attached shares S.    *)
Others(S) == {s.pid : s \in {r \in S : r.attached}} \cap live

-----------------------------------------------------------------------------
(* Process::initialize: the kernel event channel is a share with the kernel *)
(* that is never attached, so that its release always frees the pages.      *)
Spawn(p) ==
  /\ p \notin live
  /\ \E b \in free :
       /\ free' = free \ {b}
       /\ shares' = [shares EXCEPT ![p] = {[pid |-> Kernel, tag |-> Tag, block |-> b,
                                             attached |-> FALSE]}]
       /\ mapped' = [mapped EXCEPT ![p] = {b}]
  /\ live' = live \cup {p}
  /\ events' = [events EXCEPT ![p] = << >>]
  /\ UNCHANGED <<dropped, missed>>

(* ProcessManager::remove deletes the process: its memory context goes, its *)
(* shares are released, and then everyone who had a share with it is told.  *)
Kill(p) ==
  LET peers == {s.pid : s \in shares[p]} \cap (live \ {p})
  IN  /\ p \in live
      /\ live' = live \ {p}
      /\ shares' = [detach(shares, p, Others(shares[p]) \ {p}) EXCEPT ![p] = {}]
      /\ free' = free \cup released(shares[p])
      /\ mapped' = [mapped EXCEPT ![p] = {}]
      /\ events' = [raise(events, peers, [type |-> "ProcessTerminated", pid |-> p])
                      EXCEPT ![p] = << >>]
      /\ missed' = (missed \cup Full(peers)) \ {p}
      /\ UNCHANGED dropped

(* VMShare(q, Create) by process p: what createShare() does after its two   *)
(* checks.  Each early return loses what was done before it.  No program    *)
(* shares memory with itself.                                               *)

(* Mutant: a share that is still detaching is overlooked. *)
Vacant_detaching(p, q, t) == findShare(p, q, t) = {}

Vacant(p, q, t) ==
  /\ findShare(p, q, t) = {}
  /\ \A s \in findShare(q, p, t) : s.attached

Create(p, q, t, b) ==
  LET local  == [pid |-> q, tag |-> t, block |-> b, attached |-> TRUE]
      remote == [local EXCEPT !.pid = p]
      new    == [shares EXCEPT ![p] = insert(@, local), ![q] = insert(@, remote)]
  IN  /\ p \in live /\ q \in live /\ p # q
      /\ Vacant(p, q, t)
      /\ b \in free
      /\ free' = free \ {b}
      /\ mapped' = [mapped EXCEPT ![p] = @ \cup {b}, ![q] = @ \cup {b}]
      /\ shares' = new
      /\ events' = raise(events, {q}, [type |-> "ShareCreated", pid |-> p, block |-> b])
      /\ missed' = missed \cup Full({q})
      /\ dropped' = IF local \in new[p] /\ remote \in new[q] THEN dropped ELSE dropped \cup {b}
      /\ UNCHANGED live

(* findFree() or mapRangeContiguous() fails in p, or it succeeds in p and   *)
(* fails in q.                                                              *)
CreateFails(p, q, t, b) ==
  /\ p \in live /\ q \in live /\ p # q
  /\ Vacant(p, q, t)
  /\ b \in free
  /\ free' = free \ {b}
  /\ mapped' \in {mapped, [mapped EXCEPT ![p] = @ \cup {b}]}
  /\ dropped' = dropped \cup {b}
  /\ UNCHANGED <<live, shares, events, missed>>

(* Mutant: the pages stay mapped. *)
Delete_mapped(p, q) ==
  LET S == {s \in shares[p] : s.pid = q}
  IN  /\ p \in live
      /\ shares' = [detach(shares, p, Others(S)) EXCEPT ![p] = @ \ S]
      /\ free' = free \cup released(S)
      /\ UNCHANGED <<live, mapped, events, dropped, missed>>

(* VMShare(q, Delete) by process p, which need not be at the other end and  *)
(* need not exist: removeShares() releases all shares of p with q.          *)
Delete(p, q) ==
  LET S == {s \in shares[p] : s.pid = q}
  IN  /\ p \in live
      /\ shares' = [detach(shares, p, Others(S)) EXCEPT ![p] = @ \ S]
      /\ free' = free \cup released(S)
      /\ mapped' = [mapped EXCEPT ![p] = @ \ Blocked(S)]
      /\ UNCHANGED <<live, events, dropped, missed>>

(* Process p reads an event from its kernel event channel. *)
ReadEvent(p) ==
  /\ p \in live
  /\ events[p] # << >>
  /\ events' = [events EXCEPT ![p] = Tail(@)]
  /\ UNCHANGED <<live, shares, mapped, free, dropped, missed>>

Next ==
  \/ \E p \in PIDS : Spawn(p) \/ Kill(p) \/ ReadEvent(p)
  \/ \E p, q \in PIDS, t \in Tags, b \in Blocks : Create(p, q, t, b) \/ CreateFails(p, q, t, b)
  \/ \E p, q \in PIDS : p # q /\ Delete(p, q)

Spec == Init /\ [][Next]_vars

-----------------------------------------------------------------------------
(* The types of the variables. *)
Typed ==
  /\ live \subseteq PIDS
  /\ shares \in [PIDS -> SUBSET Share]
  /\ mapped \in [PIDS -> SUBSET Blocks]
  /\ free \subseteq Blocks
  /\ events \in [PIDS -> Seq(Event)]
  /\ dropped \subseteq Blocks
  /\ missed \subseteq live
  /\ \A p \in PIDS : Len(events[p]) <= MaxEvents

(* The types, the bounds of the share index and of the event channel        *)
(* included.                                                                *)
TypeOK == Typed /\ \A p \in PIDS : Cardinality(shares[p]) <= MaxShares

(* No page is returned to the allocator while a process has it mapped, nor  *)
(* twice, in any order of detaching, termination and reuse of identifiers;  *)
(* "only release physical memory if both processes have detached".  Pages   *)
(* of which a full index or a failed mapping lost half are the exception.   *)
NoReleaseWhileMapped == \A p \in PIDS : mapped[p] \cap free \subseteq dropped

(* No page is lost: what is not free belongs to a share of a process that   *)
(* exists, unless an error path of createShare() dropped it.                *)
PagesAccounted ==
  Blocks \ free \subseteq dropped \cup UNION {Blocked(shares[p]) : p \in live}

(* An attached share has its other half: the process it names exists, is    *)
(* not a later process with the same identifier, and maps the same pages.   *)
AttachedIsShared ==
  \A p \in PIDS : \A s \in shares[p] :
    s.attached /\ s.block \notin dropped =>
      /\ s.pid \in live
      /\ \E r \in shares[s.pid] : r.pid = p /\ r.block = s.block /\ s.block \in mapped[s.pid]

(* A detached share is the last use of its pages, so that the release by    *)
(* its owner frees them exactly once.                                       *)
DetachedIsLast ==
  \A p \in PIDS : \A s \in shares[p] :
    ~s.attached /\ s.block \notin dropped => \A q \in PIDS \ {p} : s.block \notin mapped[q]

(* The inductive invariant: an attached share and its other half name each  *)
(* other, and no other share has their pages.                               *)
Pairs ==
  \A p \in PIDS : \A s \in shares[p] :
    s.attached /\ s.block \notin dropped =>
      /\ s.pid \in live \ {p}
      /\ \E r \in shares[s.pid] : r.pid = p /\ r.block = s.block /\ r.attached

Exclusive ==
  \A p, q \in PIDS : \A s \in shares[p], r \in shares[q] :
    s.block = r.block /\ s.block \notin dropped =>
      IF p = q THEN s = r ELSE s.attached /\ r.attached /\ s.pid = q /\ r.pid = p

Used ==
  \A p \in PIDS :
    /\ p \notin live => shares[p] = {} /\ mapped[p] = {}
    /\ \A b \in Blocks \ dropped :
         b \in mapped[p] <=> \E s \in shares[p] : s.block = b
    /\ mapped[p] \cap free \subseteq dropped

IInv == Typed /\ Pairs /\ Exclusive /\ Used /\ PagesAccounted
=============================================================================
