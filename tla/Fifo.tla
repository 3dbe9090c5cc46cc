-------------------------------- MODULE Fifo --------------------------------
(***************************************************************************)
(* What a Channel (lib/libipc/Channel.h) promises to the one producer that *)
(* calls write() and the one consumer that calls read(): a bounded queue   *)
(* of whole messages, first in first out.  A call takes effect at one      *)
(* instant, and its result code is true at that instant.                   *)
(***************************************************************************)
EXTENDS Naturals, Sequences

CONSTANTS
  Messages,                      \* the messages that may be written
  Capacity,                      \* the most messages that fit in the channel
  Success, ChannelFull, NotFound, \* Channel::Result
  None                           \* no result

VARIABLES
  queue,   \* the messages that were written and not yet read
  wresult, \* result code of the last write()
  rresult  \* result code of the last read(), or the message it returned

vars == <<queue, wresult, rresult>>

Init == queue = << >> /\ wresult = None /\ rresult = None

Write(m) ==
  /\ Len(queue) < Capacity
  /\ queue' = Append(queue, m)
  /\ wresult' = Success
  /\ UNCHANGED rresult

WriteFull ==
  /\ Len(queue) = Capacity
  /\ wresult' = ChannelFull
  /\ UNCHANGED <<queue, rresult>>

Read ==
  /\ queue # << >>
  /\ rresult' = Head(queue)
  /\ queue' = Tail(queue)
  /\ UNCHANGED wresult

ReadNone ==
  /\ queue = << >>
  /\ rresult' = NotFound
  /\ UNCHANGED <<queue, wresult>>

(* A call begins, or its process is restarted: the last result is dropped. *)
Forget ==
  /\ UNCHANGED queue
  /\ \/ wresult' = None /\ UNCHANGED rresult
     \/ rresult' = None /\ UNCHANGED wresult

Next == (\E m \in Messages : Write(m)) \/ WriteFull \/ Read \/ ReadNone \/ Forget

Spec == Init /\ [][Next]_vars
=============================================================================
