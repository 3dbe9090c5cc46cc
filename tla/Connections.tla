---------------------------- MODULE Connections -----------------------------
(***************************************************************************)
(* How processes come by their channels: ChannelClient::connect creates a  *)
(* share, the kernel tells the other process, whose ChannelServer accepts; *)
(* when a process terminates, the ChannelServers that shared memory with   *)
(* it drop the channel and delete the share; a restarted server recovers   *)
(* its channels from its shares.  It extends the kernel side, module       *)
(* ProcessShares; a channel is the block of pages it lies in, since the    *)
(* consumer and the producer for one process are always set up together.   *)
(*                                                                         *)
(* Between reading a kernel event and acting on it a server may be         *)
(* preempted, so these are two steps.                                      *)
(***************************************************************************)
EXTENDS ProcessShares, Functions

CONSTANT
  None   \* no channel, no event

ASSUME ConnectionsAssumption == None \notin Blocks /\ None \notin Event

VARIABLES
  channel,  \* m_registry: the channel of each process with each other
  handling, \* the event that readKernelEvents() works on
  mistold   \* history: processes told of the end of one they did not share with

cvars == <<vars, channel, handling, mistold>>

CInit ==
  /\ Init
  /\ channel = [p \in PIDS |-> [q \in PIDS |-> None]]
  /\ handling = [p \in PIDS |-> None]
  /\ mistold = {}

(* A process with an empty registry: new, or terminated. *)
Blank(p) ==
  /\ channel' = [channel EXCEPT ![p] = [q \in PIDS |-> None]]
  /\ handling' = [handling EXCEPT ![p] = None]

Start(p) == Spawn(p) /\ Blank(p) /\ UNCHANGED mistold

(* The processes that have a share with p. *)
Sharers(p) == {q \in live \ {p} : \E s \in shares[q] : s.pid = p}

Terminate(p) ==
  /\ Kill(p)
  /\ Blank(p)
  /\ mistold' = mistold \cup {q \in live \ (Sharers(p) \cup {p}) : events'[q] # events[q]}

(* findProducer() or findConsumer() finds no channel and connects; the      *)
(* retries of connect() are further attempts of this action.                *)
Connect(p, q, b) ==
  /\ handling[p] = None
  /\ channel[p][q] = None
  /\ Create(p, q, Tag, b)
  /\ channel' = [channel EXCEPT ![p][q] = b]
  /\ UNCHANGED <<handling, mistold>>

(* createShare() fails, and connect() registers nothing. *)
ConnectFails(p, q, b) ==
  /\ handling[p] = None
  /\ channel[p][q] = None
  /\ CreateFails(p, q, Tag, b)
  /\ UNCHANGED <<channel, handling, mistold>>

ReadKernelEvent(p) ==
  /\ handling[p] = None
  /\ ReadEvent(p)
  /\ handling' = [handling EXCEPT ![p] = Head(events[p])]
  /\ UNCHANGED <<channel, mistold>>

(* Mutant: the event is dropped when the channel is not known. *)
Accept_never(p) ==
  /\ handling[p] # None
  /\ handling[p].type = "ShareCreated"
  /\ handling' = [handling EXCEPT ![p] = None]
  /\ UNCHANGED <<vars, channel, mistold>>

(* accept() keeps a channel that is already registered. *)
Accept(p) ==
  /\ handling[p] # None
  /\ handling[p].type = "ShareCreated"
  /\ LET q == handling[p].pid
     IN  channel' = [channel EXCEPT ![p][q] = IF @ = None THEN handling[p].block ELSE @]
  /\ handling' = [handling EXCEPT ![p] = None]
  /\ UNCHANGED <<vars, mistold>>

(* Mutant: the channels of the terminated process stay registered. *)
HandleTerminated_keepsChannel(p) ==
  /\ handling[p] # None
  /\ handling[p].type = "ProcessTerminated"
  /\ Delete(p, handling[p].pid)
  /\ handling' = [handling EXCEPT ![p] = None]
  /\ UNCHANGED <<channel, mistold>>

(* Mutant: the share is not deleted. *)
HandleTerminated_keepsShare(p) ==
  /\ handling[p] # None
  /\ handling[p].type = "ProcessTerminated"
  /\ channel' = [channel EXCEPT ![p][handling[p].pid] = None]
  /\ handling' = [handling EXCEPT ![p] = None]
  /\ UNCHANGED <<vars, mistold>>

(* Both channels are unregistered, then VMShare(Delete). *)
HandleTerminated(p) ==
  /\ handling[p] # None
  /\ handling[p].type = "ProcessTerminated"
  /\ Delete(p, handling[p].pid)
  /\ channel' = [channel EXCEPT ![p][handling[p].pid] = None]
  /\ handling' = [handling EXCEPT ![p] = None]
  /\ UNCHANGED mistold

(* RecoveryServer restarts the program of p: an event that was read is      *)
(* gone, and recoverChannels() accepts a channel for every share.           *)
Restart(p) ==
  /\ p \in live
  /\ channel' = [channel EXCEPT ![p] =
                   [q \in PIDS |-> IF findShare(p, q, Tag) = {} THEN None
                                   ELSE (CHOOSE s \in findShare(p, q, Tag) : TRUE).block]]
  /\ handling' = [handling EXCEPT ![p] = None]
  /\ missed' = IF handling[p] = None THEN missed ELSE missed \cup {p}
  /\ UNCHANGED <<live, shares, mapped, free, events, dropped, mistold>>

CNext ==
  \/ \E p \in PIDS : \/ Start(p) \/ Terminate(p) \/ Restart(p)
                     \/ ReadKernelEvent(p) \/ Accept(p) \/ HandleTerminated(p)
  \/ \E p, q \in PIDS, b \in Blocks : Connect(p, q, b) \/ ConnectFails(p, q, b)

(* Every process runs a ChannelServer, which goes on reading its events:    *)
(* raiseEvent() wakes it up, and it reads all of them before it sleeps.     *)
Serve(p) == ReadKernelEvent(p) \/ Accept(p) \/ HandleTerminated(p)

CSpec == CInit /\ [][CNext]_cvars

FairCSpec == CSpec /\ \A p \in PIDS : WF_cvars(Serve(p))

-----------------------------------------------------------------------------
(* A registered channel lies in mapped pages, so that polling it in         *)
(* readChannels() or writing to it does not fault; the pages of a           *)
(* terminated process are unmapped only after its channels are dropped.     *)
ChannelMapped ==
  dropped = {} /\ mistold = {} =>
    \A p \in live, q \in PIDS : channel[p][q] # None => channel[p][q] \in mapped[p]

(* The events and the event at hand of process p. *)
Pending(p) == Range(events[p]) \cup ({handling[p]} \ {None})

(* A process that shares pages with a terminated process will be told: a    *)
(* detached share has its ProcessTerminated event on the way, unless the    *)
(* process missed an event because its channel was full or because it was   *)
(* restarted while it handled it.                                           *)
DetachedIsAnnounced ==
  dropped = {} /\ mistold = {} =>
    \A p \in live \ missed : \A s \in shares[p] :
      s.pid # Kernel /\ ~s.attached
        => \E e \in Pending(p) : e.type = "ProcessTerminated" /\ e.pid = s.pid

(* The two ends of a connection use the same pages: a channel and the       *)
(* channel that the other process has with it never lie in different        *)
(* blocks while both shares are attached.                                   *)
SamePages ==
  dropped = {} /\ mistold = {} =>
    \A p, q \in live :
      (\E s \in shares[p] : s.pid = q /\ s.attached) /\ channel[p][q] # None /\ channel[q][p] # None
        => channel[p][q] = channel[q][p]

(* Nothing that is said below holds after the kernel lost half of a share   *)
(* or told a process of the end of one it has nothing to do with.           *)
Amiss == dropped # {} \/ mistold # {}

(* The pages that a process shared with a terminated one are eventually     *)
(* released, so that the identifier can be connected to again.              *)
DetachedReleased ==
  \A p, q \in PIDS :
    (\E s \in shares[p] : s.pid = q /\ ~s.attached)
      ~> (\A s \in shares[p] : s.pid = q => s.attached) \/ p \in missed \/ Amiss

(* A connection is eventually accepted, or it ends. *)
ConnectAccepted ==
  \A p, q \in PIDS :
    channel[p][q] # None
      ~> channel[p][q] = None \/ channel[q][p] # None \/ {p, q} \cap missed # {} \/ Amiss

(* The two ends of a share agree: an attached share is in both lists over   *)
(* the same pages, a detached one is the last of its pages, and a channel   *)
(* that a process may use is mapped (ProcessShares.cpp, ChannelServer.h).   *)
EndsAgree == AttachedIsShared /\ DetachedIsLast /\ ChannelMapped /\ SamePages
=============================================================================
