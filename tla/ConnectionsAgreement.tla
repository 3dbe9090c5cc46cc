------------------------ MODULE ConnectionsAgreement ------------------------
(***************************************************************************)
(* The inductive invariant of connections, and that every step keeps it.   *)
(* What is said of the channels rests on the events that are still under   *)
(* way to a process: it acts on them later, and by then the process they   *)
(* name may be another one with the same identifier.                       *)
(* CIInv says why they are never out of date.                              *)
(***************************************************************************)
EXTENDS Connections, TLAPS

(* The provers that are tried on a leaf which names none, with their time. *)
USE ZenonT(5), SMTT(30)

(* The types, and that no process is told of itself. *)
CTypeOK ==
  /\ channel \in [PIDS -> [PIDS -> Blocks \cup {None}]]
  /\ handling \in [PIDS -> Event \cup {None}]
  /\ \A p \in PIDS : handling[p] # None => handling[p].pid # p
  /\ \A p \in PIDS : \A i \in 1 .. Len(events[p]) : events[p][i].pid # p

(* A process has at most one share with another one, and none with itself.  *)
OneShare ==
  \A p \in PIDS : \A s \in shares[p] :
    s.tag = Tag /\ s.pid # p /\ \A r \in shares[p] : r.pid = s.pid => r = s

(* While the share of a process with an identifier is detached, no process  *)
(* with that identifier has one with it.                                    *)
OneSided ==
  \A p \in PIDS : \A s \in shares[p] :
    ~s.attached /\ s.pid \in PIDS => \A r \in shares[s.pid] : r.pid # p

(* A channel lies in the pages of the share with its process. *)
Registered ==
  \A p, q \in PIDS : channel[p][q] # None =>
    \E s \in shares[p] : s.pid = q /\ s.block = channel[p][q]

(* Event e, read or not, still says how the shares of p are. *)
UpToDate(p, e) ==
  \E s \in shares[p] : /\ s.pid = e.pid
                       /\ e.type = "ShareCreated" => s.block = e.block
                       /\ e.type = "ProcessTerminated" => ~s.attached

EventsUpToDate ==
  \A p \in PIDS : /\ handling[p] # None => UpToDate(p, handling[p])
                  /\ \A i \in 1 .. Len(events[p]) : UpToDate(p, events[p][i])

(* A ProcessTerminated event is the last one about its process. *)
LastWord ==
  \A p \in PIDS : \A j \in 1 .. Len(events[p]) :
    /\ handling[p] # None /\ handling[p].type = "ProcessTerminated"
         => events[p][j].pid # handling[p].pid
    /\ \A i \in 1 .. j - 1 :
         events[p][i].type = "ProcessTerminated" => events[p][j].pid # events[p][i].pid

(* Process p has a ProcessTerminated event about process q, read or not. *)
ToldOf(p, q) ==
  \/ handling[p] # None /\ handling[p].type = "ProcessTerminated" /\ handling[p].pid = q
  \/ \E i \in 1 .. Len(events[p]) :
       events[p][i].type = "ProcessTerminated" /\ events[p][i].pid = q

(* DetachedIsAnnounced, by the places of the events. *)
Announced ==
  \A p \in live \ missed : \A s \in shares[p] :
    s.pid # Kernel /\ ~s.attached => ToldOf(p, s.pid)

Agreed == OneShare /\ OneSided /\ Registered /\ EventsUpToDate /\ LastWord /\ Announced

(* The inductive invariant. *)
CIInv == IInv /\ CTypeOK /\ (~Amiss => Agreed)

-----------------------------------------------------------------------------
(* The steps, as far as the kernel events are concerned. *)

(* Event e was written to the channel of process x. *)
Written(x, e) ==
  /\ Len(events'[x]) = Len(events[x]) + 1
  /\ \A i \in 1 .. Len(events[x]) : events'[x][i] = events[x][i]
  /\ events'[x][Len(events[x]) + 1] = e

LEMMA AppendWritten ==
  ASSUME NEW x, NEW e \in Event, events[x] \in Seq(Event), events'[x] = Append(events[x], e)
  PROVE  Written(x, e)
  BY DEF Written

LEMMA WrittenIndex ==
  ASSUME NEW x, NEW e, Written(x, e), Len(events[x]) \in Nat, NEW i \in 1 .. Len(events'[x])
  PROVE  \/ i \in 1 .. Len(events[x]) /\ events'[x][i] = events[x][i]
         \/ i = Len(events[x]) + 1 /\ events'[x][i] = e
<1>1. i \in 1 .. Len(events[x]) \/ i = Len(events[x]) + 1
  BY DEF Written
<1> QED BY <1>1 DEF Written

(* What a process is told when another one is terminated. *)
KillEvents(p) ==
  /\ events'[p] = << >>
  /\ \A x \in PIDS \ {p} :
       \/ events'[x] = events[x] /\ ((\E s \in shares[p] : s.pid = x) /\ x \in live => x \in missed')
       \/ /\ Written(x, [type |-> "ProcessTerminated", pid |-> p]) /\ events'[x] # events[x]
          /\ x \in live /\ \E s \in shares[p] : s.pid = x
  /\ missed \ {p} \subseteq missed'

LEMMA KillTold ==
  ASSUME IInv, NEW p \in PIDS, Kill(p)
  PROVE  KillEvents(p)
<1> DEFINE peers == {s.pid : s \in shares[p]} \cap (live \ {p})
           e == [type |-> "ProcessTerminated", pid |-> p]
           R == raise(events, peers, e)
<1>1. events \in [PIDS -> Seq(Event)] /\ \A x \in PIDS : Len(events[x]) <= MaxEvents
  BY DEF IInv, Typed
<1>2. events' = [R EXCEPT ![p] = << >>] /\ missed' = (missed \cup Full(peers)) \ {p}
  BY DEF Kill
<1>3. e \in Event
  BY DEF Event
<1>4. ASSUME NEW x \in PIDS
      PROVE  R[x] = IF x \in peers /\ Len(events[x]) < MaxEvents THEN Append(events[x], e) ELSE events[x]
  BY <1>4 DEF raise
<1>5. DOMAIN R = PIDS
  BY DEF raise
<1>6. ASSUME NEW x \in PIDS, x # p PROVE (\E s \in shares[p] : s.pid = x) /\ x \in live <=> x \in peers
  BY <1>6
<1> HIDE DEF peers, e, R
<1>7. events'[p] = << >> /\ \A x \in PIDS \ {p} : events'[x] = R[x]
  BY <1>2, <1>5
<1>8. ASSUME NEW x \in PIDS \ {p}
      PROVE  \/ events'[x] = events[x] /\ ((\E s \in shares[p] : s.pid = x) /\ x \in live => x \in missed')
             \/ Written(x, e) /\ events'[x] # events[x] /\ x \in live /\ \E s \in shares[p] : s.pid = x
  <2>1. events[x] \in Seq(Event) /\ Len(events[x]) \in Nat /\ Len(events[x]) <= MaxEvents
    BY <1>1, <1>8
  <2>2. CASE x \in peers /\ Len(events[x]) < MaxEvents
    <3>1. events'[x] = Append(events[x], e)
      BY Zenon, <1>4, <1>7, <1>8, <2>2
    <3>2. Written(x, e)
      BY <1>3, <2>1, <3>1, AppendWritten
    <3>3. events'[x] # events[x]
      BY <2>1, <3>2 DEF Written
    <3> QED BY <1>6, <1>8, <2>2, <3>2, <3>3
  <2>3. CASE x \in peers /\ ~(Len(events[x]) < MaxEvents)
    <3>1. Len(events[x]) = MaxEvents
      BY <2>1, <2>3, SharesAssumption
    <3>2. x \in missed'
      BY <1>2, <1>8, <2>3, <3>1 DEF Full
    <3> QED BY <1>4, <1>7, <1>8, <2>3, <3>2
  <2>4. CASE x \notin peers
    BY <1>4, <1>6, <1>7, <1>8, <2>4
  <2> QED BY <2>2, <2>3, <2>4
<1> QED BY <1>2, <1>7, <1>8 DEF KillEvents, e

(* What a process is told when another one creates a share. *)
CreateEvents(p, q, b) ==
  /\ \A x \in PIDS \ {q} : events'[x] = events[x]
  /\ events'[q] = events[q] \/ Written(q, [type |-> "ShareCreated", pid |-> p, block |-> b])
  /\ missed \subseteq missed'

LEMMA CreateTold ==
  ASSUME IInv, NEW p \in PIDS, NEW q \in PIDS, NEW b \in Blocks, Create(p, q, Tag, b)
  PROVE  CreateEvents(p, q, b)
<1> DEFINE e == [type |-> "ShareCreated", pid |-> p, block |-> b]
           R == raise(events, {q}, e)
<1>1. events \in [PIDS -> Seq(Event)]
  BY DEF IInv, Typed
<1>2. events' = R /\ missed \subseteq missed'
  BY DEF Create
<1>3. e \in Event
  BY DEF Event
<1>4. ASSUME NEW x \in PIDS
      PROVE  R[x] = IF x = q /\ Len(events[x]) < MaxEvents THEN Append(events[x], e) ELSE events[x]
  BY <1>4 DEF raise
<1> HIDE DEF e, R
<1>5. events'[q] = events[q] \/ Written(q, e)
  <2>1. events[q] \in Seq(Event)
    BY <1>1
  <2>2. events'[q] = events[q] \/ events'[q] = Append(events[q], e)
    BY Zenon, <1>2, <1>4
  <2> QED BY <1>3, <2>1, <2>2, AppendWritten
<1> QED BY <1>2, <1>4, <1>5 DEF CreateEvents, e

-----------------------------------------------------------------------------
(* The steps, as far as the shares are concerned. *)

(* What the termination of p makes of share s of another process. *)
After(u, s, p) ==
  /\ u \in Share /\ u.pid = s.pid /\ u.tag = s.tag /\ u.block = s.block
  /\ u.attached = (s.attached /\ s.pid # p)

KillShares(p) ==
  /\ shares'[p] = {}
  /\ \A x \in PIDS \ {p} : /\ \A u \in shares'[x] : \E s \in shares[x] : After(u, s, p)
                           /\ \A s \in shares[x] : \E u \in shares'[x] : After(u, s, p)

(* An attached share with p is one that p knows of. *)
LEMMA AttachedIsKnown ==
  ASSUME IInv, dropped = {}, NEW x \in PIDS, NEW s \in shares[x], s.attached
  PROVE  /\ s.pid \in PIDS /\ x \in live /\ s.pid \in live
         /\ \E r \in shares[s.pid] : r.pid = x /\ r.block = s.block /\ r.attached
<1>1. Pairs /\ Used /\ live \subseteq PIDS
  BY DEF IInv, Typed
<1>2. x \in live
  BY <1>1 DEF Used
<1>3. s.pid \in live /\ \E r \in shares[s.pid] : r.pid = x /\ r.block = s.block /\ r.attached
  BY <1>1 DEF Pairs
<1> QED BY <1>1, <1>2, <1>3

(* The two halves that createShare() adds, when none of it fails. *)
CreateShares(p, q, b) ==
  \E local, remote \in Share :
    /\ local.pid = q /\ local.tag = Tag /\ local.block = b /\ local.attached
    /\ remote.pid = p /\ remote.tag = Tag /\ remote.block = b /\ remote.attached
    /\ shares'[p] = shares[p] \cup {local}
    /\ shares'[q] = shares[q] \cup {remote}
    /\ \A x \in PIDS \ {p, q} : shares'[x] = shares[x]

LEMMA CreateAdds ==
  ASSUME IInv, NEW p \in PIDS, NEW q \in PIDS, NEW b \in Blocks, Create(p, q, Tag, b), dropped' = {}
  PROVE  CreateShares(p, q, b)
<1> DEFINE local  == [pid |-> q, tag |-> Tag, block |-> b, attached |-> TRUE]
           remote == [local EXCEPT !.pid = p]
<1>1. shares \in [PIDS -> SUBSET Share]
  BY DEF IInv, Typed
<1>2. /\ p # q
      /\ shares' = [shares EXCEPT ![p] = insert(@, local), ![q] = insert(@, remote)]
      /\ dropped' = IF local \in shares'[p] /\ remote \in shares'[q] THEN dropped ELSE dropped \cup {b}
  BY DEF Create
<1>3. /\ local \in Share /\ local.pid = q /\ local.tag = Tag /\ local.block = b /\ local.attached
      /\ remote \in Share /\ remote.pid = p /\ remote.tag = Tag /\ remote.block = b /\ remote.attached
  BY Zenon, SharesAssumption DEF Share
<1> HIDE DEF local, remote
<1>4. /\ shares'[p] = insert(shares[p], local) /\ shares'[q] = insert(shares[q], remote)
      /\ \A x \in PIDS \ {p, q} : shares'[x] = shares[x]
  BY <1>1, <1>2
<1>5. local \in shares'[p] /\ remote \in shares'[q]
  BY <1>2
<1>6. shares'[p] = shares[p] \cup {local}
  BY <1>4, <1>5 DEF insert
<1>7. shares'[q] = shares[q] \cup {remote}
  BY <1>4, <1>5 DEF insert
<1> QED BY <1>3, <1>4, <1>6, <1>7 DEF CreateShares

(* The fields of an event. *)
LEMMA EventFields ==
  ASSUME NEW e \in Event
  PROVE  /\ e.pid \in PIDS
         /\ e.type \in {"ShareCreated", "ProcessTerminated"}
         /\ e.type = "ShareCreated" => e.block \in Blocks
  BY DEF Event

-----------------------------------------------------------------------------
(* The process that is told of a termination has nothing but a detached     *)
(* share with the terminated one, and gives it up.                          *)
DeleteShares(p, q) ==
  /\ shares'[p] = {s \in shares[p] : s.pid # q}
  /\ \A x \in PIDS \ {p} : shares'[x] = shares[x]

-----------------------------------------------------------------------------
(* The types are preserved. *)

(* The registry and the event at hand of a process that is new or gone. *)
LEMMA BlankFields ==
  ASSUME CTypeOK, NEW p \in PIDS, Blank(p)
  PROVE  /\ channel' \in [PIDS -> [PIDS -> Blocks \cup {None}]]
         /\ handling' \in [PIDS -> Event \cup {None}]
         /\ handling'[p] = None /\ \A q \in PIDS : channel'[p][q] = None
         /\ \A x \in PIDS \ {p} : handling'[x] = handling[x] /\ channel'[x] = channel[x]
<1>1. /\ channel \in [PIDS -> [PIDS -> Blocks \cup {None}]]
      /\ handling \in [PIDS -> Event \cup {None}]
  BY DEF CTypeOK
<1> DEFINE nothing == [q \in PIDS |-> None]
<1>2. channel' = [channel EXCEPT ![p] = nothing] /\ handling' = [handling EXCEPT ![p] = None]
  BY DEF Blank
<1>3. nothing \in [PIDS -> Blocks \cup {None}] /\ \A q \in PIDS : nothing[q] = None
  OBVIOUS
<1> HIDE DEF nothing
<1>4. /\ channel' \in [PIDS -> [PIDS -> Blocks \cup {None}]]
      /\ channel'[p] = nothing /\ \A x \in PIDS \ {p} : channel'[x] = channel[x]
  BY Zenon, <1>1, <1>2, <1>3
<1>5. /\ handling' \in [PIDS -> Event \cup {None}]
      /\ handling'[p] = None /\ \A x \in PIDS \ {p} : handling'[x] = handling[x]
  BY <1>1, <1>2
<1> QED BY <1>3, <1>4, <1>5

(* The event at hand is done with, and one entry of the registry changed.   *)
Handled(p) ==
  /\ handling' \in [PIDS -> Event \cup {None}]
  /\ handling'[p] = None
  /\ \A x \in PIDS \ {p} : handling'[x] = handling[x]

Entered(p, q, b) ==
  /\ channel' \in [PIDS -> [PIDS -> Blocks \cup {None}]]
  /\ channel'[p][q] = b
  /\ \A x, y \in PIDS : x # p \/ y # q => channel'[x][y] = channel[x][y]

LEMMA HandledFields ==
  ASSUME CTypeOK, NEW p \in PIDS, handling' = [handling EXCEPT ![p] = None]
  PROVE  Handled(p)
  BY DEF CTypeOK, Handled

LEMMA EnteredFields ==
  ASSUME CTypeOK, NEW p \in PIDS, NEW q \in PIDS, NEW b \in Blocks \cup {None},
         channel' = [channel EXCEPT ![p][q] = b]
  PROVE  Entered(p, q, b)
<1>1. channel \in [PIDS -> [PIDS -> Blocks \cup {None}]]
  BY DEF CTypeOK
<1> DEFINE row == [channel[p] EXCEPT ![q] = b]
<1>2. channel' = [channel EXCEPT ![p] = row]
  BY <1>1
<1>3. /\ row \in [PIDS -> Blocks \cup {None}] /\ row[q] = b
      /\ \A y \in PIDS : y # q => row[y] = channel[p][y]
  BY <1>1
<1> HIDE DEF row
<1>4. /\ channel' \in [PIDS -> [PIDS -> Blocks \cup {None}]]
      /\ channel'[p] = row /\ \A x \in PIDS : x # p => channel'[x] = channel[x]
  BY Zenon, <1>1, <1>2, <1>3
<1> QED BY <1>3, <1>4 DEF Entered

(* Reading an event moves it from the channel into the hands of p. *)
Taken(p) ==
  /\ handling' \in [PIDS -> Event \cup {None}]
  /\ handling[p] = None /\ handling'[p] = events[p][1] /\ handling'[p] # None
  /\ Len(events[p]) >= 1 /\ Len(events'[p]) = Len(events[p]) - 1
  /\ \A i \in 1 .. Len(events'[p]) : events'[p][i] = events[p][i + 1]
  /\ \A x \in PIDS \ {p} : handling'[x] = handling[x] /\ events'[x] = events[x]

LEMMA ReadFields ==
  ASSUME IInv, CTypeOK, NEW p \in PIDS, ReadKernelEvent(p)
  PROVE  Taken(p)
<1>1. events \in [PIDS -> Seq(Event)] /\ handling \in [PIDS -> Event \cup {None}]
  BY DEF IInv, Typed, CTypeOK
<1>2. /\ handling[p] = None /\ events[p] # << >>
      /\ events' = [events EXCEPT ![p] = Tail(@)]
      /\ handling' = [handling EXCEPT ![p] = Head(events[p])]
  BY DEF ReadKernelEvent, ReadEvent
<1>3. events[p] \in Seq(Event) /\ Len(events[p]) \in Nat
  BY <1>1
<1>4. /\ Head(events[p]) = events[p][1] /\ Head(events[p]) \in Event /\ Len(events[p]) >= 1
      /\ Len(Tail(events[p])) = Len(events[p]) - 1
      /\ \A i \in 1 .. Len(Tail(events[p])) : Tail(events[p])[i] = events[p][i + 1]
  BY <1>2, <1>3
<1>5. events'[p] = Tail(events[p]) /\ \A x \in PIDS \ {p} : events'[x] = events[x]
  BY <1>1, <1>2
<1>6. /\ handling' \in [PIDS -> Event \cup {None}] /\ handling'[p] = Head(events[p])
      /\ \A x \in PIDS \ {p} : handling'[x] = handling[x]
  BY <1>1, <1>2, <1>4
<1>7. handling'[p] # None
  BY <1>4, <1>6, ConnectionsAssumption
<1> QED BY ZenonT(30), <1>2, <1>4, <1>5, <1>6, <1>7 DEF Taken

(* recoverChannels() finds the pages of the shares. *)
LEMMA RestartFields ==
  ASSUME IInv, CTypeOK, NEW p \in PIDS, Restart(p)
  PROVE  /\ Handled(p)
         /\ channel' \in [PIDS -> [PIDS -> Blocks \cup {None}]]
         /\ \A q \in PIDS : channel'[p][q] # None =>
              \E s \in shares[p] : s.pid = q /\ s.block = channel'[p][q]
         /\ \A x \in PIDS \ {p} : channel'[x] = channel[x]
<1> DEFINE found(q) == (CHOOSE s \in findShare(p, q, Tag) : TRUE).block
           row == [q \in PIDS |-> IF findShare(p, q, Tag) = {} THEN None ELSE found(q)]
<1>1. /\ channel \in [PIDS -> [PIDS -> Blocks \cup {None}]] /\ shares[p] \subseteq Share
  BY DEF CTypeOK, IInv, Typed
<1>2. channel' = [channel EXCEPT ![p] = row] /\ handling' = [handling EXCEPT ![p] = None]
  BY DEF Restart
<1>3. ASSUME NEW q \in PIDS, findShare(p, q, Tag) # {}
      PROVE  found(q) \in Blocks /\ \E s \in shares[p] : s.pid = q /\ s.block = found(q)
  <2>1. PICK s \in findShare(p, q, Tag) : s.block = found(q)
    BY Zenon, <1>3
  <2>2. s \in shares[p] /\ s.pid = q /\ s \in Share
    BY <1>1, <2>1 DEF findShare
  <2>3. s.block \in Blocks
    BY <2>2 DEF Share
  <2> HIDE DEF found
  <2> QED BY <2>1, <2>2, <2>3
<1> HIDE DEF found
<1>4. /\ row \in [PIDS -> Blocks \cup {None}]
      /\ \A q \in PIDS : row[q] # None => \E s \in shares[p] : s.pid = q /\ s.block = row[q]
  BY <1>3
<1> HIDE DEF row
<1>5. /\ channel' \in [PIDS -> [PIDS -> Blocks \cup {None}]]
      /\ channel'[p] = row /\ \A x \in PIDS \ {p} : channel'[x] = channel[x]
  BY Zenon, <1>1, <1>2, <1>4
<1>6. Handled(p)
  BY Zenon, <1>2, HandledFields
<1> QED BY <1>4, <1>5, <1>6

(* accept() enters the pages of the event, unless there is a channel. *)
LEMMA AcceptFields ==
  ASSUME CTypeOK, NEW p \in PIDS, Accept(p)
  PROVE  /\ handling[p] \in Event /\ handling[p].pid \in PIDS /\ Handled(p)
         /\ handling[p].type = "ShareCreated"
         /\ \/ Entered(p, handling[p].pid, handling[p].block)
            \/ Entered(p, handling[p].pid, channel[p][handling[p].pid])
<1> DEFINE q == handling[p].pid
           b == IF channel[p][q] = None THEN handling[p].block ELSE channel[p][q]
<1>1. /\ handling[p] # None /\ handling[p].type = "ShareCreated"
      /\ channel' = [channel EXCEPT ![p][q] = IF @ = None THEN handling[p].block ELSE @]
      /\ handling' = [handling EXCEPT ![p] = None]
  BY DEF Accept
<1>2. handling[p] \in Event /\ channel \in [PIDS -> [PIDS -> Blocks \cup {None}]]
  BY <1>1 DEF CTypeOK
<1>3. q \in PIDS /\ handling[p].block \in Blocks
  BY <1>1, <1>2, EventFields
<1>4. channel[p][q] \in Blocks \cup {None}
  BY <1>2, <1>3
<1>5. b \in Blocks \cup {None} /\ (b = handling[p].block \/ b = channel[p][q])
  BY <1>3, <1>4
<1>6. channel' = [channel EXCEPT ![p][q] = b]
  BY <1>1, <1>2, <1>3
<1>7. Handled(p)
  BY Zenon, <1>1, HandledFields
<1> HIDE DEF q, b
<1>8. Entered(p, q, b)
  BY Zenon, <1>3, <1>5, <1>6, EnteredFields
<1> QED BY <1>1, <1>2, <1>3, <1>5, <1>7, <1>8 DEF q

(* The channel with the terminated process is dropped. *)
LEMMA TerminatedFields ==
  ASSUME CTypeOK, NEW p \in PIDS, HandleTerminated(p)
  PROVE  /\ handling[p] \in Event /\ handling[p].pid \in PIDS \ {p} /\ Handled(p)
         /\ handling[p].type = "ProcessTerminated"
         /\ Delete(p, handling[p].pid) /\ events' = events
         /\ Entered(p, handling[p].pid, None)
<1>1. /\ handling[p] # None /\ handling[p].type = "ProcessTerminated"
      /\ Delete(p, handling[p].pid)
      /\ channel' = [channel EXCEPT ![p][handling[p].pid] = None]
      /\ handling' = [handling EXCEPT ![p] = None]
  BY DEF HandleTerminated
<1>2. handling[p] \in Event /\ handling[p].pid # p
  BY <1>1 DEF CTypeOK
<1>3. handling[p].pid \in PIDS
  BY <1>2, EventFields
<1>4. Handled(p) /\ Entered(p, handling[p].pid, None)
  BY Zenon, <1>1, <1>3, HandledFields, EnteredFields
<1> QED BY <1>1, <1>2, <1>3, <1>4 DEF Delete

LEMMA CTypeStep ==
  ASSUME IInv, CTypeOK, [CNext]_cvars
  PROVE  CTypeOK'
<1> USE DEF CTypeOK
<1>0. \A x \in PIDS : events[x] \in Seq(Event) /\ Len(events[x]) \in Nat
  BY DEF IInv, Typed
<1>1. ASSUME NEW p \in PIDS, Start(p) PROVE CTypeOK'
  <2>1. Blank(p) /\ events' = [events EXCEPT ![p] = << >>]
    BY <1>1 DEF Start, Spawn
  <2>2. events \in [PIDS -> Seq(Event)]
    BY DEF IInv, Typed
  <2>3. events'[p] = << >> /\ \A x \in PIDS \ {p} : events'[x] = events[x]
    BY <2>1, <2>2
  <2>4. \A x \in PIDS : \A i \in 1 .. Len(events'[x]) : events'[x][i].pid # x
    BY <2>3
  <2> QED BY <1>1, <2>1, <2>4, BlankFields
<1>2. ASSUME NEW p \in PIDS, Terminate(p) PROVE CTypeOK'
  <2>1. Blank(p) /\ KillEvents(p)
    BY <1>2, KillTold DEF Terminate
  <2>2. ASSUME NEW x \in PIDS, NEW i \in 1 .. Len(events'[x]) PROVE events'[x][i].pid # x
    <3>1. CASE x = p
      BY <2>1, <2>2, <3>1 DEF KillEvents
    <3>2. CASE events'[x] = events[x]
      BY <2>2, <3>2
    <3>3. CASE x # p /\ Written(x, [type |-> "ProcessTerminated", pid |-> p])
      <4> DEFINE e == [type |-> "ProcessTerminated", pid |-> p]
      <4>1. e.pid # x
        BY <3>3
      <4> HIDE DEF e
      <4>2. Written(x, e) /\ Len(events[x]) \in Nat
        BY <1>0, <3>3 DEF e
      <4> QED BY <2>2, <4>1, <4>2, WrittenIndex
    <3> QED BY <2>1, <2>2, <3>1, <3>2, <3>3 DEF KillEvents
  <2> QED BY <1>2, <2>1, <2>2, BlankFields
<1>3. ASSUME NEW p \in PIDS, Restart(p) PROVE CTypeOK'
  <2>1. events' = events
    BY <1>3 DEF Restart
  <2> QED BY <1>3, <2>1, RestartFields DEF Handled
<1>4. ASSUME NEW p \in PIDS, ReadKernelEvent(p) PROVE CTypeOK'
  <2>1. Taken(p) /\ channel' = channel
    BY Zenon, <1>4, ReadFields DEF ReadKernelEvent
  <2>2. Len(events[p]) \in Nat
    BY <1>0, <1>4
  <2>3. ASSUME NEW x \in PIDS, NEW i \in 1 .. Len(events'[x]) PROVE events'[x][i].pid # x
    <3>1. CASE x = p
      <4>1. i + 1 \in 1 .. Len(events[p]) /\ events'[p][i] = events[p][i + 1]
        BY <2>1, <2>2, <2>3, <3>1 DEF Taken
      <4> QED BY <3>1, <4>1
    <3>2. CASE x # p
      BY <2>1, <2>3, <3>2 DEF Taken
    <3> QED BY <3>1, <3>2
  <2>4. ASSUME NEW x \in PIDS, handling'[x] # None PROVE handling'[x].pid # x
    <3>1. CASE x = p
      <4>1. 1 \in 1 .. Len(events[p])
        BY <2>1, <2>2 DEF Taken
      <4> QED BY <2>1, <3>1, <4>1 DEF Taken
    <3>2. CASE x # p
      BY <2>1, <2>4, <3>2 DEF Taken
    <3> QED BY <3>1, <3>2
  <2> QED BY <2>1, <2>3, <2>4 DEF Taken
<1>5. ASSUME NEW p \in PIDS, Accept(p) PROVE CTypeOK'
  <2>1. events' = events
    BY <1>5 DEF Accept, vars
  <2> QED BY <1>5, <2>1, AcceptFields DEF Handled, Entered
<1>6. ASSUME NEW p \in PIDS, HandleTerminated(p) PROVE CTypeOK'
  BY <1>6, TerminatedFields DEF Handled, Entered
<1>7. ASSUME NEW p \in PIDS, NEW q \in PIDS, NEW b \in Blocks, Connect(p, q, b) PROVE CTypeOK'
  <2>1. /\ Create(p, q, Tag, b) /\ handling' = handling
        /\ channel' = [channel EXCEPT ![p][q] = b]
    BY <1>7 DEF Connect
  <2>2. Entered(p, q, b) /\ CreateEvents(p, q, b) /\ p # q
    BY Zenon, <1>7, <2>1, EnteredFields, CreateTold DEF Create
  <2>3. ASSUME NEW x \in PIDS, NEW i \in 1 .. Len(events'[x]) PROVE events'[x][i].pid # x
    <3>1. CASE events'[x] = events[x]
      BY <2>3, <3>1
    <3>2. CASE x = q /\ Written(q, [type |-> "ShareCreated", pid |-> p, block |-> b])
      <4> DEFINE e == [type |-> "ShareCreated", pid |-> p, block |-> b]
      <4>1. e.pid # x
        BY <2>2, <3>2
      <4> HIDE DEF e
      <4>2. Written(x, e) /\ Len(events[x]) \in Nat
        BY <1>0, <3>2 DEF e
      <4> QED BY <2>3, <4>1, <4>2, WrittenIndex
    <3> QED BY <2>2, <2>3, <3>1, <3>2 DEF CreateEvents
  <2> QED BY <2>1, <2>2, <2>3 DEF Entered
<1>8. ASSUME NEW p \in PIDS, NEW q \in PIDS, NEW b \in Blocks, ConnectFails(p, q, b) PROVE CTypeOK'
  BY <1>8 DEF ConnectFails, CreateFails
<1>9. CASE UNCHANGED cvars
  BY <1>9 DEF cvars, vars
<1> HIDE DEF CTypeOK
<1> QED BY <1>1, <1>2, <1>3, <1>4, <1>5, <1>6, <1>7, <1>8, <1>9 DEF CNext

-----------------------------------------------------------------------------
(* The shares, the channels and the events go on agreeing. *)

LEMMA StartAgreed ==
  ASSUME IInv, CTypeOK, Agreed, NEW p \in PIDS, Start(p)
  PROVE  Agreed'
<1>1. PICK k : shares' = [shares EXCEPT ![p] = {k}] /\ k.pid = Kernel /\ k.tag = Tag
  <2>1. PICK b \in free :
          shares' = [shares EXCEPT ![p] = {[pid |-> Kernel, tag |-> Tag, block |-> b, attached |-> FALSE]}]
    BY Zenon DEF Start, Spawn
  <2> DEFINE h == [pid |-> Kernel, tag |-> Tag, block |-> b, attached |-> FALSE]
  <2>2. shares' = [shares EXCEPT ![p] = {h}] /\ h.pid = Kernel /\ h.tag = Tag
    BY <2>1
  <2> HIDE DEF h
  <2> QED BY Zenon, <2>2
<1>2. /\ p \notin live /\ live' = live \cup {p} /\ missed' = missed
      /\ events' = [events EXCEPT ![p] = << >>] /\ Blank(p)
  BY DEF Start, Spawn
<1>3. shares \in [PIDS -> SUBSET Share] /\ events \in [PIDS -> Seq(Event)] /\ live \subseteq PIDS
  BY DEF IInv, Typed
<1>4. shares'[p] = {k} /\ \A x \in PIDS \ {p} : shares'[x] = shares[x]
  BY <1>1, <1>3
<1>5. Len(events'[p]) = 0 /\ \A x \in PIDS \ {p} : events'[x] = events[x]
  BY <1>2, <1>3
<1>6. /\ handling'[p] = None /\ \A q \in PIDS : channel'[p][q] = None
      /\ \A x \in PIDS \ {p} : handling'[x] = handling[x] /\ channel'[x] = channel[x]
  BY <1>2, BlankFields
<1>7. OneShare'
  BY <1>1, <1>4, SharesAssumption DEF Agreed, OneShare
<1>8. OneSided'
  BY <1>1, <1>4, SharesAssumption DEF Agreed, OneSided
<1>9. Registered'
  BY <1>4, <1>6 DEF Agreed, Registered
<1>10. EventsUpToDate'
  BY <1>4, <1>5, <1>6 DEF Agreed, EventsUpToDate, UpToDate
<1>11. LastWord'
  BY <1>5, <1>6 DEF Agreed, LastWord
<1>12. Announced'
  <2> SUFFICES ASSUME NEW x \in live' \ missed', NEW s \in shares'[x], s.pid # Kernel, ~s.attached
               PROVE  ToldOf(x, s.pid)'
    BY DEF Announced
  <2>1. x # p
    BY <1>1, <1>4
  <2>2. x \in live \ missed /\ s \in shares[x] /\ x \in PIDS \ {p}
    BY <1>2, <1>3, <1>4, <2>1
  <2>3. ToldOf(x, s.pid)
    BY <2>2 DEF Agreed, Announced
  <2>4. events'[x] = events[x] /\ handling'[x] = handling[x]
    BY <1>5, <1>6, <2>2
  <2> QED BY <2>3, <2>4 DEF ToldOf
<1> QED BY <1>7, <1>8, <1>9, <1>10, <1>11, <1>12 DEF Agreed

LEMMA ReadAgreed ==
  ASSUME IInv, CTypeOK, Agreed, NEW p \in PIDS, ReadKernelEvent(p)
  PROVE  Agreed'
<1>1. /\ shares' = shares /\ live' = live /\ missed' = missed /\ channel' = channel
      /\ Taken(p) /\ live \subseteq PIDS
  BY Zenon, ReadFields DEF ReadKernelEvent, ReadEvent, IInv, Typed
<1>2. Len(events[p]) \in Nat
  BY DEF IInv, Typed
<1>3. 1 \in 1 .. Len(events[p]) /\ \A i \in 1 .. Len(events'[p]) : i + 1 \in 1 .. Len(events[p])
  BY <1>1, <1>2 DEF Taken
<1>4. (OneShare /\ OneSided /\ Registered)'
  BY <1>1 DEF Agreed, OneShare, OneSided, Registered
<1>5. EventsUpToDate'
  <2>1. ASSUME NEW x \in PIDS, handling'[x] # None PROVE UpToDate(x, handling'[x])
    BY <1>1, <1>3, <2>1 DEF Taken, Agreed, EventsUpToDate
  <2>2. ASSUME NEW x \in PIDS, NEW i \in 1 .. Len(events'[x]) PROVE UpToDate(x, events'[x][i])
    <3>1. CASE x = p
      BY Zenon, <1>1, <1>3, <2>2, <3>1 DEF Taken, Agreed, EventsUpToDate
    <3>2. CASE x # p
      BY <1>1, <2>2, <3>2 DEF Taken, Agreed, EventsUpToDate
    <3> QED BY <3>1, <3>2
  <2> QED BY <1>1, <2>1, <2>2 DEF EventsUpToDate, UpToDate
<1>6. LastWord'
  <2> SUFFICES ASSUME NEW x \in PIDS, NEW j \in 1 .. Len(events'[x])
               PROVE  /\ handling'[x] # None /\ handling'[x].type = "ProcessTerminated"
                           => events'[x][j].pid # handling'[x].pid
                      /\ \A i \in 1 .. j - 1 : events'[x][i].type = "ProcessTerminated"
                                                 => events'[x][j].pid # events'[x][i].pid
    BY DEF LastWord
  <2>1. CASE x # p
    <3>1. events'[x] = events[x] /\ handling'[x] = handling[x]
      BY <1>1, <2>1 DEF Taken
    <3> QED BY <3>1 DEF Agreed, LastWord
  <2>2. CASE x = p
    <3>1. /\ j + 1 \in 1 .. Len(events[p]) /\ events'[p][j] = events[p][j + 1]
          /\ handling'[p] = events[p][1]
      BY <1>1, <1>3, <2>2 DEF Taken
    <3>2. 1 \in 1 .. (j + 1) - 1
      BY <2>2
    <3>3. ASSUME NEW i \in 1 .. j - 1
          PROVE  i + 1 \in 1 .. (j + 1) - 1 /\ events'[p][i] = events[p][i + 1]
      <4>0. Len(events'[p]) \in Nat
        BY <1>1, <1>2 DEF Taken
      <4>1. i \in 1 .. Len(events'[p]) /\ i + 1 \in 1 .. (j + 1) - 1
        BY <2>2, <3>3, <4>0
      <4> QED BY Zenon, <1>1, <4>1 DEF Taken
    <3>4. \A i \in 1 .. (j + 1) - 1 : events[p][i].type = "ProcessTerminated"
                                        => events[p][j + 1].pid # events[p][i].pid
      BY <3>1 DEF Agreed, LastWord
    <3> QED BY Zenon, <2>2, <3>1, <3>2, <3>3, <3>4
  <2> QED BY <2>1, <2>2
<1>7. Announced'
  <2> SUFFICES ASSUME NEW x \in live \ missed, NEW s \in shares[x], s.pid # Kernel, ~s.attached
               PROVE  ToldOf(x, s.pid)'
    BY <1>1 DEF Announced
  <2>1. ToldOf(x, s.pid)
    BY DEF Agreed, Announced
  <2>2. CASE x # p
    BY <1>1, <2>1, <2>2 DEF Taken, ToldOf
  <2>3. CASE x = p
    <3>1. PICK i \in 1 .. Len(events[p]) :
            events[p][i].type = "ProcessTerminated" /\ events[p][i].pid = s.pid
      BY <1>1, <2>1, <2>3 DEF Taken, ToldOf
    <3>2. CASE i = 1
      BY <1>1, <2>3, <3>1, <3>2 DEF Taken, ToldOf
    <3>3. CASE i # 1
      <4>1. i - 1 \in 1 .. Len(events'[p]) /\ (i - 1) + 1 = i
        BY <1>1, <1>2, <3>3 DEF Taken
      <4>2. events'[p][i - 1] = events[p][i]
        BY <1>1, <4>1 DEF Taken
      <4> QED BY <1>1, <2>3, <3>1, <4>1, <4>2 DEF ToldOf
    <3> QED BY <3>2, <3>3
  <2> QED BY <2>2, <2>3
<1> QED BY <1>4, <1>5, <1>6, <1>7 DEF Agreed

(* When p is done with an event, what it has not read yet stays as it was. *)
LEMMA HandledEvents ==
  ASSUME NEW p \in PIDS, Handled(p), events' = events, shares' = shares, EventsUpToDate, LastWord
  PROVE  EventsUpToDate' /\ LastWord'
<1>1. EventsUpToDate'
  BY DEF Handled, EventsUpToDate, UpToDate
<1>2. LastWord'
  BY DEF Handled, LastWord
<1> QED BY <1>1, <1>2

LEMMA AcceptAgreed ==
  ASSUME IInv, CTypeOK, Agreed, NEW p \in PIDS, Accept(p)
  PROVE  Agreed'
<1> DEFINE q == handling[p].pid
<1>1. /\ handling[p] # None /\ shares' = shares /\ live' = live /\ missed' = missed /\ events' = events
      /\ live \subseteq PIDS
  BY DEF Accept, vars, IInv, Typed
<1>2. /\ q \in PIDS /\ Handled(p) /\ handling[p].type = "ShareCreated"
      /\ Entered(p, q, handling[p].block) \/ Entered(p, q, channel[p][q])
  BY AcceptFields
<1>3. (OneShare /\ OneSided)'
  BY <1>1 DEF Agreed, OneShare, OneSided
<1>4. Registered'
  <2>1. \E s \in shares[p] : s.pid = q /\ s.block = handling[p].block
    BY <1>1, <1>2 DEF Agreed, EventsUpToDate, UpToDate
  <2>2. channel[p][q] # None => \E s \in shares[p] : s.pid = q /\ s.block = channel[p][q]
    BY <1>2 DEF Agreed, Registered
  <2> HIDE DEF q
  <2>3. channel'[p][q] # None => \E s \in shares[p] : s.pid = q /\ s.block = channel'[p][q]
    BY <1>2, <2>1, <2>2 DEF Entered
  <2>4. \A x, y \in PIDS : x # p \/ y # q => channel'[x][y] = channel[x][y]
    BY <1>2 DEF Entered
  <2> QED BY <1>1, <2>3, <2>4 DEF Agreed, Registered
<1>5. (EventsUpToDate /\ LastWord)'
  BY <1>1, <1>2, HandledEvents DEF Agreed
<1>6. Announced'
  <2> SUFFICES ASSUME NEW x \in live \ missed, NEW s \in shares[x], s.pid # Kernel, ~s.attached
               PROVE  ToldOf(x, s.pid)'
    BY <1>1 DEF Announced
  <2>1. ToldOf(x, s.pid)
    BY DEF Agreed, Announced
  <2>2. CASE x = p
    BY <1>1, <1>2, <2>1, <2>2 DEF ToldOf
  <2>3. CASE x # p
    BY <1>1, <1>2, <2>1, <2>3 DEF Handled, ToldOf
  <2> QED BY <2>2, <2>3
<1> QED BY <1>3, <1>4, <1>5, <1>6 DEF Agreed

LEMMA RestartAgreed ==
  ASSUME IInv, CTypeOK, Agreed, NEW p \in PIDS, Restart(p)
  PROVE  Agreed'
<1>1. /\ shares' = shares /\ live' = live /\ events' = events /\ live \subseteq PIDS
      /\ missed \subseteq missed' /\ (handling[p] # None => p \in missed')
  BY DEF Restart, IInv, Typed
<1>2. /\ Handled(p)
      /\ \A q \in PIDS : channel'[p][q] # None =>
           \E s \in shares[p] : s.pid = q /\ s.block = channel'[p][q]
      /\ \A x \in PIDS \ {p} : channel'[x] = channel[x]
  BY RestartFields
<1>3. (OneShare /\ OneSided)'
  BY <1>1 DEF Agreed, OneShare, OneSided
<1>4. Registered'
  BY <1>1, <1>2 DEF Agreed, Registered
<1>5. (EventsUpToDate /\ LastWord)'
  BY <1>1, <1>2, HandledEvents DEF Agreed
<1>6. Announced'
  <2> SUFFICES ASSUME NEW x \in live \ missed', NEW s \in shares[x], s.pid # Kernel, ~s.attached
               PROVE  ToldOf(x, s.pid)'
    BY <1>1 DEF Announced
  <2>1. ToldOf(x, s.pid)
    BY <1>1 DEF Agreed, Announced
  <2>2. CASE x = p
    BY <1>1, <2>1, <2>2 DEF ToldOf
  <2>3. CASE x # p
    BY <1>1, <1>2, <2>1, <2>3 DEF Handled, ToldOf
  <2> QED BY <2>2, <2>3
<1> QED BY <1>3, <1>4, <1>5, <1>6 DEF Agreed

LEMMA TerminatedAgreed ==
  ASSUME IInv, CTypeOK, Agreed, NEW p \in PIDS, HandleTerminated(p), DeleteShares(p, handling[p].pid)
  PROVE  Agreed'
<1> DEFINE q == handling[p].pid
<1>1. /\ q \in PIDS \ {p} /\ Handled(p) /\ handling[p].type = "ProcessTerminated"
      /\ Delete(p, q) /\ events' = events /\ Entered(p, q, None)
  BY TerminatedFields
<1>2. handling[p] # None /\ live' = live /\ missed' = missed /\ live \subseteq PIDS
  BY DEF HandleTerminated, Delete, IInv, Typed
<1>4. \A i \in 1 .. Len(events[p]) : events[p][i].pid # q
  BY <1>1, <1>2 DEF Agreed, LastWord
<1>5. OneShare
  BY DEF Agreed
<1>6. \A y : y # q /\ ToldOf(p, y) =>
        \E i \in 1 .. Len(events[p]) : events[p][i].type = "ProcessTerminated" /\ events[p][i].pid = y
  BY <1>1, <1>2 DEF ToldOf
<1>7. DeleteShares(p, q)
  OBVIOUS
<1> HIDE DEF q
<1>8. \A x \in PIDS : shares'[x] \subseteq shares[x]
  BY <1>7 DEF DeleteShares
<1>9. (OneShare /\ OneSided)'
  <2>1. OneShare'
    BY <1>5, <1>8 DEF OneShare
  <2>2. OneSided'
    BY <1>8 DEF Agreed, OneSided
  <2> QED BY <2>1, <2>2
<1>10. Registered'
  <2> SUFFICES ASSUME NEW x \in PIDS, NEW y \in PIDS, channel'[x][y] # None
               PROVE  \E s \in shares'[x] : s.pid = y /\ s.block = channel'[x][y]
    BY DEF Registered
  <2>1. (x # p \/ y # q) /\ channel'[x][y] = channel[x][y]
    BY <1>1 DEF Entered
  <2>2. PICK s \in shares[x] : s.pid = y /\ s.block = channel[x][y]
    BY <2>1 DEF Agreed, Registered
  <2>3. s \in shares'[x]
    BY <1>7, <2>1, <2>2 DEF DeleteShares
  <2> QED BY <2>1, <2>2, <2>3
<1>11. EventsUpToDate'
  <2>1. ASSUME NEW x \in PIDS, handling'[x] # None PROVE UpToDate(x, handling[x])' /\ handling'[x] = handling[x]
    <3>1. x # p /\ handling'[x] = handling[x]
      BY <1>1, <2>1 DEF Handled
    <3>2. \E s \in shares[x] : /\ s.pid = handling[x].pid
                               /\ handling[x].type = "ShareCreated" => s.block = handling[x].block
                               /\ handling[x].type = "ProcessTerminated" => ~s.attached
      BY <2>1, <3>1 DEF Agreed, EventsUpToDate, UpToDate
    <3>3. shares'[x] = shares[x]
      BY <1>7, <3>1 DEF DeleteShares
    <3> QED BY <3>1, <3>2, <3>3 DEF UpToDate
  <2>2. ASSUME NEW x \in PIDS, NEW i \in 1 .. Len(events[x]) PROVE UpToDate(x, events[x][i])'
    <3>1. UpToDate(x, events[x][i])
      BY DEF Agreed, EventsUpToDate
    <3>2. x # p \/ events[x][i].pid # q
      BY <1>4
    <3> QED BY <1>1, <1>7, <3>1, <3>2 DEF UpToDate, DeleteShares
  <2> QED BY <1>1, <2>1, <2>2 DEF EventsUpToDate, UpToDate
<1>12. LastWord'
  BY <1>1 DEF Handled, Agreed, LastWord
<1>13. Announced'
  <2> SUFFICES ASSUME NEW x \in live \ missed, NEW s \in shares'[x], s.pid # Kernel, ~s.attached
               PROVE  ToldOf(x, s.pid)'
    BY <1>2 DEF Announced
  <2>1. s \in shares[x]
    BY <1>2, <1>8
  <2>2. ToldOf(x, s.pid)
    BY <2>1 DEF Agreed, Announced
  <2>3. CASE x = p
    <3>1. s.pid # q
      BY <1>7, <2>3 DEF DeleteShares
    <3> QED BY <1>1, <1>6, <2>2, <2>3, <3>1 DEF ToldOf
  <2>4. CASE x # p
    BY <1>1, <1>2, <2>2, <2>4 DEF Handled, ToldOf
  <2> QED BY <2>3, <2>4
<1> QED BY <1>9, <1>10, <1>11, <1>12, <1>13 DEF Agreed

(* What is still to be read, when one event e was written. *)
LEMMA WrittenEvents ==
  ASSUME NEW x, NEW e, Written(x, e), Len(events[x]) \in Nat
  PROVE  /\ \A i \in 1 .. Len(events'[x]) :
              \/ i \in 1 .. Len(events[x]) /\ events'[x][i] = events[x][i]
              \/ i = Len(events[x]) + 1 /\ events'[x][i] = e
         /\ \A i \in 1 .. Len(events[x]) : i \in 1 .. Len(events'[x]) /\ events'[x][i] = events[x][i]
         /\ Len(events[x]) + 1 \in 1 .. Len(events'[x])
         /\ \A j \in 1 .. Len(events'[x]) : \A i \in 1 .. j - 1 :
              i \in 1 .. Len(events[x]) /\ events'[x][i] = events[x][i]
<1>1. \A i \in 1 .. Len(events'[x]) :
        \/ i \in 1 .. Len(events[x]) /\ events'[x][i] = events[x][i]
        \/ i = Len(events[x]) + 1 /\ events'[x][i] = e
  BY WrittenIndex
<1>2. /\ \A i \in 1 .. Len(events[x]) : i \in 1 .. Len(events'[x]) /\ events'[x][i] = events[x][i]
      /\ Len(events[x]) + 1 \in 1 .. Len(events'[x])
  BY DEF Written
<1>3. ASSUME NEW j \in 1 .. Len(events'[x]), NEW i \in 1 .. j - 1
      PROVE  i \in 1 .. Len(events[x]) /\ events'[x][i] = events[x][i]
  <2>1. i \in 1 .. Len(events[x])
    BY <1>3 DEF Written
  <2> QED BY <1>2, <2>1
<1> QED BY <1>1, <1>2, <1>3

(* An event about a process that x was not told the end of keeps the order. *)
LEMMA WrittenLast ==
  ASSUME NEW x \in PIDS, NEW e, Written(x, e), Len(events[x]) \in Nat, LastWord, ~ToldOf(x, e.pid),
         handling'[x] = handling[x],
         NEW j \in 1 .. Len(events'[x])
  PROVE  /\ handling'[x] # None /\ handling'[x].type = "ProcessTerminated"
              => events'[x][j].pid # handling'[x].pid
         /\ \A i \in 1 .. j - 1 : events'[x][i].type = "ProcessTerminated"
                                    => events'[x][j].pid # events'[x][i].pid
<1>1. /\ \/ j \in 1 .. Len(events[x]) /\ events'[x][j] = events[x][j]
         \/ j = Len(events[x]) + 1 /\ events'[x][j] = e
      /\ \A i \in 1 .. j - 1 : i \in 1 .. Len(events[x]) /\ events'[x][i] = events[x][i]
  BY WrittenEvents
<1>2. CASE j \in 1 .. Len(events[x]) /\ events'[x][j] = events[x][j]
  BY <1>1, <1>2 DEF LastWord
<1>3. CASE events'[x][j] = e
  BY <1>1, <1>3 DEF ToldOf
<1> QED BY <1>1, <1>2, <1>3

LEMMA ConnectAgreed ==
  ASSUME IInv, CTypeOK, Agreed, dropped = {}, dropped' = {},
         NEW p \in PIDS, NEW q \in PIDS, NEW b \in Blocks, Connect(p, q, b)
  PROVE  Agreed'
<1> DEFINE e == [type |-> "ShareCreated", pid |-> p, block |-> b]
<1>1. /\ Create(p, q, Tag, b) /\ handling' = handling /\ p # q
      /\ channel' = [channel EXCEPT ![p][q] = b] /\ live' = live /\ live \subseteq PIDS
  BY Zenon DEF Connect, Create, IInv, Typed
<1>2. CreateEvents(p, q, b) /\ CreateShares(p, q, b) /\ Entered(p, q, b)
  BY Zenon, <1>1, CreateTold, CreateAdds, EnteredFields
<1>3. PICK local \in Share, remote \in Share :
        /\ local.pid = q /\ local.tag = Tag /\ local.block = b /\ local.attached
        /\ remote.pid = p /\ remote.tag = Tag /\ remote.block = b /\ remote.attached
        /\ shares'[p] = shares[p] \cup {local}
        /\ shares'[q] = shares[q] \cup {remote}
        /\ \A x \in PIDS \ {p, q} : shares'[x] = shares[x]
  BY <1>2 DEF CreateShares
<1>4. \A s \in shares[p] : s.pid # q
  BY <1>1 DEF Agreed, OneShare, Create, Vacant, findShare
<1>5. \A s \in shares[q] : s.pid # p
  <2>1. ASSUME NEW s \in shares[q], s.pid = p PROVE FALSE
    <3>1. s.attached
      BY <1>1, <2>1 DEF Agreed, OneShare, Create, Vacant, findShare
    <3>2. \E r \in shares[p] : r.pid = q
      BY <2>1, <3>1, AttachedIsKnown
    <3> QED BY <1>4, <3>2
  <2> QED BY <2>1
<1>6. \A x \in PIDS : /\ shares[x] \subseteq shares'[x]
                      /\ \A u \in shares'[x] :
                           u \in shares[x] \/ (x = p /\ u = local) \/ (x = q /\ u = remote)
  BY <1>3
<1>7. \A x \in PIDS : Len(events[x]) \in Nat
  BY DEF IInv, Typed
<1>8. e.type = "ShareCreated" /\ e.pid = p /\ e.block = b
  OBVIOUS
<1>9. \A x \in PIDS : events'[x] = events[x] \/ (x = q /\ Written(q, e))
  BY <1>2 DEF CreateEvents
<1> HIDE DEF e
<1>10. OneShare'
  <2> SUFFICES ASSUME NEW x \in PIDS, NEW s \in shares'[x]
               PROVE  s.tag = Tag /\ s.pid # x /\ \A r \in shares'[x] : r.pid = s.pid => r = s
    BY DEF OneShare
  <2>1. s.tag = Tag /\ s.pid # x
    BY <1>1, <1>3, <1>6 DEF Agreed, OneShare
  <2>2. ASSUME NEW r \in shares'[x], r.pid = s.pid PROVE r = s
    BY <1>1, <1>3, <1>4, <1>5, <1>6, <2>2 DEF Agreed, OneShare
  <2> QED BY <2>1, <2>2
<1>11. OneSided'
  <2> SUFFICES ASSUME NEW x \in PIDS, NEW s \in shares'[x], ~s.attached, s.pid \in PIDS,
                      NEW r \in shares'[s.pid], r.pid = x
               PROVE  FALSE
    BY DEF OneSided
  <2>1. s \in shares[x]
    BY <1>3, <1>6
  <2>2. r \notin shares[s.pid]
    BY <2>1 DEF Agreed, OneSided
  <2>3. (s.pid = p /\ r = local) \/ (s.pid = q /\ r = remote)
    BY <1>6, <2>2
  <2> QED BY <1>3, <1>4, <1>5, <2>1, <2>3
<1>12. Registered'
  <2> SUFFICES ASSUME NEW x \in PIDS, NEW y \in PIDS, channel'[x][y] # None
               PROVE  \E s \in shares'[x] : s.pid = y /\ s.block = channel'[x][y]
    BY DEF Registered
  <2>1. CASE x = p /\ y = q
    BY <1>2, <1>3, <2>1 DEF Entered
  <2>2. CASE x # p \/ y # q
    <3>1. channel'[x][y] = channel[x][y]
      BY <1>2, <2>2 DEF Entered
    <3>2. \E s \in shares[x] : s.pid = y /\ s.block = channel[x][y]
      BY <3>1 DEF Agreed, Registered
    <3> QED BY <1>6, <3>1, <3>2
  <2> QED BY <2>1, <2>2
<1>13. EventsUpToDate'
  <2>1. ASSUME NEW x \in PIDS, handling[x] # None PROVE UpToDate(x, handling[x])'
    <3>1. UpToDate(x, handling[x])
      BY <2>1 DEF Agreed, EventsUpToDate
    <3> QED BY <1>1, <1>6, <3>1 DEF UpToDate
  <2>2. ASSUME NEW x \in PIDS, NEW i \in 1 .. Len(events'[x]) PROVE UpToDate(x, events[x][i])'
    <3>1. CASE i \in 1 .. Len(events[x]) /\ events'[x][i] = events[x][i]
      <4>1. UpToDate(x, events[x][i])
        BY <3>1 DEF Agreed, EventsUpToDate
      <4> QED BY <1>6, <3>1, <4>1 DEF UpToDate
    <3>2. CASE x = q /\ events'[x][i] = e
      BY <1>3, <1>8, <3>2 DEF UpToDate
    <3>3. CASE events'[x] = events[x]
      BY <2>2, <3>1, <3>3
    <3>4. CASE x = q /\ Written(q, e)
      BY <1>7, <2>2, <3>1, <3>2, <3>4, WrittenEvents
    <3> QED BY <1>9, <3>3, <3>4
  <2> QED BY <1>1, <2>1, <2>2 DEF EventsUpToDate
<1>14. LastWord'
  <2> SUFFICES ASSUME NEW x \in PIDS, NEW j \in 1 .. Len(events'[x])
               PROVE  /\ handling'[x] # None /\ handling'[x].type = "ProcessTerminated"
                           => events'[x][j].pid # handling'[x].pid
                      /\ \A i \in 1 .. j - 1 : events'[x][i].type = "ProcessTerminated"
                                                 => events'[x][j].pid # events'[x][i].pid
    BY DEF LastWord
  <2>1. CASE events'[x] = events[x]
    BY <1>1, <2>1 DEF Agreed, LastWord
  <2>2. CASE x = q /\ Written(q, e)
    <3>1. ~ToldOf(q, p)
      BY <1>5 DEF Agreed, EventsUpToDate, UpToDate, ToldOf
    <3>2. LastWord /\ handling'[x] = handling[x] /\ ~ToldOf(x, e.pid) /\ Len(events[x]) \in Nat
      BY <1>1, <1>7, <1>8, <2>2, <3>1 DEF Agreed
    <3> QED BY <2>2, <3>2, WrittenLast
  <2> QED BY <1>9, <2>1, <2>2
<1>15. Announced'
  <2> SUFFICES ASSUME NEW x \in live \ missed', NEW s \in shares'[x], s.pid # Kernel, ~s.attached
               PROVE  ToldOf(x, s.pid)'
    BY <1>1 DEF Announced
  <2>1. x \in PIDS /\ s \in shares[x] /\ x \in live \ missed
    BY <1>1, <1>2, <1>3, <1>6 DEF CreateEvents
  <2>2. ToldOf(x, s.pid)
    BY <2>1 DEF Agreed, Announced
  <2>3. CASE events'[x] = events[x]
    BY <1>1, <2>2, <2>3 DEF ToldOf
  <2>4. CASE x = q /\ Written(q, e)
    <3>1. \A i \in 1 .. Len(events[x]) : i \in 1 .. Len(events'[x]) /\ events'[x][i] = events[x][i]
      BY <1>7, <2>1, <2>4, WrittenEvents
    <3> QED BY <1>1, <2>2, <3>1 DEF ToldOf
  <2> QED BY <1>9, <2>1, <2>3, <2>4
<1> QED BY <1>10, <1>11, <1>12, <1>13, <1>14, <1>15 DEF Agreed

LEMMA TerminateAgreed ==
  ASSUME IInv, CTypeOK, Agreed, dropped = {}, mistold' = {}, NEW p \in PIDS, Terminate(p), KillShares(p)
  PROVE  Agreed'
<1> DEFINE e == [type |-> "ProcessTerminated", pid |-> p]
<1>1. /\ Kill(p) /\ Blank(p) /\ live' = live \ {p} /\ live \subseteq PIDS
      /\ \A x \in live \ {p} : events'[x] # events[x] => x \in Sharers(p)
  BY Zenon DEF Terminate, Kill, IInv, Typed
<1>2. KillEvents(p) /\ KillShares(p)
  BY <1>1, KillTold
<1>3. /\ handling'[p] = None /\ \A q \in PIDS : channel'[p][q] = None
      /\ \A x \in PIDS \ {p} : handling'[x] = handling[x] /\ channel'[x] = channel[x]
  BY <1>1, BlankFields
<1>4. /\ shares'[p] = {}
      /\ \A x \in PIDS \ {p} : \A u \in shares'[x] : \E s \in shares[x] : After(u, s, p)
      /\ \A x \in PIDS \ {p} : \A s \in shares[x] : \E u \in shares'[x] : After(u, s, p)
  BY <1>2 DEF KillShares
<1>5. \A x \in PIDS : Len(events[x]) \in Nat
  BY DEF IInv, Typed
<1>6. e.type = "ProcessTerminated" /\ e.pid = p /\ Len(events'[p]) = 0
  BY <1>2 DEF KillEvents
<1>7. ASSUME NEW x \in PIDS \ {p}
      PROVE  \/ events'[x] = events[x] /\ ((\E s \in shares[p] : s.pid = x) /\ x \in live => x \in missed')
             \/ /\ Written(x, e) /\ \E s \in shares[p] : s.pid = x
                /\ \E s \in shares[x] : s.pid = p
  BY <1>1, <1>2, <1>7 DEF KillEvents, Sharers
<1> HIDE DEF e
<1>8. ASSUME NEW x \in PIDS \ {p}, NEW f, UpToDate(x, f)
      PROVE  \E u \in shares'[x] : /\ u.pid = f.pid
                                   /\ f.type = "ShareCreated" => u.block = f.block
                                   /\ f.type = "ProcessTerminated" => ~u.attached
  <2>1. PICK s \in shares[x] : /\ s.pid = f.pid
                               /\ f.type = "ShareCreated" => s.block = f.block
                               /\ f.type = "ProcessTerminated" => ~s.attached
    BY <1>8 DEF UpToDate
  <2>2. PICK u \in shares'[x] : After(u, s, p)
    BY <1>4
  <2> QED BY Zenon, <2>1, <2>2 DEF After
<1>9. OneShare'
  <2> SUFFICES ASSUME NEW x \in PIDS, NEW u \in shares'[x]
               PROVE  u.tag = Tag /\ u.pid # x /\ \A v \in shares'[x] : v.pid = u.pid => v = u
    BY DEF OneShare
  <2>1. x \in PIDS \ {p}
    BY <1>4
  <2>2. PICK s \in shares[x] : After(u, s, p)
    BY <1>4, <2>1
  <2>3. u.tag = Tag /\ u.pid # x
    BY <2>2 DEF After, Agreed, OneShare
  <2>4. ASSUME NEW v \in shares'[x], v.pid = u.pid PROVE v = u
    <3>1. PICK r \in shares[x] : After(v, r, p)
      BY <1>4, <2>1
    <3>2. r.pid = s.pid
      BY <2>2, <2>4, <3>1 DEF After
    <3>3. r = s
      BY <2>1, <2>2, <3>1, <3>2 DEF Agreed, OneShare
    <3> QED BY <2>2, <3>1, <3>3 DEF After, Share
  <2> QED BY <2>3, <2>4
<1>10. OneSided'
  <2> SUFFICES ASSUME NEW x \in PIDS, NEW u \in shares'[x], ~u.attached, u.pid \in PIDS,
                      NEW v \in shares'[u.pid], v.pid = x
               PROVE  FALSE
    BY DEF OneSided
  <2>1. x \in PIDS \ {p} /\ u.pid \in PIDS \ {p}
    BY <1>4
  <2>2. PICK s \in shares[x] : After(u, s, p)
    BY <1>4, <2>1
  <2>3. PICK r \in shares[u.pid] : After(v, r, p)
    BY <1>4, <2>1
  <2>4. s.pid = u.pid /\ ~s.attached /\ r.pid = x
    BY Zenon, <2>1, <2>2, <2>3 DEF After
  <2> QED BY <2>1, <2>3, <2>4 DEF Agreed, OneSided
<1>11. Registered'
  <2> SUFFICES ASSUME NEW x \in PIDS, NEW y \in PIDS, channel'[x][y] # None
               PROVE  \E u \in shares'[x] : u.pid = y /\ u.block = channel'[x][y]
    BY DEF Registered
  <2>1. x \in PIDS \ {p} /\ channel'[x][y] = channel[x][y]
    BY <1>3
  <2>2. PICK s \in shares[x] : s.pid = y /\ s.block = channel[x][y]
    BY <2>1 DEF Agreed, Registered
  <2>3. PICK u \in shares'[x] : After(u, s, p)
    BY <1>4, <2>1
  <2> QED BY <2>1, <2>2, <2>3 DEF After
<1>12. EventsUpToDate'
  <2>1. ASSUME NEW x \in PIDS, handling'[x] # None PROVE UpToDate(x, handling[x])'
    <3>1. x \in PIDS \ {p} /\ handling'[x] = handling[x]
      BY <1>3, <2>1
    <3>2. UpToDate(x, handling[x])
      BY <2>1, <3>1 DEF Agreed, EventsUpToDate
    <3>3. \E u \in shares'[x] : /\ u.pid = handling[x].pid
                                /\ handling[x].type = "ShareCreated" => u.block = handling[x].block
                                /\ handling[x].type = "ProcessTerminated" => ~u.attached
      BY <1>8, <3>1, <3>2
    <3> QED BY <3>1, <3>3 DEF UpToDate
  <2>2. ASSUME NEW x \in PIDS, NEW i \in 1 .. Len(events'[x]) PROVE UpToDate(x, events[x][i])'
    <3>0. x \in PIDS \ {p}
      BY <1>6, <2>2
    <3>1. CASE i \in 1 .. Len(events[x]) /\ events'[x][i] = events[x][i]
      <4> DEFINE f == events[x][i]
      <4>1. UpToDate(x, f)
        BY <3>1 DEF Agreed, EventsUpToDate
      <4>2. \E u \in shares'[x] : /\ u.pid = f.pid
                                  /\ f.type = "ShareCreated" => u.block = f.block
                                  /\ f.type = "ProcessTerminated" => ~u.attached
        BY <1>8, <3>0, <4>1
      <4> QED BY <3>1, <4>2 DEF UpToDate
    <3>2. CASE events'[x][i] = e /\ \E s \in shares[x] : s.pid = p
      <4>1. PICK s \in shares[x] : s.pid = p
        BY <3>2
      <4>2. PICK u \in shares'[x] : After(u, s, p)
        BY <1>4, <3>0
      <4>3. u.pid = p /\ ~u.attached
        BY Zenon, <4>1, <4>2 DEF After
      <4> QED BY <1>6, <3>2, <4>3 DEF UpToDate
    <3>3. CASE events'[x] = events[x]
      BY <2>2, <3>1, <3>3
    <3>4. CASE Written(x, e) /\ \E s \in shares[x] : s.pid = p
      BY <1>5, <2>2, <3>1, <3>2, <3>4, WrittenEvents
    <3> QED BY <1>7, <3>0, <3>3, <3>4
  <2> QED BY <2>1, <2>2 DEF EventsUpToDate
<1>13. LastWord'
  <2> SUFFICES ASSUME NEW x \in PIDS, NEW j \in 1 .. Len(events'[x])
               PROVE  /\ handling'[x] # None /\ handling'[x].type = "ProcessTerminated"
                           => events'[x][j].pid # handling'[x].pid
                      /\ \A i \in 1 .. j - 1 : events'[x][i].type = "ProcessTerminated"
                                                 => events'[x][j].pid # events'[x][i].pid
    BY DEF LastWord
  <2>0. x \in PIDS \ {p} /\ handling'[x] = handling[x]
    BY <1>3, <1>6
  <2>1. CASE events'[x] = events[x]
    BY <2>0, <2>1 DEF Agreed, LastWord
  <2>2. CASE Written(x, e) /\ \E s \in shares[p] : s.pid = x
    <3>1. ASSUME NEW s \in shares[x], s.pid = p PROVE s.attached
      BY <2>2, <3>1 DEF Agreed, OneSided
    <3>2. ~ToldOf(x, p)
      BY <3>1 DEF Agreed, EventsUpToDate, UpToDate, ToldOf
    <3>3. LastWord /\ ~ToldOf(x, e.pid) /\ Len(events[x]) \in Nat
      BY <1>5, <1>6, <3>2 DEF Agreed
    <3> QED BY <2>0, <2>2, <3>3, WrittenLast
  <2> QED BY <1>7, <2>0, <2>1, <2>2
<1>14. Announced'
  <2> SUFFICES ASSUME NEW x \in live' \ missed', NEW u \in shares'[x], u.pid # Kernel, ~u.attached
               PROVE  ToldOf(x, u.pid)'
    BY DEF Announced
  <2>1. x \in PIDS \ {p} /\ x \in live \ missed /\ handling'[x] = handling[x]
    BY <1>1, <1>2, <1>3 DEF KillEvents
  <2>2. PICK s \in shares[x] : After(u, s, p)
    BY <1>4, <2>1
  <2>3. CASE s.attached
    <3>1. s.pid = p /\ u.pid = p
      BY Zenon, <2>2, <2>3 DEF After
    <3>2. \E r \in shares[p] : r.pid = x
      <4>1. \E r \in shares[s.pid] : r.pid = x
        BY Zenon, <2>1, <2>3, AttachedIsKnown
      <4> QED BY <3>1, <4>1
    <3>3. Written(x, e)
      BY <1>7, <2>1, <3>2
    <3>4. Len(events[x]) + 1 \in 1 .. Len(events'[x]) /\ events'[x][Len(events[x]) + 1] = e
      BY <1>5, <2>1, <3>3, WrittenEvents DEF Written
    <3> QED BY <1>6, <3>1, <3>4 DEF ToldOf
  <2>4. CASE ~s.attached
    <3>1. ToldOf(x, u.pid)
      BY <2>1, <2>2, <2>4 DEF After, Agreed, Announced
    <3>2. CASE events'[x] = events[x]
      BY <2>1, <3>1, <3>2 DEF ToldOf
    <3>3. CASE Written(x, e)
      <4>1. \A i \in 1 .. Len(events[x]) : i \in 1 .. Len(events'[x]) /\ events'[x][i] = events[x][i]
        BY <1>5, <2>1, <3>3, WrittenEvents
      <4> QED BY <2>1, <3>1, <4>1 DEF ToldOf
    <3> QED BY <1>7, <2>1, <3>2, <3>3
  <2> QED BY <2>3, <2>4
<1> QED BY <1>9, <1>10, <1>11, <1>12, <1>13, <1>14 DEF Agreed
=============================================================================
