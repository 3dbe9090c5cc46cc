------------------------- MODULE DeviceServerProofs -------------------------
(* Proofs of the safety of the device server and its clients, for any number *)
(* of clients and any capacity of the channels.                              *)
EXTENDS DeviceServerLoop

(* The provers that are tried on a leaf which names none, with their time. *)
USE ZenonT(5), SMTT(30)

(* The requests of client c in m_requests and in process. *)
Kept(c) == {i \in DOMAIN requests : requests[i].from = c /\ (i # pos \/ cur = None)}

InProcess(c) == cur # None /\ cur.from = c /\ pc # "wake"

Nowhere(c) == req[c] = << >> /\ rsp[c] = << >> /\ Kept(c) = {} /\ ~InProcess(c)

(* The request or the answer that a client waits for is in one place. *)
InOnePlace(c) ==
  \/ req[c] = <<call[c]>> /\ rsp[c] = << >> /\ Kept(c) = {} /\ ~InProcess(c)
  \/ req[c] = << >> /\ rsp[c] = <<call[c]>> /\ Kept(c) = {} /\ ~InProcess(c)
  \/ req[c] = << >> /\ rsp[c] = << >> /\ Kept(c) = {} /\ InProcess(c) /\ cur = call[c]
  \/ req[c] = << >> /\ rsp[c] = << >> /\ ~InProcess(c)
       /\ \E i \in DOMAIN requests : Kept(c) = {i} /\ requests[i] = call[c]

Waits(c) == cpc[c] \in {"wake", "receive", "sleep"}

Tracked(c) == cpc[c] # "dead" /\ c \notin orphaned

Holds(c) == (cur # None /\ cur.from = c) \/ \E i \in DOMAIN requests : requests[i].from = c

Placed(c) ==
  /\ Holds(c) => c \in registered
  /\ IF Waits(c) THEN InOnePlace(c) ELSE Nowhere(c)

(* The termination of a live process is not announced. *)
NotAnnounced ==
  \A c \in Clients : cpc[c] # "dead" =>
    \A i \in DOMAIN kev : kev[i].type = "ProcessTerminated" => kev[i].pid # c

Calls == NotAnnounced /\ \A c \in Clients : Tracked(c) => Placed(c)

IInv == TypeOK /\ Safe /\ Calls /\ AnswersMatch

-----------------------------------------------------------------------------
(* Requests and answers. *)
LEMMA AnnouncedStep == ASSUME TypeOK, NotAnnounced, [Next]_vars PROVE NotAnnounced'
<1>0. kev \in Seq(Event) /\ DOMAIN kev = 1 .. Len(kev) /\ Len(kev) \in Nat
  BY DEF TypeOK
<1>1. ASSUME NEW e, raiseEvent(e), NEW i \in DOMAIN kev'
      PROVE  (i \in DOMAIN kev /\ kev'[i] = kev[i]) \/ kev'[i] = e
  <2>1. CASE kev' = kev
    BY <1>1, <2>1
  <2>2. CASE kev' = Append(kev, e)
    <3>1. /\ DOMAIN Append(kev, e) = 1 .. Len(kev) + 1 /\ Append(kev, e)[Len(kev) + 1] = e
          /\ \A j \in 1 .. Len(kev) : Append(kev, e)[j] = kev[j]
      BY ZenonT(30), <1>0, AppendFields
    <3>2. i \in 1 .. Len(kev) \/ i = Len(kev) + 1
      BY <1>0, <1>1, <2>2, <3>1
    <3> QED BY <1>0, <2>2, <3>1, <3>2
  <2> QED BY <1>1, <2>1, <2>2 DEF raiseEvent
<1>2. CASE UNCHANGED <<kev, cpc>>
  BY <1>2 DEF NotAnnounced
<1>3. CASE Interrupt
  <2>1. raiseEvent([type |-> "InterruptEvent"]) /\ UNCHANGED cpc
    BY <1>3 DEF Interrupt, client
  <2> QED BY <1>1, <2>1 DEF NotAnnounced
<1>4. ASSUME NEW d \in Clients, Start(d) PROVE NotAnnounced'
  <2>1. /\ raiseEvent([type |-> "ShareCreated", pid |-> d]) /\ cpc' = [cpc EXCEPT ![d] = "idle"]
        /\ d \notin {e.pid : e \in {f \in Range(kev) : f.type # "InterruptEvent"}}
    BY <1>4 DEF Start
  <2>2. ASSUME NEW i \in DOMAIN kev, kev[i].type = "ProcessTerminated" PROVE kev[i].pid # d
    <3>1. kev[i] \in {f \in Range(kev) : f.type # "InterruptEvent"}
      BY <2>2 DEF Range
    <3> QED BY <2>1, <3>1
  <2>3. ASSUME NEW i \in DOMAIN kev', kev'[i].type = "ProcessTerminated"
        PROVE  i \in DOMAIN kev /\ kev'[i] = kev[i]
    BY <1>1, <2>1, <2>3
  <2>4. \A c \in Clients \ {d} : cpc'[c] = cpc[c]
    BY <2>1 DEF TypeOK
  <2> QED BY <2>2, <2>3, <2>4 DEF NotAnnounced
<1>5. ASSUME NEW d \in Clients, Terminate(d) PROVE NotAnnounced'
  <2>1. raiseEvent([type |-> "ProcessTerminated", pid |-> d]) /\ cpc' = [cpc EXCEPT ![d] = "dead"]
    BY <1>5 DEF Terminate
  <2>2. ASSUME NEW i \in DOMAIN kev'
        PROVE  (i \in DOMAIN kev /\ kev'[i] = kev[i]) \/ kev'[i].pid = d
    BY <1>1, <2>1
  <2>3. cpc'[d] = "dead" /\ \A c \in Clients \ {d} : cpc'[c] = cpc[c]
    BY <2>1 DEF TypeOK
  <2> QED BY <2>2, <2>3 DEF NotAnnounced
<1>6. ASSUME NEW d \in Clients, ClientStep(d) \/ \E a \in {"ReadFile", "WriteFile"} : Operation(d, a)
      PROVE  NotAnnounced'
  <2>1. UNCHANGED kev /\ cpc[d] # "dead" /\ \A c \in Clients \ {d} : cpc'[c] = cpc[c]
    BY <1>6 DEF ClientStep, Operation, SyncSendTo, WakeServer, SyncReceiveFrom, ClientSleep, ClientAt, TypeOK
  <2> QED BY <2>1 DEF NotAnnounced
<1>7. CASE ReadKernelEvent
  <2>1. kev # << >> /\ kev' = Tail(kev) /\ UNCHANGED cpc
    BY <1>7 DEF ReadKernelEvent, ServerAt, client
  <2>2. ASSUME NEW i \in DOMAIN kev' PROVE i + 1 \in DOMAIN kev /\ kev'[i] = kev[i + 1]
    BY <1>0, <2>1, <2>2
  <2> QED BY <2>1, <2>2 DEF NotAnnounced
<1>8. CASE ServerStep /\ ~ReadKernelEvent
  <2>1. UNCHANGED <<kev, cpc>>
    BY Zenon, <1>8, ServerLeaves DEF ServerStep, EventsRead, InterruptHandler, ReadChannel, NextChannel,
         ChannelsRead, ProcessWrite, ProcessRead, ReenableInterrupts, SendResponse, WakeClient,
         RetryRequest, RetryDone, SleepUntilWakeup, kernel
  <2> QED BY <1>2, <2>1
<1> QED BY <1>2, <1>3, <1>4, <1>5, <1>6, <1>7, <1>8 DEF Next, vars, kernel, client, Receive

(* What client c waits for stays where it is. *)
HeldAsBefore(c) ==
  /\ Kept(c)' = Kept(c) /\ (InProcess(c)' <=> InProcess(c))
  /\ InProcess(c) => cur' = cur
  /\ \A i \in Kept(c) : i \in DOMAIN requests' /\ requests'[i] = requests[i]
  /\ Holds(c)' => Holds(c)

Same(c) ==
  /\ req'[c] = req[c] /\ rsp'[c] = rsp[c] /\ call'[c] = call[c]
  /\ c \in registered => c \in registered'
  /\ HeldAsBefore(c)

LEMMA SamePlaced ==
  ASSUME NEW c \in Clients, Placed(c), Same(c), Waits(c)' <=> Waits(c)
  PROVE  Placed(c)'
<1>1. CASE Waits(c)
  <2>1. InOnePlace(c)
    BY <1>1 DEF Placed
  <2>2. InOnePlace(c)'
    BY <2>1 DEF InOnePlace, Same, HeldAsBefore
  <2> QED BY <1>1, <2>2 DEF Placed, Same, HeldAsBefore
<1>2. CASE ~Waits(c)
  BY <1>2 DEF Placed, Nowhere, Same, HeldAsBefore
<1> QED BY <1>1, <1>2

LEMMA HeldUnchanged ==
  ASSUME NEW c \in Clients, UNCHANGED <<requests, cur>>, cur = None \/ pos' = pos,
         cur # None /\ cur.from = c => (pc' = "wake" <=> pc = "wake")
  PROVE  HeldAsBefore(c)
<1>1. Kept(c)' = Kept(c) /\ (InProcess(c)' <=> InProcess(c)) /\ (Holds(c)' => Holds(c))
  BY DEF Kept, InProcess, Holds
<1> QED BY <1>1 DEF HeldAsBefore, Kept

(* Done, for a client whose request is not the one in process. *)
LEMMA DonePlaced ==
  ASSUME TypeOK, Control, cur # None, Done, NEW c \in Clients, Placed(c), ~InProcess(c),
         UNCHANGED <<req, call, registered, cpc>>, rsp'[c] = rsp[c]
  PROVE  Placed(c)'
<1>1. /\ cur' = None /\ pos \in Nat /\ requests \in Seq(FileSystemMessage)
      /\ requests' = (IF pos = 0 THEN requests ELSE RemoveAt(requests, pos))
  BY Zenon, DoneFields DEF TypeOK
<1>2. (Waits(c)' <=> Waits(c)) /\ ~InProcess(c)'
  BY <1>1 DEF Waits, InProcess
<1>3. CASE pos = 0
  <2>1. Kept(c)' = Kept(c) /\ requests' = requests
    BY <1>1, <1>3 DEF Kept
  <2>2. Holds(c)' => Holds(c)
    BY <1>1, <2>1 DEF Holds
  <2> QED BY <1>2, <2>1, <2>2, SamePlaced DEF Same, HeldAsBefore, Kept
<1>4. CASE pos # 0
  <2>1. pos \in 1 .. Len(requests) /\ Len(requests) \in Nat /\ DOMAIN requests = 1 .. Len(requests)
    BY <1>1, <1>4 DEF Control
  <2>2. /\ requests' \in Seq(FileSystemMessage) /\ Len(requests') = Len(requests) - 1
        /\ \A i \in 1 .. Len(requests) - 1 :
             requests'[i] = IF i < pos THEN requests[i] ELSE requests[i + 1]
    BY Zenon, <1>1, <1>4, <2>1, RemoveAtFields
  <2>3. DOMAIN requests' = 1 .. Len(requests) - 1
    BY <2>2
  <2>4. Kept(c) = {i \in 1 .. Len(requests) : i # pos /\ requests[i].from = c}
    BY <2>1 DEF Kept
  <2>5. Kept(c)' = {i \in 1 .. Len(requests) - 1 : requests'[i].from = c}
    BY <1>1, <2>3 DEF Kept
  <2>6. ASSUME NEW j \in Kept(c)'
        PROVE  \E i \in Kept(c) : requests'[j] = requests[i] /\ j = IF i < pos THEN i ELSE i - 1
    <3>1. CASE j < pos
      <4>1. j \in Kept(c) /\ requests'[j] = requests[j]
        BY <2>1, <2>2, <2>4, <2>5, <3>1
      <4> QED BY <3>1, <4>1
    <3>2. CASE ~(j < pos)
      <4>1. j + 1 \in Kept(c) /\ requests'[j] = requests[j + 1]
        BY <2>1, <2>2, <2>4, <2>5, <3>2
      <4>2. ~(j + 1 < pos) /\ j = (j + 1) - 1
        BY <2>1, <2>5, <3>2
      <4> QED BY <4>1, <4>2
    <3> QED BY <3>1, <3>2
  <2>7. ASSUME NEW i \in Kept(c)
        PROVE  LET j == IF i < pos THEN i ELSE i - 1 IN j \in Kept(c)' /\ requests'[j] = requests[i]
    <3>1. CASE i < pos
      BY <2>1, <2>2, <2>4, <2>5, <3>1
    <3>2. CASE ~(i < pos)
      <4>1. i - 1 \in 1 .. Len(requests) - 1 /\ ~(i - 1 < pos) /\ (i - 1) + 1 = i /\ requests[i].from = c
        BY <2>1, <2>4, <3>2
      <4>2. requests'[i - 1] = requests[i]
        BY <2>2, <4>1
      <4> QED BY <2>5, <3>2, <4>1, <4>2
    <3> QED BY <3>1, <3>2
  <2>8. Holds(c)' => Holds(c)
    <3>1. ASSUME Holds(c)' PROVE \E j : j \in Kept(c)'
      BY <1>1, <2>3, <2>5, <3>1 DEF Holds
    <3>2. (\E i : i \in Kept(c)) => Holds(c)
      BY <2>1, <2>4 DEF Holds
    <3> QED BY <2>6, <3>1, <3>2
  <2>9. CASE Kept(c) = {}
    <3>1. Kept(c)' = {}
      BY <2>6, <2>9
    <3> QED BY <1>2, <2>8, <2>9, <3>1, SamePlaced DEF Same, HeldAsBefore
  <2>10. CASE Kept(c) # {}
    <3>1. PICK i \in DOMAIN requests : Kept(c) = {i} /\ requests[i] = call[c]
      BY <2>10 DEF Placed, Nowhere, InOnePlace
    <3> DEFINE j == IF i < pos THEN i ELSE i - 1
    <3>2. j \in Kept(c)' /\ requests'[j] = call'[c]
      BY <2>7, <3>1
    <3>3. Kept(c)' = {j}
      BY <2>6, <3>1, <3>2
    <3>4. j \in DOMAIN requests'
      BY <2>3, <2>5, <3>2
    <3>5. Waits(c) /\ req[c] = << >> /\ rsp[c] = << >>
      BY <2>10 DEF Placed, Nowhere, InOnePlace
    <3> HIDE DEF j
    <3>6. InOnePlace(c)'
      BY <1>2, <3>2, <3>3, <3>4, <3>5 DEF InOnePlace
    <3>7. Holds(c)' => c \in registered'
      BY <2>8 DEF Placed
    <3> QED BY <1>2, <3>5, <3>6, <3>7 DEF Placed
  <2> QED BY <2>9, <2>10
<1> QED BY <1>3, <1>4

LEMMA AgainPlaced ==
  ASSUME TypeOK, Control, cur # None, pc # "wake", Again, NEW c \in Clients, Placed(c),
         UNCHANGED <<req, rsp, call, registered, cpc>>
  PROVE  Placed(c)'
<1>1. cur' = None /\ requests \in Seq(FileSystemMessage) /\ cur \in FileSystemMessage
  BY DEF Again, TypeOK
<1>2. (Waits(c)' <=> Waits(c)) /\ ~InProcess(c)'
  BY <1>1 DEF Waits, InProcess
<1>3. PICK k \in DOMAIN requests' :
        /\ requests'[k] = cur
        /\ \A i \in DOMAIN requests' \ {k} : i \in DOMAIN requests /\ requests'[i] = requests[i]
        /\ DOMAIN requests' = (DOMAIN requests) \cup {k}
        /\ k \in DOMAIN requests <=> k = pos
        /\ pos \in DOMAIN requests => k = pos
  <2>1. CASE pos = 0
    <3>1. requests' = Append(requests, cur)
      BY <2>1 DEF Again
    <3>2. /\ DOMAIN requests' = 1 .. Len(requests) + 1 /\ requests'[Len(requests) + 1] = cur
          /\ \A i \in 1 .. Len(requests) : requests'[i] = requests[i]
      BY <1>1, <3>1
    <3>3. DOMAIN requests = 1 .. Len(requests) /\ Len(requests) \in Nat
      BY <1>1
    <3> WITNESS Len(requests) + 1 \in DOMAIN requests'
    <3> QED BY <2>1, <3>2, <3>3
  <2>2. CASE pos # 0
    <3>1. requests' = requests /\ pos \in DOMAIN requests /\ requests[pos] = cur
      BY <2>2 DEF Again, Control
    <3> QED BY <3>1
  <2> QED BY Zenon, <2>1, <2>2
<1>4. CASE cur.from # c
  <2>1. Kept(c)' = Kept(c)
    BY <1>1, <1>3, <1>4 DEF Kept, Control
  <2>2. Holds(c)' => Holds(c)
    BY <1>1, <1>3, <1>4 DEF Holds
  <2>3. \A i \in Kept(c) : i \in DOMAIN requests' /\ requests'[i] = requests[i]
    BY <1>3, <1>4 DEF Kept
  <2> QED BY <1>2, <1>4, <2>1, <2>2, <2>3, SamePlaced DEF Same, HeldAsBefore, InProcess
<1>5. CASE cur.from = c
  <2>1. InProcess(c)
    BY <1>5 DEF InProcess
  <2>2. /\ Waits(c) /\ req[c] = << >> /\ rsp[c] = << >> /\ Kept(c) = {} /\ cur = call[c]
        /\ c \in registered
    BY <1>5, <2>1 DEF Placed, Nowhere, InOnePlace, Holds
  <2>3. Kept(c)' = {k}
    BY <1>1, <1>3, <1>5, <2>2 DEF Kept
  <2>4. InOnePlace(c)'
    BY <1>2, <1>3, <2>2, <2>3 DEF InOnePlace
  <2> QED BY <1>2, <2>2, <2>4 DEF Placed
<1> QED BY <1>4, <1>5

LEMMA ReadChannelPlaced ==
  ASSUME TypeOK, Control, OwnRequests, NEW d \in Clients, ReadChannel(d), NEW c \in Clients, Placed(c)
  PROVE  Placed(c)'
<1>1. /\ d \in registered /\ req[d] # << >> /\ req' = [req EXCEPT ![d] = Tail(@)] /\ cur' = Head(req[d])
      /\ UNCHANGED <<call, cpc, registered, rsp, requests, pos>> /\ cur = None /\ pos = 0 /\ pc' = "process"
  BY DEF ReadChannel, ServerAt, client, retry, Control, Busy
<1>2. cur' # None /\ cur'.from = d
  BY <1>1, MessageFields DEF TypeOK, OwnRequests
<1>3. (Waits(c)' <=> Waits(c)) /\ ~InProcess(c)
  BY <1>1 DEF Waits, InProcess
<1>4. Kept(c)' = Kept(c)
  BY <1>1 DEF Kept, TypeOK
<1>5. CASE c # d
  <2>1. req'[c] = req[c] /\ ~InProcess(c)' /\ (Holds(c)' => Holds(c))
    BY <1>1, <1>2, <1>5 DEF InProcess, Holds, TypeOK
  <2> QED BY <1>1, <1>3, <1>4, <2>1, SamePlaced DEF Same, HeldAsBefore, Kept
<1>6. CASE c = d
  <2>1. Waits(c) /\ req[c] = <<call[c]>> /\ rsp[c] = << >> /\ Kept(c) = {}
    BY <1>1, <1>6 DEF Placed, Nowhere, InOnePlace
  <2>2. req'[c] = << >> /\ cur' = call'[c]
    BY <1>1, <1>6, <2>1 DEF TypeOK
  <2>3. InProcess(c)'
    BY <1>1, <1>2, <1>6 DEF InProcess
  <2>4. InOnePlace(c)'
    BY <1>1, <1>4, <2>1, <2>2, <2>3 DEF InOnePlace
  <2> QED BY <1>1, <1>3, <1>6, <2>1, <2>4 DEF Placed
<1> QED BY <1>5, <1>6

LEMMA RetryRequestPlaced ==
  ASSUME TypeOK, Control, RetryRequest, NEW c \in Clients, Placed(c)
  PROVE  Placed(c)'
<1>1. /\ pos \in DOMAIN requests /\ cur' = requests[pos] /\ cur = None /\ pc' = "process"
      /\ UNCHANGED <<call, cpc, registered, req, rsp, requests, pos>>
  BY DEF RetryRequest, ServerAt, client, retry, loop, Control, Busy, TypeOK
<1>2. cur' # None
  BY <1>1, MessageFields DEF TypeOK
<1>3. (Waits(c)' <=> Waits(c)) /\ ~InProcess(c)
  BY <1>1 DEF Waits, InProcess
<1>4. Kept(c)' = Kept(c) \ {pos}
  BY <1>1, <1>2 DEF Kept
<1>5. CASE requests[pos].from # c
  <2>1. pos \notin Kept(c) /\ ~InProcess(c)' /\ (Holds(c)' => Holds(c))
    BY <1>1, <1>2, <1>5 DEF Kept, InProcess, Holds
  <2> QED BY <1>1, <1>3, <1>4, <2>1, SamePlaced DEF Same, HeldAsBefore, Kept
<1>6. CASE requests[pos].from = c
  <2>1. pos \in Kept(c)
    BY <1>1, <1>6 DEF Kept
  <2>2. /\ Waits(c) /\ req[c] = << >> /\ rsp[c] = << >>
        /\ \E i \in DOMAIN requests : Kept(c) = {i} /\ requests[i] = call[c]
    BY <2>1 DEF Placed, Nowhere, InOnePlace
  <2>3. Kept(c)' = {} /\ cur' = call'[c]
    BY <1>1, <1>4, <2>1, <2>2
  <2>4. InProcess(c)'
    BY <1>1, <1>2, <1>6 DEF InProcess
  <2>5. InOnePlace(c)'
    BY <1>1, <2>2, <2>3, <2>4 DEF InOnePlace
  <2>6. c \in registered
    BY <1>1, <1>6 DEF Placed, Holds
  <2> QED BY <1>1, <1>3, <2>2, <2>5, <2>6 DEF Placed
<1> QED BY <1>5, <1>6

LEMMA SendResponsePlaced ==
  ASSUME TypeOK, Control, SendResponse, NEW c \in Clients, Placed(c)
  PROVE  Placed(c)'
<1>1. /\ cur # None /\ cur \in FileSystemMessage /\ cur.from \in Clients /\ pc = "send"
      /\ UNCHANGED <<call, cpc, registered, req>>
  BY MessageFields DEF SendResponse, ServerAt, client, loop, Control, Busy, TypeOK
<1>2. ASSUME cur.from = c
      PROVE  /\ Waits(c) /\ req[c] = << >> /\ rsp[c] = << >> /\ Kept(c) = {} /\ cur = call[c]
             /\ c \in registered /\ Len(rsp[c]) < Capacity
  <2>1. InProcess(c) /\ Holds(c)
    BY <1>1, <1>2 DEF InProcess, Holds
  <2>2. /\ Waits(c) /\ req[c] = << >> /\ rsp[c] = << >> /\ Kept(c) = {} /\ cur = call[c]
        /\ c \in registered
    BY <2>1 DEF Placed, Nowhere, InOnePlace
  <2>3. Len(rsp[c]) < Capacity
    BY <2>2, DeviceServerAssumption
  <2> QED BY <2>2, <2>3
<1>3. CASE cur.from \in registered /\ Len(rsp[cur.from]) < Capacity
  <2>1. /\ rsp' = [rsp EXCEPT ![cur.from] = Append(@, cur)] /\ pc' = "wake"
        /\ UNCHANGED <<cur, requests, pos>>
    BY <1>3 DEF SendResponse, work, retry
  <2>2. Waits(c)' <=> Waits(c)
    BY <1>1 DEF Waits
  <2>3. CASE cur.from = c
    <3>1. Kept(c)' = {} /\ ~InProcess(c)' /\ req'[c] = << >>
      BY <1>1, <1>2, <2>1, <2>3 DEF Kept, InProcess
    <3>2. rsp'[c] = <<call'[c]>>
      BY <1>1, <1>2, <2>1, <2>3 DEF TypeOK
    <3>3. InOnePlace(c)'
      BY <3>1, <3>2 DEF InOnePlace
    <3> QED BY <1>1, <1>2, <2>2, <2>3, <3>3 DEF Placed
  <2>4. CASE cur.from # c
    <3>1. HeldAsBefore(c)
      BY <2>1, <2>4, HeldUnchanged
    <3>2. rsp'[c] = rsp[c]
      BY <1>1, <2>1, <2>4 DEF TypeOK
    <3> QED BY <1>1, <2>2, <3>1, <3>2, SamePlaced DEF Same
  <2> QED BY <2>3, <2>4
<1>4. CASE ~(cur.from \in registered /\ Len(rsp[cur.from]) < Capacity)
  <2>1. Done /\ UNCHANGED rsp
    BY <1>4 DEF SendResponse
  <2>2. ~InProcess(c)
    BY <1>2, <1>4 DEF InProcess
  <2> QED BY <1>1, <2>1, <2>2, DonePlaced
<1> QED BY <1>3, <1>4

LEMMA ServerPlaced ==
  ASSUME TypeOK, Control, OwnRequests, NotAnnounced, ServerStep, NEW c \in Clients,
         Tracked(c), Placed(c)
  PROVE  Placed(c)'
<1>0. UNCHANGED <<cpc, call>>
  BY ServerLeaves
<1>1. ASSUME UNCHANGED <<requests, cur, req, rsp>>, cur = None \/ pos' = pos,
             c \in registered => c \in registered', pc # "wake", pc' # "wake"
      PROVE  Placed(c)'
  <2>1. HeldAsBefore(c)
    BY <1>1, HeldUnchanged
  <2>2. Waits(c)' <=> Waits(c)
    BY <1>0 DEF Waits
  <2> QED BY <1>0, <1>1, <2>1, <2>2, SamePlaced DEF Same
<1> USE DEF ServerAt
<1>2. CASE ReadKernelEvent
  <2>1. /\ kev # << >> /\ pc = "events" /\ pc' # "wake" /\ UNCHANGED <<requests, cur, req, rsp, pos>>
        /\ c \in registered => \/ c \in registered'
                               \/ Head(kev).type = "ProcessTerminated" /\ Head(kev).pid = c
    BY <1>2 DEF ReadKernelEvent, retry, work
  <2>2. ~(Head(kev).type = "ProcessTerminated" /\ Head(kev).pid = c)
    <3>1. Head(kev) = kev[1] /\ 1 \in DOMAIN kev
      BY <2>1 DEF TypeOK
    <3> QED BY <3>1 DEF NotAnnounced, Tracked
  <2> QED BY <1>1, <2>1, <2>2
<1>3. CASE EventsRead \/ InterruptHandler \/ ChannelsRead \/ RetryDone \/ SleepUntilWakeup
           \/ \E d \in Clients : NextChannel(d)
  <2>1. UNCHANGED <<requests, cur, req, rsp, registered>> /\ pc # "wake" /\ pc' # "wake"
    BY <1>3 DEF EventsRead, InterruptHandler, ChannelsRead, RetryDone, SleepUntilWakeup, NextChannel,
                RetryAll, loop, retry, work, TypeOK
  <2>2. cur = None
    BY <1>3 DEF EventsRead, InterruptHandler, ChannelsRead, RetryDone, SleepUntilWakeup, NextChannel,
                Control, Busy
  <2> QED BY <1>1, <2>1, <2>2
<1>4. CASE ProcessWrite \/ ProcessRead
  BY <1>1, <1>4 DEF ProcessWrite, ProcessRead, loop, retry
<1>5. CASE ReenableInterrupts
  <2>1. UNCHANGED <<req, rsp, registered>> /\ pc = "enable" /\ cur # None
    BY <1>5 DEF ReenableInterrupts, loop, Control, Busy
  <2>2. CASE got
    BY <1>1, <1>5, <2>1, <2>2 DEF ReenableInterrupts, retry, work
  <2>3. CASE ~got
    <3>1. Again
      BY <1>5, <2>3 DEF ReenableInterrupts
    <3> QED BY <1>0, <2>1, <3>1, AgainPlaced
  <2> QED BY <2>2, <2>3
<1>6. CASE WakeClient
  <2>1. Done /\ cur # None /\ ~InProcess(c) /\ UNCHANGED <<req, rsp, registered>>
    BY <1>6 DEF WakeClient, loop, Control, Busy, InProcess
  <2> QED BY <1>0, <2>1, DonePlaced
<1> HIDE DEF ServerAt
<1> QED BY <1>2, <1>3, <1>4, <1>5, <1>6, ReadChannelPlaced, RetryRequestPlaced, SendResponsePlaced
        DEF ServerStep

(* A step of another client, or of none. *)
LEMMA OtherPlaced ==
  ASSUME Elsewhere, NEW c \in Clients, Placed(c), req'[c] = req[c], rsp'[c] = rsp[c],
         call'[c] = call[c], cpc'[c] = cpc[c]
  PROVE  Placed(c)'
<1>1. HeldAsBefore(c)
  BY HeldUnchanged DEF Elsewhere
<1>2. Waits(c)' <=> Waits(c)
  BY DEF Waits
<1> QED BY <1>1, <1>2, SamePlaced DEF Same, Elsewhere

LEMMA ClientPlaced ==
  ASSUME TypeOK, Elsewhere, NEW c \in Clients, Tracked(c), Placed(c),
         ClientStep(c) \/ \E a \in {"ReadFile", "WriteFile"} : Operation(c, a)
  PROVE  Placed(c)' /\ (c \in wrong' => c \in wrong)
<1>1. HeldAsBefore(c) /\ UNCHANGED registered
  BY HeldUnchanged DEF Elsewhere
<1>2. ASSUME UNCHANGED <<req, rsp, call>>, Waits(c)' <=> Waits(c) PROVE Placed(c)'
  BY <1>1, <1>2, SamePlaced DEF Same
<1>3. ASSUME NEW a \in {"ReadFile", "WriteFile"}, Operation(c, a)
      PROVE  Placed(c)' /\ (c \in wrong' => c \in wrong)
  <2>1. cpc[c] = "idle" /\ cpc'[c] = "send" /\ UNCHANGED <<req, rsp, wrong>>
    BY <1>3 DEF Operation, ClientAt, TypeOK
  <2>2. ~Waits(c) /\ ~Waits(c)'
    BY <2>1 DEF Waits
  <2> QED BY <1>1, <2>1, <2>2 DEF Placed, Nowhere, HeldAsBefore
<1>4. CASE SyncSendTo(c)
  <2>1. /\ cpc[c] = "send" /\ cpc'[c] = (IF Len(req[c]) = Capacity THEN "full" ELSE "wake")
        /\ req' = [req EXCEPT ![c] = IF Len(req[c]) = Capacity THEN @ ELSE Append(@, call[c])]
        /\ UNCHANGED <<rsp, call, wrong>>
    BY <1>4 DEF SyncSendTo, ClientAt, TypeOK
  <2>2. ~Waits(c) /\ Nowhere(c)
    BY <2>1 DEF Waits, Placed
  <2>3. Len(req[c]) # Capacity
    BY <2>2, DeviceServerAssumption DEF Nowhere
  <2>4. req'[c] = <<call'[c]>> /\ Waits(c)'
    BY <2>1, <2>2, <2>3 DEF Nowhere, Waits, TypeOK
  <2>5. InOnePlace(c)'
    BY <1>1, <2>1, <2>2, <2>4 DEF InOnePlace, Nowhere, HeldAsBefore
  <2> QED BY <1>1, <2>1, <2>4, <2>5 DEF Placed, HeldAsBefore
<1>5. CASE WakeServer(c) \/ ClientSleep(c)
  <2>1. UNCHANGED <<req, rsp, call, wrong>>
    BY <1>5 DEF WakeServer, ClientSleep
  <2>2. Waits(c)' <=> Waits(c)
    BY <1>5 DEF WakeServer, ClientSleep, ClientAt, Waits, TypeOK
  <2> QED BY <1>2, <2>1, <2>2
<1>6. CASE SyncReceiveFrom(c)
  <2>1. /\ cpc[c] = "receive" /\ cpc'[c] = (IF rsp[c] = << >> THEN "sleep" ELSE "idle")
        /\ rsp' = [rsp EXCEPT ![c] = IF @ = << >> THEN @ ELSE Tail(@)] /\ UNCHANGED <<req, call>>
        /\ wrong' = IF rsp[c] # << >> /\ Head(rsp[c]) # call[c] THEN wrong \cup {c} ELSE wrong
    BY <1>6 DEF SyncReceiveFrom, ClientAt, TypeOK
  <2>2. CASE rsp[c] = << >>
    <3>1. UNCHANGED <<req, rsp, call, wrong>> /\ (Waits(c)' <=> Waits(c))
      BY <2>1, <2>2 DEF Waits, TypeOK
    <3> QED BY <1>2, <3>1
  <2>3. CASE rsp[c] # << >>
    <3>1. /\ rsp[c] = <<call[c]>> /\ req[c] = << >> /\ Kept(c) = {} /\ ~InProcess(c)
      BY <2>1, <2>3 DEF Placed, Waits, InOnePlace
    <3>2. rsp'[c] = << >> /\ Head(rsp[c]) = call[c] /\ ~Waits(c)'
      BY <2>1, <2>3, <3>1 DEF Waits, TypeOK
    <3>3. Nowhere(c)'
      BY <1>1, <2>1, <3>1, <3>2 DEF Nowhere, HeldAsBefore
    <3> QED BY <1>1, <2>1, <3>2, <3>3 DEF Placed, HeldAsBefore
  <2> QED BY <2>2, <2>3
<1> QED BY <1>3, <1>4, <1>5, <1>6 DEF ClientStep

LEMMA CallsStep ==
  ASSUME TypeOK, Control, OwnRequests, Calls, AnswersMatch, [Next]_vars
  PROVE  Calls' /\ AnswersMatch'
<1>0. NotAnnounced'
  BY AnnouncedStep DEF Calls
<1> DEFINE Good == \A c \in Clients : Tracked(c)' => Placed(c)'
<1>1. CASE ServerStep
  <2>1. UNCHANGED <<cpc, orphaned, wrong>>
    BY <1>1, ServerLeaves
  <2>2. Good
    BY <1>1, <2>1, ServerPlaced DEF Calls, Tracked
  <2> QED BY <1>0, <2>1, <2>2 DEF Calls, AnswersMatch
<1>2. CASE Receive \/ Interrupt
  <2>1. UNCHANGED <<req, rsp, call, cpc, orphaned, wrong, pc, cur, pos, requests, registered>>
    BY <1>2 DEF Receive, Interrupt, client, loop, retry, work
  <2>2. ASSUME NEW c \in Clients, Placed(c) PROVE Placed(c)'
    <3>1. HeldAsBefore(c)
      BY <2>1, HeldUnchanged
    <3>2. Waits(c)' <=> Waits(c)
      BY <2>1 DEF Waits
    <3> QED BY <2>1, <2>2, <3>1, <3>2, SamePlaced DEF Same
  <2> QED BY <1>0, <2>1, <2>2 DEF Calls, AnswersMatch, Tracked
<1>3. ASSUME NEW d \in Clients, Start(d) PROVE Good /\ AnswersMatch'
  <2>1. /\ cpc' = [cpc EXCEPT ![d] = "idle"] /\ req' = [req EXCEPT ![d] = << >>]
        /\ rsp' = [rsp EXCEPT ![d] = << >>] /\ wrong' = wrong \ {d} /\ UNCHANGED call
        /\ orphaned' = IF Holds(d) THEN orphaned \cup {d} ELSE orphaned \ {d}
    BY <1>3 DEF Start, Holds
  <2>2. Elsewhere
    BY <1>3, ClientIsElsewhere DEF OfClient
  <2>3. ASSUME NEW c \in Clients \ {d}, Tracked(c)' PROVE Placed(c)'
    <3>1. cpc'[c] = cpc[c] /\ req'[c] = req[c] /\ rsp'[c] = rsp[c] /\ Tracked(c)
      BY <2>1, <2>3 DEF Tracked, TypeOK
    <3> QED BY <2>1, <2>2, <3>1, OtherPlaced DEF Calls
  <2>4. ASSUME Tracked(d)' PROVE Placed(d)'
    <3>1. ~Holds(d) /\ ~Holds(d)'
      BY <2>1, <2>2, <2>4 DEF Tracked, Holds, Elsewhere
    <3>2. req'[d] = << >> /\ rsp'[d] = << >> /\ ~Waits(d)'
      BY <2>1 DEF Waits, TypeOK
    <3>3. Kept(d)' = {} /\ ~InProcess(d)'
      BY <3>1 DEF Holds, Kept, InProcess
    <3> QED BY <3>1, <3>2, <3>3 DEF Placed, Nowhere
  <2> QED BY <2>1, <2>3, <2>4 DEF AnswersMatch
<1>4. ASSUME NEW d \in Clients, Terminate(d) PROVE Good /\ AnswersMatch'
  <2>1. cpc' = [cpc EXCEPT ![d] = "dead"] /\ UNCHANGED <<req, rsp, call, orphaned, wrong>>
    BY <1>4 DEF Terminate
  <2>2. Elsewhere
    BY <1>4, ClientIsElsewhere DEF OfClient
  <2>3. ASSUME NEW c \in Clients, Tracked(c)' PROVE Placed(c)'
    <3>1. cpc'[c] = cpc[c] /\ Tracked(c)
      BY <2>1, <2>3 DEF Tracked, TypeOK
    <3> QED BY <2>1, <2>2, <3>1, OtherPlaced DEF Calls
  <2> QED BY <2>1, <2>3 DEF AnswersMatch
<1>5. ASSUME NEW d \in Clients, ClientStep(d) \/ \E a \in {"ReadFile", "WriteFile"} : Operation(d, a)
      PROVE  Good /\ AnswersMatch'
  <2>1. /\ \A c \in Clients \ {d} : /\ cpc'[c] = cpc[c] /\ req'[c] = req[c] /\ rsp'[c] = rsp[c]
                                    /\ call'[c] = call[c]
        /\ UNCHANGED orphaned /\ cpc[d] # "dead" /\ wrong' \subseteq wrong \cup {d}
    BY <1>5 DEF ClientStep, Operation, SyncSendTo, WakeServer, SyncReceiveFrom, ClientSleep, ClientAt, TypeOK
  <2>2. Elsewhere
    BY <1>5, ClientIsElsewhere DEF OfClient
  <2>3. ASSUME NEW c \in Clients \ {d}, Tracked(c)' PROVE Placed(c)'
    BY <2>1, <2>2, <2>3, OtherPlaced DEF Calls, Tracked
  <2>4. ASSUME Tracked(d) PROVE Placed(d)' /\ (d \in wrong' => d \in wrong)
    BY <1>5, <2>2, <2>4, ClientPlaced DEF Calls
  <2>5. Tracked(d)' => Tracked(d)
    BY <2>1 DEF Tracked
  <2>6. AnswersMatch'
    BY <2>1, <2>4 DEF AnswersMatch, Tracked
  <2> QED BY <2>3, <2>4, <2>5, <2>6
<1>6. CASE UNCHANGED vars
  <2>1. UNCHANGED <<req, rsp, call, cpc, orphaned, wrong, pc, cur, pos, requests, registered>>
    BY <1>6 DEF vars, client, loop, retry, work
  <2>2. ASSUME NEW c \in Clients, Placed(c) PROVE Placed(c)'
    <3>1. HeldAsBefore(c)
      BY <2>1, HeldUnchanged
    <3>2. Waits(c)' <=> Waits(c)
      BY <2>1 DEF Waits
    <3> QED BY <2>1, <2>2, <3>1, <3>2, SamePlaced DEF Same
  <2> QED BY <1>0, <2>1, <2>2 DEF Calls, AnswersMatch, Tracked
<1>7. ASSUME Good PROVE Calls'
  BY <1>0, <1>7 DEF Calls
<1> QED BY <1>1, <1>2, <1>3, <1>4, <1>5, <1>6, <1>7 DEF Next

-----------------------------------------------------------------------------
LEMMA NextStep == ASSUME IInv, [Next]_vars PROVE IInv'
<1> USE DEF IInv, Safe
<1>1. TypeOK' /\ OwnRequests' /\ Calls' /\ AnswersMatch'
  BY TypeStep, OwnStep, CallsStep
<1>2. CASE ServerStep
  BY <1>1, <1>2, ServerControl, ServerInterrupts, ServerWakeups
<1>3. ASSUME NEW c \in Clients, OfClient(c) PROVE IInv'
  <2>1. Control' /\ OnlyReads'
    BY <1>3, ClientIsElsewhere, ElsewhereControl
  <2>2. Interrupts'
    BY <1>3, ClientInterrupts
  <2>3. Wakeups'
    BY <1>3, ClientWakeups, EventWakeups DEF OfClient
  <2> QED BY <1>1, <2>1, <2>2, <2>3
<1>4. CASE Receive \/ Interrupt
  <2>1. Control' /\ OnlyReads'
    BY <1>4, UartIsElsewhere, ElsewhereControl
  <2>2. Interrupts'
    BY <1>4, UartInterrupts
  <2>3. Wakeups'
    BY <1>4, EventWakeups
  <2> QED BY <1>1, <2>1, <2>2, <2>3
<1>5. CASE UNCHANGED vars
  <2>1. Control' /\ OnlyReads' /\ Interrupts'
    BY <1>5 DEF vars, kernel, loop, retry, work, uart, Control, OnlyReads, Interrupts
  <2>2. Wakeups'
    BY <1>5 DEF vars, kernel, loop, retry, work, client, Wakeups, LastLook
  <2> QED BY <1>1, <2>1, <2>2
<1> HIDE DEF IInv, Safe
<1> QED BY <1>2, <1>3, <1>4, <1>5 DEF Next, OfClient

LEMMA InitHeld == ASSUME Init PROVE IInv
<1>1. TypeOK
  <2>1. \A c \in Clients : [from |-> c, action |-> "ReadFile", id |-> 0] \in FileSystemMessage
    BY DeviceServerAssumption DEF FileSystemMessage
  <2>2. call \in [Clients -> FileSystemMessage]
    BY <2>1 DEF Init
  <2>3. kev \in Seq(Event) /\ Len(kev) <= MaxEvents
    BY DeviceServerAssumption DEF Init
  <2>4. /\ req \in [Clients -> Seq(FileSystemMessage)] /\ rsp \in [Clients -> Seq(FileSystemMessage)]
        /\ requests \in Seq(FileSystemMessage)
    BY DEF Init
  <2> QED BY Zenon, <2>2, <2>3, <2>4 DEF Init, TypeOK, Labels
<1>2. Control /\ OnlyReads /\ OwnRequests
  BY DEF Init, Control, OnlyReads, OwnRequests, Busy
<1>3. Interrupts /\ Wakeups
  BY DEF Init, Interrupts, Wakeups, LastLook, Busy
<1>4. NotAnnounced /\ AnswersMatch /\ \A c \in Clients : ~Tracked(c)
  BY DEF Init, NotAnnounced, AnswersMatch, Tracked
<1> QED BY <1>1, <1>2, <1>3, <1>4 DEF IInv, Safe, Calls

LEMMA Invariance == Spec => []IInv
<1>1. Init => IInv
  BY InitHeld
<1>2. IInv /\ [Next]_vars => IInv'
  BY NextStep
<1> QED BY <1>1, <1>2, PTL DEF Spec

(* The variables keep their types; the event channel keeps its capacity. *)
THEOREM TypeCorrect == Spec => []TypeOK
<1>1. IInv => TypeOK
  BY DEF IInv
<1> QED BY <1>1, Invariance, PTL

(* A client that ChannelClient::syncSendReceive() answers gets the answer to  *)
(* the request it sent, unless a request of a previous process with its      *)
(* identifier was left in the server when it started.                        *)
THEOREM AnswersMatchHolds == Spec => []AnswersMatch
<1>1. IInv => AnswersMatch
  BY DEF IInv
<1> QED BY <1>1, Invariance, PTL

(* ChannelServer::run() and ChannelClient::syncReceiveFrom() sleep only when  *)
(* a wakeup, an interrupt that is enabled or a message on its way ends the   *)
(* sleep, and a waiting client has one request or answer on its way.         *)
THEOREM ServerWakesHolds == Spec => []ServerWakes
<1>1. ASSUME IInv PROVE NoLostWakeup
  <2>1. Server \in asleep => kev = << >> /\ \A c \in registered : req[c] # << >> => cpc[c] = "wake"
    <3>1. SUFFICES ASSUME Server \in asleep
                   PROVE  kev = << >> /\ \A c \in registered : req[c] # << >> => cpc[c] = "wake"
      OBVIOUS
    <3>2. Server \notin wakeups /\ LastLook
      BY <1>1, <3>1 DEF IInv, Safe, Wakeups, LastLook
    <3>3. keys = {}
      BY <1>1, <3>1 DEF IInv, Safe, Control, Busy
    <3> QED BY <1>1, <3>2, <3>3 DEF IInv, Safe, Wakeups
  <2>2. \A c \in Clients \cap asleep : rsp[c] # << >> => pc = "wake" /\ cur.from = c
    BY <1>1 DEF IInv, Safe, Wakeups
  <2> QED BY <2>1, <2>2 DEF NoLostWakeup
<1>2. ASSUME IInv PROVE WaitsForInterrupt
  <2>1. SUFFICES ASSUME Server \in asleep, requests # << >>, ~lost PROVE irq /\ ier
    BY DEF WaitsForInterrupt
  <2>2. kev = << >> /\ pc = "events"
    BY <1>1, <1>2, <2>1 DEF NoLostWakeup, IInv, Safe, Control
  <2>3. ier
    BY <1>2, <2>1, <2>2 DEF IInv, Safe, Interrupts
  <2> QED BY <1>2, <2>1, <2>2, <2>3 DEF IInv, Safe, Interrupts
<1>3. ASSUME IInv PROVE OneInFlight
  <2>1. SUFFICES ASSUME NEW c \in Clients, c \notin orphaned, cpc[c] # "dead"
                 PROVE  IF Waits(c) THEN \E p \in Places(c) : Places(c) = {p} ELSE Places(c) = {}
    BY <1>3 DEF OneInFlight, Waits, IInv, TypeOK
  <2>2. Placed(c)
    BY <1>3, <2>1 DEF IInv, Calls, Tracked
  <2>3. Places(c) = {<<"request", i>> : i \in DOMAIN req[c]} \cup {<<"response", i>> : i \in DOMAIN rsp[c]}
                      \cup {<<"held", i>> : i \in Kept(c)}
                      \cup (IF InProcess(c) THEN {<<"process", pos>>} ELSE {})
    BY DEF Places, Kept, InProcess
  <2>4. CASE ~Waits(c)
    <3>1. req[c] = << >> /\ rsp[c] = << >> /\ Kept(c) = {} /\ ~InProcess(c)
      BY <2>2, <2>4 DEF Placed, Nowhere
    <3> QED BY <2>3, <2>4, <3>1
  <2>5. CASE Waits(c)
    <3>0. InOnePlace(c)
      BY <2>2, <2>5 DEF Placed
    <3>e. DOMAIN << >> = {} /\ DOMAIN <<call[c]>> = {1}
      OBVIOUS
    <3> SUFFICES \E p : Places(c) = {p}
      BY <2>5
    <3>1. CASE req[c] = <<call[c]>> /\ rsp[c] = << >> /\ Kept(c) = {} /\ ~InProcess(c)
      <4>1. Places(c) = {<<"request", 1>>}
        BY <2>3, <3>1, <3>e
      <4> QED BY Zenon, <4>1
    <3>2. CASE req[c] = << >> /\ rsp[c] = <<call[c]>> /\ Kept(c) = {} /\ ~InProcess(c)
      <4>1. Places(c) = {<<"response", 1>>}
        BY <2>3, <3>2, <3>e
      <4> QED BY Zenon, <4>1
    <3>3. CASE req[c] = << >> /\ rsp[c] = << >> /\ Kept(c) = {} /\ InProcess(c)
      <4>1. Places(c) = {<<"process", pos>>}
        BY <2>3, <3>3, <3>e
      <4> QED BY Zenon, <4>1
    <3>4. CASE req[c] = << >> /\ rsp[c] = << >> /\ ~InProcess(c) /\ \E i : Kept(c) = {i}
      <4>0. PICK i : Kept(c) = {i}
        BY <3>4
      <4>1. Places(c) = {<<"held", i>>}
        BY <2>3, <3>4, <3>e, <4>0
      <4> QED BY Zenon, <4>1
    <3> QED BY Zenon, <3>0, <3>1, <3>2, <3>3, <3>4 DEF InOnePlace
  <2> QED BY <2>4, <2>5
<1>4. IInv => ServerWakes
  BY <1>1, <1>2, <1>3 DEF ServerWakes
<1> QED BY <1>4, Invariance, PTL
=============================================================================
