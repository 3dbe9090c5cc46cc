------------------------- MODULE DeviceServerLoop ---------------------------
(* Proofs about the loop of the device server, for any number of clients and *)
(* any capacity of the channels: types, the position of the server in its     *)
(* loop, the interrupts of the UART, and the wakeups of the server and of its *)
(* clients.  Module DeviceServerProofs follows the requests.                  *)
EXTENDS DeviceServer, TLAPS

(* The provers that are tried on a leaf which names none, with their time. *)
USE ZenonT(5), SMTT(30)

-----------------------------------------------------------------------------
Busy == {"process", "enable", "send", "wake"}

Labels == {"events", "interrupt", "channels", "retry", "sleep"} \cup Busy

Event == [type : {"InterruptEvent"}] \cup [type : {"ShareCreated", "ProcessTerminated"}, pid : Clients]

TypeOK ==
  /\ asleep \subseteq Clients \cup {Server} /\ wakeups \subseteq Clients \cup {Server}
  /\ kev \in Seq(Event) /\ Len(kev) <= MaxEvents /\ lost \in BOOLEAN
  /\ req \in [Clients -> Seq(FileSystemMessage)] /\ rsp \in [Clients -> Seq(FileSystemMessage)]
  /\ cpc \in [Clients -> {"dead", "idle", "send", "full", "wake", "receive", "sleep"}]
  /\ call \in [Clients -> FileSystemMessage]
  /\ registered \subseteq Clients /\ keys \subseteq Clients /\ at \subseteq Clients
  /\ pc \in Labels
  /\ cur \in FileSystemMessage \cup {None} /\ got \in BOOLEAN
  /\ requests \in Seq(FileSystemMessage) /\ pos \in Nat
  /\ restart \in BOOLEAN /\ after \in {"events", "sleep"}
  /\ irq \in BOOLEAN /\ ier \in BOOLEAN /\ fifo \in Nat
  /\ orphaned \subseteq Clients /\ wrong \subseteq Clients

(* The server holds a request exactly while it processes one; in            *)
(* retryRequests() it is the one at the iterator, in readChannels() one of   *)
(* the channel that is read.                                                 *)
Control ==
  /\ cur # None <=> pc \in Busy
  /\ pc \in {"events", "interrupt", "channels", "sleep"} => pos = 0
  /\ pc = "retry" => pos # 0
  /\ cur # None /\ pos # 0 => pos \in DOMAIN requests /\ requests[pos] = cur
  /\ pos = 0 => after = "events"
  /\ keys # {} => pos = 0 /\ pc \in {"channels"} \cup Busy
  /\ keys \subseteq registered /\ at \subseteq keys
  /\ cur # None /\ pos = 0 => at = {cur.from}
  /\ Server \in asleep => pc = "events"

(* Only reads are retried, and only a read reaches ReenableInterrupts. *)
OnlyReads ==
  /\ \A i \in DOMAIN requests : requests[i].action = "ReadFile"
  /\ pc = "enable" => cur.action = "ReadFile"

(* While the receive interrupt is off in the UART no request waits, or the   *)
(* first of them is about to be retried; while the interrupt controller      *)
(* masks it, the event that says so is still to be handled.                  *)
Interrupts ==
  /\ ~ier /\ requests # << >> => pos = 1 /\ pc \in {"retry", "process", "enable"}
  /\ ~irq /\ ier /\ ~lost =>
       pc = "interrupt" \/ \E i \in DOMAIN kev : kev[i].type = "InterruptEvent"

(* The server has read its events since it last slept. *)
LastLook ==
  \/ pc \in {"channels", "sleep"}
  \/ pc \in Busy /\ pos = 0
  \/ pos # 0 /\ after = "sleep"
  \/ Server \in asleep

(* What a process has found empty and decided to sleep on stays empty,       *)
(* unless the wakeup counter will end its sleep or somebody is about to      *)
(* wake it up.                                                               *)
Wakeups ==
  /\ asleep \cap wakeups = {}
  /\ LastLook /\ Server \notin wakeups =>
       kev = << >> /\ \A c \in registered \ keys : req[c] # << >> => cpc[c] = "wake"
  /\ \A c \in Clients :
       /\ c \in asleep => cpc[c] = "receive"
       /\ c \in asleep \/ (cpc[c] = "sleep" /\ c \notin wakeups)
            => rsp[c] = << >> \/ (pc = "wake" /\ cur.from = c)

(* A client sends its own requests. *)
OwnRequests ==
  \A c \in Clients : call[c].from = c /\ \A i \in DOMAIN req[c] : req[c][i].from = c

Safe == Control /\ OnlyReads /\ OwnRequests /\ Interrupts /\ Wakeups

-----------------------------------------------------------------------------
LEMMA ConcatFields ==
  ASSUME NEW S, NEW s \in Seq(S), NEW t \in Seq(S)
  PROVE  s \o t \in Seq(S) /\ Len(s \o t) = Len(s) + Len(t)
  OBVIOUS

(* Removing the request at the iterator. *)
LEMMA RemoveAtFields ==
  ASSUME NEW S, NEW s \in Seq(S), NEW k \in 1 .. Len(s)
  PROVE  /\ RemoveAt(s, k) \in Seq(S)
         /\ Len(RemoveAt(s, k)) = Len(s) - 1
         /\ \A i \in 1 .. Len(s) - 1 : RemoveAt(s, k)[i] = IF i < k THEN s[i] ELSE s[i + 1]
<1> DEFINE a == SubSeq(s, 1, k - 1)
           b == SubSeq(s, k + 1, Len(s))
<1>1. RemoveAt(s, k) = a \o b
  BY DEF RemoveAt
<1>2. a \in Seq(S) /\ Len(a) = k - 1 /\ \A i \in 1 .. k - 1 : a[i] = s[i]
  OBVIOUS
<1>3. b \in Seq(S) /\ Len(b) = Len(s) - k /\ \A i \in 1 .. Len(s) - k : b[i] = s[i + k]
  OBVIOUS
<1> HIDE DEF a, b
<1>4. a \o b \in Seq(S) /\ Len(a \o b) = Len(s) - 1
  <2>1. a \o b \in Seq(S) /\ Len(a \o b) = Len(a) + Len(b)
    BY Zenon, <1>2, <1>3, ConcatFields
  <2> QED BY <1>2, <1>3, <2>1
<1>5. ASSUME NEW i \in 1 .. Len(s) - 1 PROVE (a \o b)[i] = IF i < k THEN s[i] ELSE s[i + 1]
  <2>1. CASE i < k
    BY <1>2, <1>3, <2>1
  <2>2. CASE ~(i < k)
    <3>1. (a \o b)[i] = b[i - (k - 1)]
      BY <1>2, <1>3, <2>2
    <3>2. i - (k - 1) \in 1 .. Len(s) - k /\ (i - (k - 1)) + k = i + 1
      BY <2>2
    <3>3. b[i - (k - 1)] = s[i + 1]
      BY <1>3, <3>2
    <3> QED BY <2>2, <3>1, <3>3
  <2> QED BY Zenon, <2>1, <2>2
<1> QED BY <1>1, <1>4, <1>5

LEMMA MessageFields ==
  ASSUME NEW m \in FileSystemMessage
  PROVE  m.from \in Clients /\ m.action \in {"ReadFile", "WriteFile"} /\ m # None
  BY DeviceServerAssumption DEF FileSystemMessage

LEMMA RaiseEventType ==
  ASSUME TypeOK, NEW e, raiseEvent(e), e.type = "InterruptEvent" => e = [type |-> "InterruptEvent"],
         e.type # "InterruptEvent" => e \in [type : {"ShareCreated", "ProcessTerminated"}, pid : Clients]
  PROVE  kev' \in Seq(Event) /\ Len(kev') <= MaxEvents /\ lost' \in BOOLEAN
<1>1. e \in Event
  BY DEF Event
<1>2. kev' \in Seq(Event) /\ Len(kev') <= MaxEvents
  BY <1>1, DeviceServerAssumption DEF raiseEvent, TypeOK
<1> QED BY <1>2 DEF raiseEvent, TypeOK

LEMMA DoneFields ==
  ASSUME TypeOK, Control, cur # None, Done
  PROVE  /\ cur' = None /\ got' = FALSE /\ pc' = (IF pos = 0 THEN "channels" ELSE "retry")
         /\ after' = after /\ pos' = (IF pos = 0 THEN 0 ELSE pos + 1)
         /\ requests' = (IF pos = 0 THEN requests ELSE RemoveAt(requests, pos))
         /\ requests' \in Seq(FileSystemMessage)
         /\ restart' \in BOOLEAN
<1>1. CASE pos = 0
  BY <1>1 DEF Done, retry, TypeOK
<1>2. CASE pos # 0
  <2>1. pos \in 1 .. Len(requests)
    BY <1>2 DEF Control, TypeOK
  <2>2. RemoveAt(requests, pos) \in Seq(FileSystemMessage)
    BY <2>1, RemoveAtFields DEF TypeOK
  <2> QED BY <1>2, <2>2 DEF Done
<1> QED BY Zenon, <1>1, <1>2

(* What Done and Again leave behind. *)
Finished ==
  /\ cur' = None /\ got' = FALSE /\ pc' \in {"channels", "retry"} /\ pos' \in Nat
  /\ requests' \in Seq(FileSystemMessage) /\ restart' \in BOOLEAN /\ after' = after

LEMMA DoneType == ASSUME TypeOK, Control, cur # None, Done PROVE Finished
<1>1. pos \in Nat
  BY DEF TypeOK
<1>2. pos' \in Nat /\ pc' \in {"channels", "retry"}
  BY <1>1, DoneFields
<1> QED BY <1>2, DoneFields DEF Finished

LEMMA AgainType == ASSUME TypeOK, cur \in FileSystemMessage, Again PROVE Finished
<1>1. CASE pos = 0
  <2>1. Append(requests, cur) \in Seq(FileSystemMessage)
    BY DEF TypeOK
  <2>2. /\ cur' = None /\ got' = FALSE /\ pc' = "channels" /\ requests' = Append(requests, cur)
        /\ pos' = pos /\ restart' = restart /\ after' = after
    BY <1>1 DEF Again
  <2> QED BY <1>1, <2>1, <2>2 DEF Finished, TypeOK
<1>2. CASE pos # 0
  BY <1>2 DEF Again, Finished, TypeOK
<1> QED BY <1>1, <1>2

LEMMA TypeStep == ASSUME TypeOK, Control, [Next]_vars PROVE TypeOK'
<1> USE DEF TypeOK
<1>1. CASE Receive
  BY <1>1 DEF Receive, kernel, loop, retry, work, client
<1>2. CASE Interrupt
  <2>1. kev' \in Seq(Event) /\ Len(kev') <= MaxEvents /\ lost' \in BOOLEAN
    BY <1>2, RaiseEventType DEF Interrupt
  <2> QED BY Zenon, <1>2, <2>1 DEF Interrupt, wakeup, loop, retry, work, client
<1>3. ASSUME NEW c \in Clients, Start(c) PROVE TypeOK'
  <2>1. kev' \in Seq(Event) /\ Len(kev') <= MaxEvents /\ lost' \in BOOLEAN
    BY <1>3, RaiseEventType DEF Start
  <2> QED BY <1>3, <2>1 DEF Start, wakeup, loop, retry, work, uart
<1>4. ASSUME NEW c \in Clients, Terminate(c) PROVE TypeOK'
  <2>1. kev' \in Seq(Event) /\ Len(kev') <= MaxEvents /\ lost' \in BOOLEAN
    BY <1>4, RaiseEventType DEF Terminate
  <2> QED BY <1>4, <2>1 DEF Terminate, loop, retry, work, uart
<1>5. ASSUME NEW c \in Clients, NEW a \in {"ReadFile", "WriteFile"}, Operation(c, a) PROVE TypeOK'
  <2>1. [from |-> c, action |-> a, id |-> (call[c].id + 1) % NumIds] \in FileSystemMessage
    <3>1. call[c].id \in Nat /\ NumIds \in Nat \ {0}
      BY DeviceServerAssumption DEF FileSystemMessage
    <3>2. (call[c].id + 1) % NumIds \in 0 .. NumIds - 1
      BY <3>1
    <3> QED BY <3>2 DEF FileSystemMessage
  <2> QED BY <1>5, <2>1 DEF Operation, ClientAt, loop, retry, work, uart
<1>6. ASSUME NEW c \in Clients, ClientStep(c) PROVE TypeOK'
  <2>1. CASE SyncSendTo(c)
    BY <2>1 DEF SyncSendTo, ClientAt, loop, retry, work, uart
  <2>2. CASE WakeServer(c)
    BY <2>2 DEF WakeServer, ClientAt, wakeup, loop, retry, work, uart
  <2>3. CASE SyncReceiveFrom(c)
    BY <2>3 DEF SyncReceiveFrom, ClientAt, loop, retry, work, uart
  <2>4. CASE ClientSleep(c)
    BY <2>4 DEF ClientSleep, ClientAt, sleep, loop, retry, work, uart
  <2> HIDE DEF TypeOK
  <2> QED BY <1>6, <2>1, <2>2, <2>3, <2>4 DEF ClientStep
<1>7. CASE ServerStep
  <2> USE DEF ServerAt, client, Labels, Busy
  <2>1. CASE ReadKernelEvent
    <3>1. kev' \in Seq(Event) /\ Len(kev') <= MaxEvents /\ UNCHANGED lost
      BY <2>1, DeviceServerAssumption DEF ReadKernelEvent
    <3>2. registered' \subseteq Clients /\ pc' \in Labels
      BY <2>1 DEF ReadKernelEvent, Event
    <3> QED BY <2>1, <3>1, <3>2 DEF ReadKernelEvent, retry, work, uart
  <2>2. CASE EventsRead
    BY <2>2 DEF EventsRead, kernel, retry, work, uart
  <2>3. CASE InterruptHandler
    BY Zenon, <2>3 DEF InterruptHandler, RetryAll, kernel, loop, work
  <2>4. ASSUME NEW c \in Clients, ReadChannel(c) PROVE TypeOK'
    BY <2>4 DEF ReadChannel, kernel, retry, uart
  <2>5. ASSUME NEW c \in Clients, NextChannel(c) PROVE TypeOK'
    BY <2>5 DEF NextChannel, kernel, retry, work, uart
  <2>6. CASE ChannelsRead
    BY Zenon, <2>6 DEF ChannelsRead, RetryAll, kernel, loop, work, uart
  <2>7. CASE ProcessWrite
    BY <2>7 DEF ProcessWrite, kernel, loop, retry, uart
  <2>8. CASE ProcessRead
    BY <2>8 DEF ProcessRead, kernel, loop, retry
  <2>9. CASE ReenableInterrupts
    <3>1. /\ ier' = TRUE /\ irq' \in BOOLEAN
          /\ UNCHANGED <<kernel, loop, fifo, req, rsp, cpc, call, orphaned, wrong>>
      BY Zenon, <2>9 DEF ReenableInterrupts
    <3>2. cur \in FileSystemMessage
      BY <2>9 DEF ReenableInterrupts, Control
    <3>3. CASE got
      BY Zenon, <2>9, <3>1, <3>3 DEF ReenableInterrupts, work, retry, kernel, loop
    <3>4. CASE ~got
      <4>1. Again
        BY <2>9, <3>4 DEF ReenableInterrupts
      <4>2. Finished
        BY <3>2, <4>1, AgainType
      <4> QED BY Zenon, <3>1, <4>2 DEF Finished, kernel, loop
    <3> HIDE DEF TypeOK, ServerAt, client, Labels, Busy
    <3> QED BY <3>3, <3>4
  <2>10. CASE SendResponse
    <3>1. cur # None /\ cur \in FileSystemMessage /\ cur.from \in Clients
      BY <2>10, MessageFields DEF SendResponse, Control
    <3>2. UNCHANGED <<kernel, loop, uart, req, cpc, call, orphaned, wrong>>
      BY <2>10 DEF SendResponse
    <3>3. CASE cur.from \in registered /\ Len(rsp[cur.from]) < Capacity
      <4>1. /\ rsp' = [rsp EXCEPT ![cur.from] = Append(@, cur)] /\ pc' = "wake"
            /\ UNCHANGED <<work, retry>>
        BY <2>10, <3>3 DEF SendResponse
      <4>2. rsp' \in [Clients -> Seq(FileSystemMessage)]
        BY <3>1, <4>1
      <4> QED BY <3>2, <4>1, <4>2 DEF work, retry, kernel, loop, uart
    <3>4. CASE ~(cur.from \in registered /\ Len(rsp[cur.from]) < Capacity)
      <4>1. Done /\ UNCHANGED rsp
        BY <2>10, <3>4 DEF SendResponse
      <4>2. Finished
        BY <3>1, <4>1, DoneType
      <4> QED BY Zenon, <3>2, <4>1, <4>2 DEF Finished, kernel, loop, uart
    <3> HIDE DEF TypeOK, ServerAt, client, Labels, Busy
    <3> QED BY <3>3, <3>4
  <2>11. CASE WakeClient
    <3>1. cur # None /\ cur.from \in Clients
      BY <2>11, MessageFields DEF WakeClient, Control
    <3>2. asleep' \subseteq Clients \cup {Server} /\ wakeups' \subseteq Clients \cup {Server}
      BY <2>11, <3>1 DEF WakeClient, wakeup
    <3>3. Finished
      BY <2>11, <3>1, DoneType DEF WakeClient
    <3>4. UNCHANGED <<kev, lost, loop, uart, req, rsp, client>>
      BY <2>11 DEF WakeClient
    <3> QED BY Zenon, <3>2, <3>3, <3>4 DEF Finished, loop, uart
  <2>12. CASE RetryRequest
    BY <2>12 DEF RetryRequest, Control, kernel, loop, retry, uart
  <2>13. CASE RetryDone /\ restart
    <3>1. /\ pc' = "retry" /\ after' = after /\ pos' = 1 /\ restart' = FALSE /\ UNCHANGED requests
          /\ UNCHANGED <<kernel, loop, work, uart, req, rsp, client>>
      BY <2>13 DEF RetryDone, RetryAll
    <3> QED BY Zenon, <3>1 DEF kernel, loop, work, uart
  <2>14. CASE RetryDone /\ ~restart
    BY <2>14 DEF RetryDone, kernel, loop, work, uart
  <2>15. CASE SleepUntilWakeup
    BY <2>15 DEF SleepUntilWakeup, sleep, loop, retry, work, uart
  <2> HIDE DEF TypeOK, ServerAt, client, Labels, Busy
  <2> QED BY <1>7, <2>1, <2>2, <2>3, <2>4, <2>5, <2>6, <2>7, <2>8, <2>9, <2>10, <2>11,
             <2>12, <2>13, <2>14, <2>15 DEF ServerStep
<1>8. CASE UNCHANGED vars
  BY <1>8 DEF vars, kernel, loop, retry, work, uart, client
<1> HIDE DEF TypeOK
<1> QED BY <1>1, <1>2, <1>3, <1>4, <1>5, <1>6, <1>7, <1>8 DEF Next

-----------------------------------------------------------------------------
(* What is not the server leaves its control alone. *)
Elsewhere ==
  /\ UNCHANGED <<pc, cur, pos, requests, after, keys, registered, at>>
  /\ Server \in asleep' => Server \in asleep

LEMMA ElsewhereControl == ASSUME Control, OnlyReads, Elsewhere PROVE Control' /\ OnlyReads'
<1>1. Control'
  BY DEF Control, Elsewhere
<1>2. OnlyReads'
  BY DEF OnlyReads, Elsewhere
<1> QED BY <1>1, <1>2

OfClient(c) ==
  \/ Start(c) \/ Terminate(c) \/ ClientStep(c)
  \/ \E a \in {"ReadFile", "WriteFile"} : Operation(c, a)

LEMMA UartIsElsewhere == ASSUME Receive \/ Interrupt PROVE Elsewhere
  BY DEF Receive, Interrupt, wakeup, kernel, loop, retry, work, Elsewhere

LEMMA ClientIsElsewhere == ASSUME NEW c \in Clients, OfClient(c) PROVE Elsewhere
<1>0. Server # c
  BY DeviceServerAssumption
<1> USE DEF Elsewhere, loop, retry, work
<1>1. CASE Start(c)
  BY <1>1 DEF Start, wakeup
<1>2. CASE Terminate(c)
  BY <1>2 DEF Terminate
<1>3. CASE SyncSendTo(c) \/ SyncReceiveFrom(c)
  BY <1>3 DEF SyncSendTo, SyncReceiveFrom, ClientAt
<1>4. CASE WakeServer(c)
  BY <1>4 DEF WakeServer, ClientAt, wakeup
<1>5. CASE ClientSleep(c)
  BY <1>0, <1>5 DEF ClientSleep, ClientAt, sleep
<1>6. ASSUME NEW a \in {"ReadFile", "WriteFile"}, Operation(c, a) PROVE Elsewhere
  BY <1>6 DEF Operation, ClientAt
<1> HIDE DEF Elsewhere, loop, retry, work
<1> QED BY <1>1, <1>2, <1>3, <1>4, <1>5, <1>6 DEF OfClient, ClientStep

LEMMA DoneControl ==
  ASSUME TypeOK, Control, OnlyReads, cur # None, Done, UNCHANGED <<registered, keys, at>>,
         Server \notin asleep'
  PROVE  Control' /\ OnlyReads'
<1>1. /\ cur' = None /\ pc' = (IF pos = 0 THEN "channels" ELSE "retry")
      /\ after' = after /\ pos' = (IF pos = 0 THEN 0 ELSE pos + 1)
      /\ requests' = (IF pos = 0 THEN requests ELSE RemoveAt(requests, pos))
  BY DoneFields
<1>2. pos \in Nat /\ requests \in Seq(FileSystemMessage) /\ pc \in Busy
  BY DEF TypeOK, Control
<1>3. Control'
  <2>1. cur' = None /\ pc' \notin Busy
    BY <1>1 DEF Busy
  <2>2. CASE pos = 0
    BY <1>1, <2>1, <2>2 DEF Control
  <2>3. CASE pos # 0
    <3>1. pos' # 0 /\ pc' = "retry" /\ keys = {}
      BY <1>1, <1>2, <2>3 DEF Control
    <3> QED BY <1>1, <2>1, <2>3, <3>1 DEF Control
  <2> QED BY <2>2, <2>3
<1>4. \A i \in DOMAIN requests' : requests'[i].action = "ReadFile"
  <2>1. CASE pos = 0
    BY <1>1, <2>1 DEF OnlyReads
  <2>2. CASE pos # 0
    <3>1. pos \in 1 .. Len(requests)
      BY <1>2, <2>2 DEF Control
    <3>2. /\ requests' \in Seq(FileSystemMessage) /\ Len(requests') = Len(requests) - 1
          /\ \A i \in 1 .. Len(requests) - 1 :
               requests'[i] = IF i < pos THEN requests[i] ELSE requests[i + 1]
      BY <1>1, <1>2, <2>2, <3>1, RemoveAtFields
    <3>3. ASSUME NEW i \in 1 .. Len(requests) - 1
          PROVE  i \in DOMAIN requests /\ i + 1 \in DOMAIN requests
      BY <1>2
    <3>4. DOMAIN requests' = 1 .. Len(requests) - 1
      BY <3>2
    <3>5. ASSUME NEW i \in 1 .. Len(requests) - 1 PROVE requests'[i].action = "ReadFile"
      <4>1. requests[i].action = "ReadFile" /\ requests[i + 1].action = "ReadFile"
        BY <3>3 DEF OnlyReads
      <4> QED BY <3>2, <4>1
    <3> QED BY <3>4, <3>5
  <2> QED BY <2>1, <2>2
<1> QED BY <1>1, <1>3, <1>4 DEF OnlyReads

LEMMA ServerControl ==
  ASSUME TypeOK, Control, OnlyReads, OwnRequests, ServerStep
  PROVE  Control' /\ OnlyReads'
<1> USE DEF ServerAt, Busy
<1>0. Server \notin asleep
  BY Zenon DEF ServerStep, ReadKernelEvent, EventsRead, InterruptHandler, ReadChannel, NextChannel,
         ChannelsRead, ProcessWrite, ProcessRead, ReenableInterrupts, SendResponse, WakeClient,
         RetryRequest, RetryDone, SleepUntilWakeup
<1>1. CASE ReadKernelEvent
  BY <1>0, <1>1 DEF ReadKernelEvent, retry, work, Control, OnlyReads
<1>2. CASE EventsRead
  BY <1>0, <1>2 DEF EventsRead, kernel, retry, work, Control, OnlyReads
<1>3. CASE InterruptHandler
  BY <1>0, <1>3 DEF InterruptHandler, RetryAll, kernel, loop, work, Control, OnlyReads
<1>4. ASSUME NEW c \in Clients, ReadChannel(c) PROVE Control' /\ OnlyReads'
  <2>1. Head(req[c]) \in FileSystemMessage /\ Head(req[c]).from = c /\ Head(req[c]) # None
    BY <1>4, MessageFields DEF ReadChannel, TypeOK, OwnRequests
  <2> QED BY <1>0, <1>4, <2>1 DEF ReadChannel, kernel, retry, Control, OnlyReads
<1>5. ASSUME NEW c \in Clients, NextChannel(c) PROVE Control' /\ OnlyReads'
  BY <1>0, <1>5 DEF NextChannel, kernel, retry, work, Control, OnlyReads
<1>6. CASE ChannelsRead
  BY <1>0, <1>6 DEF ChannelsRead, RetryAll, kernel, loop, work, Control, OnlyReads
<1>7. CASE ProcessWrite
  BY <1>0, <1>7 DEF ProcessWrite, kernel, loop, retry, Control, OnlyReads
<1>8. CASE ProcessRead
  BY <1>0, <1>8 DEF ProcessRead, kernel, loop, retry, Control, OnlyReads
<1>9. CASE ReenableInterrupts /\ got
  BY <1>0, <1>9 DEF ReenableInterrupts, kernel, loop, retry, work, Control, OnlyReads
<1>10. CASE ReenableInterrupts /\ ~got
  <2>1. Again /\ Server \notin asleep' /\ UNCHANGED <<keys, registered, at>> /\ pc = "enable"
    BY <1>0, <1>10 DEF ReenableInterrupts, kernel, loop
  <2>2. cur \in FileSystemMessage /\ cur.action = "ReadFile" /\ requests \in Seq(FileSystemMessage)
    BY <2>1 DEF TypeOK, Control, OnlyReads
  <2>3. CASE pos = 0
    <3>1. cur' = None /\ pc' = "channels" /\ requests' = Append(requests, cur) /\ UNCHANGED <<pos, after>>
      BY <2>1, <2>3 DEF Again
    <3>2. \A i \in DOMAIN requests' : requests'[i].action = "ReadFile"
      BY <2>2, <3>1 DEF OnlyReads
    <3>3. OnlyReads'
      BY <3>1, <3>2 DEF OnlyReads
    <3> QED BY <2>1, <2>3, <3>1, <3>3 DEF Control
  <2>4. CASE pos # 0
    <3>1. cur' = None /\ pc' = "retry" /\ pos' = pos + 1 /\ pos' # 0 /\ UNCHANGED <<requests, after>>
      BY <2>1, <2>4 DEF Again, TypeOK
    <3> QED BY <2>1, <2>4, <3>1 DEF Control, OnlyReads
  <2> QED BY <2>3, <2>4
<1>11. CASE SendResponse
  BY <1>0, <1>11, DoneControl DEF SendResponse, kernel, loop, retry, work, Control, OnlyReads
<1>12. CASE WakeClient
  BY <1>0, <1>12, DoneControl DEF WakeClient, wakeup, loop, Control
<1>13. CASE RetryRequest
  BY <1>0, <1>13, MessageFields DEF RetryRequest, kernel, loop, retry, TypeOK, Control, OnlyReads
<1>14. CASE RetryDone
  BY <1>0, <1>14 DEF RetryDone, RetryAll, kernel, loop, work, TypeOK, Control, OnlyReads
<1>15. CASE SleepUntilWakeup
  BY <1>0, <1>15 DEF SleepUntilWakeup, loop, retry, work, Control, OnlyReads
<1> HIDE DEF ServerAt, Busy
<1> QED BY <1>1, <1>2, <1>3, <1>4, <1>5, <1>6, <1>7, <1>8, <1>9, <1>10, <1>11, <1>12, <1>13,
           <1>14, <1>15 DEF ServerStep

-----------------------------------------------------------------------------
LEMMA ServerLeaves ==
  ASSUME ServerStep
  PROVE  /\ UNCHANGED <<cpc, call, orphaned, wrong>> /\ Server \notin asleep
         /\ UNCHANGED req \/ \E c \in Clients : ReadChannel(c)
  BY Zenon DEF ServerStep, ReadKernelEvent, EventsRead, InterruptHandler, ReadChannel, NextChannel,
         ChannelsRead, ProcessWrite, ProcessRead, ReenableInterrupts, SendResponse, WakeClient,
         RetryRequest, RetryDone, SleepUntilWakeup, ServerAt, client

LEMMA OwnStep == ASSUME TypeOK, OwnRequests, [Next]_vars PROVE OwnRequests'
<1>1. CASE UNCHANGED <<call, req>>
  BY <1>1 DEF OwnRequests
<1>2. CASE Receive \/ Interrupt
  BY <1>1, <1>2 DEF Receive, Interrupt, client
<1>3. ASSUME NEW c \in Clients, Start(c) PROVE OwnRequests'
  <2>1. call' = call /\ req' = [req EXCEPT ![c] = << >>]
    BY <1>3 DEF Start
  <2> QED BY <2>1 DEF OwnRequests, TypeOK
<1>4. ASSUME NEW c \in Clients, Terminate(c) PROVE OwnRequests'
  BY <1>1, <1>4 DEF Terminate
<1>5. ASSUME NEW c \in Clients, NEW a \in {"ReadFile", "WriteFile"}, Operation(c, a)
      PROVE  OwnRequests'
  <2>1. /\ req' = req
        /\ call' = [call EXCEPT ![c] = [from |-> c, action |-> a, id |-> (@.id + 1) % NumIds]]
    BY <1>5 DEF Operation
  <2> QED BY <2>1 DEF OwnRequests, TypeOK
<1>6. ASSUME NEW c \in Clients, ClientStep(c) PROVE OwnRequests'
  <2>1. CASE UNCHANGED <<call, req>>
    BY <1>1, <2>1
  <2>2. CASE SyncSendTo(c) /\ ~(UNCHANGED <<call, req>>)
    <3>1. call' = call /\ req' = [req EXCEPT ![c] = Append(@, call[c])]
      BY Zenon, <2>2 DEF SyncSendTo, TypeOK
    <3>2. \A i \in DOMAIN req'[c] : req'[c][i].from = c
      <4>1. req'[c] = Append(req[c], call[c]) /\ req[c] \in Seq(FileSystemMessage)
        BY <3>1 DEF TypeOK
      <4>2. \A i \in 1 .. Len(req[c]) + 1 : req'[c][i].from = c
        BY <4>1 DEF OwnRequests
      <4> QED BY <4>1, <4>2
    <3> QED BY <3>1, <3>2 DEF OwnRequests, TypeOK
  <2> QED BY <1>6, <2>1, <2>2 DEF ClientStep, WakeServer, SyncReceiveFrom, ClientSleep
<1>7. CASE ServerStep
  <2>1. call' = call
    BY <1>7, ServerLeaves
  <2>2. ASSUME NEW c \in Clients, ReadChannel(c) PROVE OwnRequests'
    <3>1. req' = [req EXCEPT ![c] = Tail(@)] /\ req[c] # << >>
      BY <2>2 DEF ReadChannel
    <3>2. \A i \in DOMAIN req'[c] : req'[c][i].from = c
      BY <3>1 DEF TypeOK, OwnRequests
    <3> QED BY <2>1, <3>1, <3>2 DEF OwnRequests, TypeOK
  <2> QED BY <1>1, <1>7, <2>1, <2>2, ServerLeaves
<1>8. CASE UNCHANGED vars
  BY <1>1, <1>8 DEF vars, client
<1> QED BY <1>2, <1>3, <1>4, <1>5, <1>6, <1>7, <1>8 DEF Next

(* The interrupt masks. *)
LEMMA AppendFields ==
  ASSUME NEW S, NEW s \in Seq(S), NEW e
  PROVE  /\ DOMAIN Append(s, e) = 1 .. Len(s) + 1 /\ Append(s, e)[Len(s) + 1] = e
         /\ \A i \in 1 .. Len(s) : Append(s, e)[i] = s[i]
<1>1. s \in Seq(S \cup {e}) /\ e \in S \cup {e}
  OBVIOUS
<1> QED BY <1>1

LEMMA InterruptsKept ==
  ASSUME TypeOK, Interrupts, UNCHANGED <<ier, irq, requests, pos, pc>>,
         UNCHANGED kev \/ \E e : raiseEvent(e), lost => lost'
  PROVE  Interrupts'
<1>1. \A i \in DOMAIN kev : i \in DOMAIN kev' /\ kev'[i] = kev[i]
  <2>1. kev \in Seq(Event) /\ DOMAIN kev = 1 .. Len(kev) /\ Len(kev) \in Nat
    BY DEF TypeOK
  <2>2. ASSUME NEW e, kev' = Append(kev, e)
        PROVE  \A i \in DOMAIN kev : i \in DOMAIN kev' /\ kev'[i] = kev[i]
    <3>1. /\ DOMAIN Append(kev, e) = 1 .. Len(kev) + 1
          /\ \A i \in 1 .. Len(kev) : Append(kev, e)[i] = kev[i]
      BY ZenonT(30), <2>1, AppendFields
    <3>2. \A i \in 1 .. Len(kev) : i \in 1 .. Len(kev) + 1
      BY <2>1
    <3> QED BY Zenon, <2>1, <2>2, <3>1, <3>2
  <2> QED BY <2>1, <2>2 DEF raiseEvent
<1> QED BY <1>1 DEF Interrupts

LEMMA UartInterrupts == ASSUME TypeOK, Interrupts, Receive \/ Interrupt PROVE Interrupts'
<1>1. CASE Receive
  BY <1>1, InterruptsKept DEF Receive, kernel, retry
<1>2. CASE Interrupt
  <2>1. /\ irq /\ irq' = FALSE /\ raiseEvent([type |-> "InterruptEvent"])
        /\ UNCHANGED <<ier, requests, pos, pc>>
    BY <1>2 DEF Interrupt, retry
  <2>2. ASSUME ~lost' PROVE \E i \in DOMAIN kev' : kev'[i].type = "InterruptEvent"
    <3>0. Len(kev) < MaxEvents
      <4>1. Len(kev) # MaxEvents
        BY Zenon, <2>1, <2>2 DEF raiseEvent
      <4> QED BY <4>1, DeviceServerAssumption DEF TypeOK
    <3>1. kev' = Append(kev, [type |-> "InterruptEvent"])
      BY <2>1, <3>0 DEF raiseEvent
    <3>2. kev'[Len(kev) + 1] = [type |-> "InterruptEvent"] /\ Len(kev) + 1 \in DOMAIN kev'
      BY <3>1 DEF TypeOK
    <3> QED BY <3>2
  <2> QED BY <2>1, <2>2 DEF Interrupts
<1> QED BY <1>1, <1>2

LEMMA ClientInterrupts ==
  ASSUME TypeOK, Interrupts, NEW c \in Clients, OfClient(c)
  PROVE  Interrupts'
<1>1. CASE Start(c) \/ Terminate(c)
  <2>1. /\ UNCHANGED <<ier, irq, requests, pos, pc>>
        /\ \E e : raiseEvent(e)
    BY <1>1 DEF Start, Terminate, retry, uart
  <2>2. lost => lost'
    BY Zenon, <2>1 DEF raiseEvent
  <2> QED BY <2>1, <2>2, InterruptsKept
<1>2. CASE ClientStep(c) \/ \E a \in {"ReadFile", "WriteFile"} : Operation(c, a)
  <2>1. UNCHANGED <<ier, irq, requests, pos, pc, kev, lost>>
    BY <1>2 DEF ClientStep, Operation, SyncSendTo, WakeServer, SyncReceiveFrom, ClientSleep, ClientAt,
                retry, uart
  <2> QED BY <2>1, InterruptsKept
<1> QED BY <1>1, <1>2 DEF OfClient

LEMMA ServerInterrupts ==
  ASSUME TypeOK, Control, OnlyReads, Interrupts, ServerStep
  PROVE  Interrupts'
<1>1. CASE ReadKernelEvent
  <2>1. /\ kev # << >> /\ kev' = Tail(kev) /\ pc = "events"
        /\ pc' = IF Head(kev).type = "InterruptEvent" THEN "interrupt" ELSE "events"
        /\ UNCHANGED <<lost, irq, ier, requests, pos>>
    BY <1>1 DEF ReadKernelEvent, ServerAt, retry, uart
  <2>2. ASSUME NEW i \in DOMAIN kev, kev[i].type = "InterruptEvent", pc' # "interrupt"
        PROVE  \E j \in DOMAIN kev' : kev'[j].type = "InterruptEvent"
    <3>1. i # 1 /\ i \in 1 .. Len(kev) /\ kev \in Seq(Event)
      BY <2>1, <2>2 DEF TypeOK
    <3>2. i - 1 \in DOMAIN Tail(kev) /\ Tail(kev)[i - 1] = kev[i]
      BY <3>1
    <3> QED BY <2>1, <2>2, <3>2
  <2>3. ~ier /\ requests' # << >> => pos = 1 /\ pc \in {"retry", "process", "enable"}
    BY <2>1 DEF Interrupts
  <2> QED BY <2>1, <2>2, <2>3 DEF Interrupts
<1>2. CASE EventsRead
  BY <1>2 DEF EventsRead, ServerAt, kernel, retry, uart, Interrupts
<1>3. CASE InterruptHandler
  BY <1>3 DEF InterruptHandler, RetryAll, ServerAt, kernel, Interrupts
<1>4. ASSUME NEW c \in Clients, ReadChannel(c) \/ NextChannel(c) PROVE Interrupts'
  BY <1>4 DEF ReadChannel, NextChannel, ServerAt, kernel, retry, uart, Interrupts, Control
<1>5. CASE ChannelsRead
  BY <1>5 DEF ChannelsRead, RetryAll, ServerAt, kernel, uart, Interrupts, Control
<1>6. CASE ProcessWrite
  <2>1. pos # 0 => FALSE
    BY <1>6 DEF ProcessWrite, ServerAt, Control, OnlyReads, Busy
  <2> QED BY <1>6, <2>1 DEF ProcessWrite, ServerAt, kernel, retry, uart, Interrupts
<1>7. CASE ProcessRead
  BY <1>7 DEF ProcessRead, ServerAt, kernel, retry, Interrupts
<1>8. CASE ReenableInterrupts
  <2>1. /\ ier' = TRUE /\ irq' = (IF ier THEN irq ELSE TRUE) /\ UNCHANGED <<kev, lost>>
        /\ pc = "enable"
    BY <1>8 DEF ReenableInterrupts, ServerAt, kernel
  <2> QED BY <2>1 DEF Interrupts, TypeOK
<1>9. CASE Done /\ pc \in {"send", "wake"} /\ UNCHANGED <<ier, irq, kev, lost>>
  <2>1. cur # None
    BY <1>9 DEF Control, Busy
  <2>2. ier \/ requests = << >>
    BY <1>9 DEF Interrupts
  <2>3. requests = << >> => pos = 0
    BY <2>1 DEF Control
  <2>4. ier \/ requests' = << >>
    BY <1>9, <2>1, <2>2, <2>3, DoneFields
  <2> QED BY <1>9, <2>4 DEF Interrupts
<1>10. CASE SendResponse
  BY <1>9, <1>10 DEF SendResponse, ServerAt, kernel, retry, uart, Interrupts
<1>11. CASE WakeClient
  BY <1>9, <1>11 DEF WakeClient, ServerAt, uart
<1>12. CASE RetryRequest
  BY <1>12 DEF RetryRequest, ServerAt, kernel, retry, uart, Interrupts
<1>13. CASE RetryDone
  <2>1. ier \/ requests = << >>
    BY <1>13 DEF RetryDone, ServerAt, Interrupts, TypeOK
  <2>2. UNCHANGED <<ier, irq, kev, lost, requests>> /\ pc = "retry"
    BY <1>13 DEF RetryDone, RetryAll, ServerAt, kernel, uart
  <2> QED BY <2>1, <2>2 DEF Interrupts
<1>14. CASE SleepUntilWakeup
  BY <1>14 DEF SleepUntilWakeup, ServerAt, retry, uart, Interrupts
<1> QED BY <1>1, <1>2, <1>3, <1>4, <1>5, <1>6, <1>7, <1>8, <1>10, <1>11, <1>12, <1>13, <1>14
        DEF ServerStep

-----------------------------------------------------------------------------
(* Wakeups and sleeps of the clients. *)
LEMMA ClientWakeups ==
  ASSUME TypeOK, Control, Wakeups, NEW c \in Clients,
         ClientStep(c) \/ \E a \in {"ReadFile", "WriteFile"} : Operation(c, a)
  PROVE  Wakeups'
<1>0. Server # c
  BY DeviceServerAssumption
<1>1. UNCHANGED <<pc, cur, pos, after, keys, registered, kev>> /\ c \notin asleep
  BY DEF ClientStep, Operation, SyncSendTo, WakeServer, SyncReceiveFrom, ClientSleep, ClientAt,
         loop, retry, work
<1>2. ASSUME NEW a \in {"ReadFile", "WriteFile"}, Operation(c, a) PROVE Wakeups'
  <2>1. /\ cpc[c] = "idle" /\ cpc' = [cpc EXCEPT ![c] = "send"]
        /\ UNCHANGED <<asleep, wakeups, req, rsp>>
    BY <1>2 DEF Operation, ClientAt
  <2> QED BY <1>1, <2>1 DEF Wakeups, LastLook, TypeOK
<1>3. CASE SyncSendTo(c)
  <2>1. /\ cpc[c] = "send" /\ cpc' = [cpc EXCEPT ![c] = IF Len(req[c]) = Capacity THEN "full" ELSE "wake"]
        /\ req' = [req EXCEPT ![c] = IF Len(req[c]) = Capacity THEN @ ELSE Append(@, call[c])]
        /\ UNCHANGED <<asleep, wakeups, rsp>>
    BY <1>3 DEF SyncSendTo, ClientAt
  <2>2. CASE Len(req[c]) = Capacity
    <3>1. req[c] # << >>
      BY <2>2, DeviceServerAssumption DEF TypeOK
    <3> QED BY <1>1, <2>1, <2>2, <3>1 DEF Wakeups, LastLook, TypeOK
  <2>3. CASE Len(req[c]) # Capacity
    BY <1>1, <2>1, <2>3 DEF Wakeups, LastLook, TypeOK
  <2> QED BY <2>2, <2>3
<1>4. CASE WakeServer(c)
  <2>1. /\ Server \in wakeups' /\ Server \notin asleep' /\ asleep' = asleep \ {Server}
        /\ wakeups' = wakeups \cup {Server}
        /\ cpc' = [cpc EXCEPT ![c] = IF cpc[c] = "wake" THEN "receive" ELSE "send"]
        /\ UNCHANGED <<req, rsp>>
    BY <1>4 DEF WakeServer, ClientAt, wakeup
  <2> QED BY <1>0, <1>1, <2>1 DEF Wakeups, LastLook, TypeOK
<1>5. CASE SyncReceiveFrom(c)
  <2>1. /\ cpc[c] = "receive" /\ cpc' = [cpc EXCEPT ![c] = IF rsp[c] = << >> THEN "sleep" ELSE "idle"]
        /\ rsp' = [rsp EXCEPT ![c] = IF @ = << >> THEN @ ELSE Tail(@)]
        /\ UNCHANGED <<asleep, wakeups, req>>
    BY <1>5 DEF SyncReceiveFrom, ClientAt
  <2> QED BY <1>1, <2>1 DEF Wakeups, LastLook, TypeOK
<1>6. CASE ClientSleep(c)
  <2>1. /\ cpc[c] = "sleep" /\ cpc' = [cpc EXCEPT ![c] = "receive"]
        /\ wakeups' = wakeups \ {c} /\ asleep' = (IF c \in wakeups THEN asleep ELSE asleep \cup {c})
        /\ UNCHANGED <<req, rsp>>
    BY <1>6 DEF ClientSleep, ClientAt, sleep
  <2> QED BY <1>0, <1>1, <2>1 DEF Wakeups, LastLook, TypeOK
<1> QED BY <1>2, <1>3, <1>4, <1>5, <1>6 DEF ClientStep

(* An event always comes with a wakeup of the server. *)
LEMMA EventWakeups ==
  ASSUME TypeOK, Control, Wakeups,
         Receive \/ Interrupt \/ \E c \in Clients : Start(c) \/ Terminate(c)
  PROVE  Wakeups'
<1>1. CASE Receive
  BY <1>1 DEF Receive, kernel, loop, retry, work, client, Wakeups, LastLook
<1>2. CASE Interrupt
  BY <1>2 DEF Interrupt, wakeup, loop, retry, work, client, Wakeups, LastLook
<1>3. ASSUME NEW c \in Clients, Start(c) PROVE Wakeups'
  <2>1. /\ cpc[c] = "dead" /\ cpc' = [cpc EXCEPT ![c] = "idle"] /\ rsp' = [rsp EXCEPT ![c] = << >>]
        /\ wakeups' = wakeups \cup {Server} /\ asleep' = asleep \ {Server}
        /\ UNCHANGED <<pc, cur>>
    BY <1>3 DEF Start, wakeup, work
  <2> QED BY <2>1, DeviceServerAssumption DEF Wakeups, TypeOK
<1>4. ASSUME NEW c \in Clients, Terminate(c) PROVE Wakeups'
  <2>1. /\ cpc' = [cpc EXCEPT ![c] = "dead"]
        /\ wakeups' = (wakeups \ {c}) \cup {Server} /\ asleep' = asleep \ {c, Server}
        /\ UNCHANGED <<pc, cur, rsp>>
    BY <1>4 DEF Terminate, work
  <2> QED BY <2>1, DeviceServerAssumption DEF Wakeups, TypeOK
<1> QED BY <1>1, <1>2, <1>3, <1>4

LEMMA ServerWakeups ==
  ASSUME TypeOK, Control, Wakeups, ServerStep
  PROVE  Wakeups'
<1>0. Server \notin asleep /\ Server \notin Clients /\ UNCHANGED cpc
  BY ServerLeaves, DeviceServerAssumption
<1> USE DEF ServerAt, Busy
<1>1. CASE ReadKernelEvent
  <2>1. UNCHANGED <<asleep, wakeups, pos, after, rsp>> /\ pc = "events" /\ pc' \in {"events", "interrupt"}
    BY <1>1 DEF ReadKernelEvent, retry
  <2> QED BY <1>0, <2>1 DEF Wakeups, LastLook, Control
<1>2. CASE EventsRead
  BY <1>0, <1>2 DEF EventsRead, kernel, retry, work, Wakeups, LastLook, Control
<1>3. CASE InterruptHandler
  BY <1>0, <1>3 DEF InterruptHandler, RetryAll, kernel, loop, work, Wakeups, LastLook, Control
<1>4. ASSUME NEW c \in Clients, ReadChannel(c) PROVE Wakeups'
  <2>1. /\ UNCHANGED <<kernel, registered, keys, rsp, pos, after>> /\ pc = "channels" /\ pc' = "process"
        /\ c \in keys /\ req' = [req EXCEPT ![c] = Tail(@)]
    BY <1>4 DEF ReadChannel, retry
  <2> QED BY <1>0, <2>1 DEF kernel, Wakeups, LastLook, Control, TypeOK
<1>5. ASSUME NEW c \in Clients, NextChannel(c) PROVE Wakeups'
  <2>1. /\ UNCHANGED <<kernel, registered, req, rsp, pos, after, pc>> /\ pc = "channels"
        /\ keys' = keys \ {c} /\ req[c] = << >>
    BY <1>5 DEF NextChannel, retry
  <2> QED BY <1>0, <2>1 DEF kernel, Wakeups, LastLook
<1>6. CASE ChannelsRead
  BY <1>0, <1>6 DEF ChannelsRead, RetryAll, kernel, loop, work, Wakeups, LastLook
<1>7. CASE ProcessWrite \/ ProcessRead
  BY <1>0, <1>7 DEF ProcessWrite, ProcessRead, kernel, loop, retry, Wakeups, LastLook
<1>8. CASE UNCHANGED <<asleep, wakeups, kev, loop, req, rsp, after>> /\ pc \in {"enable", "send"}
             /\ IF pos = 0 THEN pos' = 0 /\ pc' = "channels" ELSE pos' # 0 /\ pc' = "retry"
  BY <1>0, <1>8 DEF loop, Wakeups, LastLook
<1>9. CASE ReenableInterrupts
  <2>1. CASE got
    BY <1>0, <1>9, <2>1 DEF ReenableInterrupts, kernel, loop, retry, work, Wakeups, LastLook
  <2>2. CASE ~got
    <3>1. Again /\ UNCHANGED <<kernel, loop, req, rsp>> /\ pc = "enable"
      BY <1>9, <2>2 DEF ReenableInterrupts
    <3>2. after' = after /\ IF pos = 0 THEN pos' = 0 /\ pc' = "channels" ELSE pos' # 0 /\ pc' = "retry"
      BY <3>1 DEF Again, TypeOK
    <3> QED BY <1>8, <3>1, <3>2 DEF kernel
  <2> QED BY <2>1, <2>2
<1>10. ASSUME Done, cur # None
       PROVE  after' = after /\ IF pos = 0 THEN pos' = 0 /\ pc' = "channels" ELSE pos' # 0 /\ pc' = "retry"
  <2>1. pos \in Nat
    BY DEF TypeOK
  <2> QED BY <1>10, <2>1, DoneFields
<1>11. CASE SendResponse
  <2>0. cur # None /\ pc = "send" /\ UNCHANGED <<kernel, loop, uart, req>>
    BY <1>11 DEF SendResponse, Control
  <2>1. CASE cur.from \in registered /\ Len(rsp[cur.from]) < Capacity
    <3>1. rsp' = [rsp EXCEPT ![cur.from] = Append(@, cur)] /\ pc' = "wake" /\ UNCHANGED <<work, retry>>
      BY <1>11, <2>1 DEF SendResponse
    <3> QED BY <1>0, <2>0, <3>1 DEF kernel, loop, work, retry, Wakeups, LastLook, TypeOK
  <2>2. CASE ~(cur.from \in registered /\ Len(rsp[cur.from]) < Capacity)
    BY <1>8, <1>10, <1>11, <2>0, <2>2 DEF SendResponse, kernel
  <2> QED BY <2>1, <2>2
<1>12. CASE WakeClient
  <2>1. cur # None /\ cur.from \in Clients /\ pc = "wake" /\ UNCHANGED <<kev, lost, loop, uart, req, rsp>>
    BY <1>12, MessageFields DEF WakeClient, Control, TypeOK
  <2>2. after' = after /\ IF pos = 0 THEN pos' = 0 /\ pc' = "channels" ELSE pos' # 0 /\ pc' = "retry"
    BY <1>10, <1>12, <2>1 DEF WakeClient
  <2>3. CASE cpc[cur.from] = "dead"
    <3>1. UNCHANGED <<asleep, wakeups>>
      BY <1>12, <2>3 DEF WakeClient
    <3> QED BY <1>0, <2>1, <2>2, <2>3, <3>1 DEF loop, Wakeups, LastLook
  <2>4. CASE cpc[cur.from] # "dead"
    <3>1. wakeups' = wakeups \cup {cur.from} /\ asleep' = asleep \ {cur.from}
      BY <1>12, <2>4 DEF WakeClient, wakeup
    <3> QED BY <1>0, <2>1, <2>2, <3>1 DEF loop, Wakeups, LastLook
  <2> QED BY <2>3, <2>4
<1>13. CASE RetryRequest
  BY <1>0, <1>13 DEF RetryRequest, kernel, loop, retry, Wakeups, LastLook, Control
<1>14. CASE RetryDone
  BY <1>0, <1>14 DEF RetryDone, RetryAll, kernel, loop, work, Wakeups, LastLook, Control, TypeOK
<1>15. CASE SleepUntilWakeup
  <2>1. /\ UNCHANGED <<kev, registered, keys, req, rsp>> /\ pc = "sleep" /\ pc' = "events" /\ pos' = 0
        /\ wakeups' = wakeups \ {Server}
        /\ asleep' = IF Server \in wakeups THEN asleep ELSE asleep \cup {Server}
    BY <1>15 DEF SleepUntilWakeup, sleep, loop, retry, Control
  <2> QED BY <1>0, <2>1 DEF Wakeups, LastLook, Control
<1> HIDE DEF ServerAt, Busy
<1> QED BY <1>1, <1>2, <1>3, <1>4, <1>5, <1>6, <1>7, <1>9, <1>11, <1>12, <1>13, <1>14, <1>15
        DEF ServerStep
=============================================================================
