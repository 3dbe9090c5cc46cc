------------------------------- MODULE Requests -------------------------------
(***************************************************************************)
(* The outgoing requests of a process (lib/libipc): ChannelClient keeps    *)
(* them in an Index and matches a response by process and identifier.  The *)
(* process may also receive from any channel or send and receive           *)
(* synchronously.  Servers answer in any order; they may end, which the    *)
(* process learns from a kernel event, and a new one may get the same PID. *)
(* The n-th request is told apart by its number n, which the response      *)
(* carries back; a channel is a queue, as the module MemoryChannel checks. *)
(***************************************************************************)
EXTENDS Integers, Sequences, FiniteSets, SequencesExt
CONSTANTS Servers,          \* PIDs of servers
          MaximumRequests,  \* entries of the Index
          Capacity,         \* messages a channel holds
          MaxCalls,         \* requests made in a behaviour
          MaxDeaths         \* servers that end in a behaviour
VARIABLE rq

NoChannel == [open |-> FALSE, out |-> <<>>, in |-> <<>>]
Message(type, identifier, call) == [type |-> type, identifier |-> identifier, call |-> call]
(* A server holds the requests it has read (taken) and the channel of this  *)
(* process it serves, which is gone when it was not the one connected to.   *)
Fresh == [alive |-> TRUE, linked |-> FALSE, taken |-> {}]

(* mixed: does the process also receive in other ways than readChannels?   *)
Init ==
  \E mixed \in BOOLEAN :
  rq = [mixed |-> mixed, requests |-> <<>>, channels |-> [s \in Servers |-> NoChannel], servers |-> [s \in Servers |-> Fresh],
        events |-> <<>>, calls |-> 0, deaths |-> 0, at |-> "run", sync |-> <<>>, nested |-> 0, ran |-> <<>>, unknown |-> 0,
        other |-> <<>>, lost |-> 0]

(* ChannelRegistry: the two channels of a process come and go together.     *)
Registered(pid) == rq.channels[pid].open
register(r, pid) == [r EXCEPT !.channels[pid] = [NoChannel EXCEPT !.open = TRUE], !.servers[pid].linked = TRUE]
unregister(r, pid) == [r EXCEPT !.channels[pid] = NoChannel]

(* ChannelClient::findProducer connects to a process not connected to yet.  *)
Reachable(pid) == Registered(pid) \/ rq.servers[pid].alive
findProducer(pid) == IF Registered(pid) THEN rq ELSE register(rq, pid)

(* The first entry that is not active, else a new one at the end. *)
Free == {i \in DOMAIN rq.requests : ~ rq.requests[i].active}
Slot == IF Free = {} THEN Len(rq.requests) + 1 ELSE CHOOSE i \in Free : \A j \in Free : i <= j
Filled(r, slot, request) ==
  [r EXCEPT !.requests = IF slot \in DOMAIN @ THEN [@ EXCEPT ![slot] = request] ELSE Append(@, request)]
(* ChannelClient::sendRequest; identifiers count from zero.                 *)
Sent(pid) ==
  LET call == rq.calls + 1
      r == [findProducer(pid) EXCEPT !.calls = call]
      slot == Slot
      room == Len(r.channels[pid].out) < Capacity
      request == [active |-> room, pid |-> pid, identifier |-> slot - 1, call |-> call] IN
    IF slot > MaximumRequests THEN [r EXCEPT !.lost = @ + 1]
    ELSE LET f == Filled(r, slot, request) IN
      IF room THEN [f EXCEPT !.channels[pid].out = Append(@, Message("Request", slot - 1, call))] ELSE f
sendRequest(pid) ==
  /\ rq.at = "run" /\ rq.calls < MaxCalls
  /\ rq' = IF Reachable(pid) THEN Sent(pid) ELSE [rq EXCEPT !.calls = @ + 1]

(* The server reads a request, and answers those it holds in any order; an  *)
(* answer that does not fit is lost (external).                             *)
Take(s) ==
  LET out == rq.channels[s].out IN
    /\ rq.servers[s].alive /\ rq.servers[s].linked /\ out # <<>>
    /\ rq' = [rq EXCEPT !.channels[s].out = Tail(@), !.servers[s].taken = @ \cup {Head(out)}]
Answer(s) ==
  /\ rq.servers[s].alive
  /\ \E m \in rq.servers[s].taken :
       rq' = [rq EXCEPT !.servers[s].taken = @ \ {m},
                        !.channels[s].in = IF Len(@) < Capacity THEN Append(@, Message("Response", m.identifier, m.call)) ELSE @]
(* The server ends; the kernel tells a process that shares memory with it.  *)
End(s) ==
  /\ rq.servers[s].alive /\ rq.deaths < MaxDeaths
  /\ rq' = [rq EXCEPT !.servers[s] = [Fresh EXCEPT !.alive = FALSE], !.deaths = @ + 1,
                      !.events = IF rq.servers[s].linked THEN Append(@, s) ELSE @]
Reused(s) == ~ rq.servers[s].alive /\ rq' = [rq EXCEPT !.servers[s] = Fresh]

(* ChannelClient::processResponse: the callback of the first active request *)
(* of that process with that identifier, which is active until it returns.  *)
Answers_any_request(req, pid, m) == req.active /\ req.pid = pid
Answers(req, pid, m) == req.active /\ req.pid = pid /\ req.identifier = m.identifier
processResponse(pid, m) ==
  LET match == {i \in DOMAIN rq.requests : Answers(rq.requests[i], pid, m)}
      i == CHOOSE j \in match : \A k \in match : j <= k
      r == [rq EXCEPT !.channels[pid].in = Tail(@)] IN
    rq' = IF match = {} THEN [r EXCEPT !.unknown = @ + 1]
          ELSE [r EXCEPT !.ran = Append(@, <<rq.requests[i].call, m.call>>), !.at = "callback", !.nested = i]
(* ChannelServer::readChannels *)
readChannels ==
  /\ rq.at = "run"
  /\ \E pid \in Servers : Registered(pid) /\ rq.channels[pid].in # <<>> /\ processResponse(pid, Head(rq.channels[pid].in))
(* The callback may itself send a request, before its own entry is free.    *)
Callback(pid) ==
  /\ rq.at = "callback" /\ rq.calls < MaxCalls
  /\ rq' = IF Reachable(pid) THEN Sent(pid) ELSE [rq EXCEPT !.calls = @ + 1]
Returned == rq.at = "callback" /\ rq' = [rq EXCEPT !.requests[rq.nested].active = FALSE, !.at = "run", !.nested = 0]
(* ChannelServer::readKernelEvents, case ProcessTerminated. *)
ProcessTerminated ==
  /\ rq.at = "run" /\ rq.events # <<>>
  /\ rq' = [unregister(rq, Head(rq.events)) EXCEPT !.events = Tail(@)]

(* ChannelClient::receiveAny takes a message of any channel.                *)
receiveAny ==
  /\ rq.mixed /\ rq.at = "run"
  /\ \E pid \in Servers :
       /\ Registered(pid) /\ rq.channels[pid].in # <<>>
       /\ rq' = [rq EXCEPT !.channels[pid].in = Tail(@), !.other = Append(@, <<0, Head(rq.channels[pid].in).call>>)]
(* ChannelClient::syncSendReceive sends and then waits for a message of     *)
(* that process, with nothing else done meanwhile.                          *)
syncSendReceive(pid) ==
  /\ rq.mixed /\ rq.at = "run" /\ rq.calls < MaxCalls /\ Reachable(pid)
  /\ rq' = [findProducer(pid) EXCEPT !.calls = @ + 1, !.at = "send", !.sync = <<pid, rq.calls + 1>>]
syncSendTo ==
  LET pid == rq.sync[1] IN
    /\ rq.at = "send" /\ Len(rq.channels[pid].out) < Capacity
    /\ rq' = [rq EXCEPT !.channels[pid].out = Append(@, Message("Request", 0, rq.sync[2])), !.at = "receive"]
syncReceiveFrom ==
  LET pid == rq.sync[1] IN
    /\ rq.at = "receive" /\ rq.channels[pid].in # <<>>
    /\ rq' = [rq EXCEPT !.other = Append(@, <<rq.sync[2], Head(rq.channels[pid].in).call>>),
                        !.channels[pid].in = Tail(@), !.at = "run", !.sync = <<>>]

Next ==
  \/ \E s \in Servers : sendRequest(s) \/ Take(s) \/ Answer(s) \/ End(s) \/ Reused(s) \/ Callback(s) \/ syncSendReceive(s)
  \/ readChannels \/ Returned \/ ProcessTerminated \/ receiveAny \/ syncSendTo \/ syncReceiveFrom

InFlight(s) == Range(rq.channels[s].out) \cup rq.servers[s].taken \cup Range(rq.channels[s].in)
(* In a process that receives by readChannels only, a callback gets the     *)
(* response to its own request, and is called at most once                  *)
(* (processResponse), though servers answer out of order, callbacks send    *)
(* requests, and PIDs and entries of the Index are used again.              *)
OwnCallback ==
  ~ rq.mixed =>
  /\ \A i \in DOMAIN rq.ran : rq.ran[i][1] = rq.ran[i][2]
  /\ \A i, j \in DOMAIN rq.ran : i # j => rq.ran[i] # rq.ran[j]
(* Then a message on its way to or from a connected process belongs to an   *)
(* active request of that process (sendRequest, processResponse), so        *)
(* readChannels never meets a response that nobody waits for.               *)
InFlightActive ==
  ~ rq.mixed =>
  /\ rq.unknown = 0
  /\ \A s \in Servers : \A m \in InFlight(s) :
       \E i \in DOMAIN rq.requests :
         Answers(rq.requests[i], s, m) /\ rq.requests[i].call = m.call
(* ChannelClient.h says the client "ensures that the callback will be       *)
(* called when a response messages is received": a response received in     *)
(* another way is not a request's.                                          *)
CallbackEnsured == \A i \in DOMAIN rq.other : rq.other[i][2] \notin {rq.requests[j].call : j \in DOMAIN rq.requests}
(* A request is refused only while as many requests as the client holds     *)
(* ("Maximum number of concurrent outgoing requests") can still be answered.*)
RefusedWhenFull ==
  rq.lost > 0 => Cardinality(UNION {InFlight(s) : s \in Servers}) + Len(rq.ran) >= MaximumRequests
=============================================================================
