--------------------------- MODULE MCDeviceServer ---------------------------
(* Instances of DeviceServer for TLC. *)
EXTENDS DeviceServer, TLC

CONSTANTS
  MaxOrphans, \* bound: requests in m_requests when a client terminates
  Readers     \* of the live instance: the clients that read, the others write

Operations(c) == Operation(c, "ReadFile") \/ Operation(c, "WriteFile")

-----------------------------------------------------------------------------
(* Clients that start and go on calling. *)
CallNext ==
  \/ Receive \/ Interrupt \/ ServerStep
  \/ \E c \in Clients : Start(c) \/ Operations(c) \/ ClientStep(c)

-----------------------------------------------------------------------------
(* Clients that also terminate; a terminated client leaves its request      *)
(* behind, so that their number is bounded.                                 *)
RestartNext ==
  \/ CallNext
  \/ \E c \in Clients : Len(requests) < MaxOrphans /\ Terminate(c)

RestartSpec == Init /\ [][RestartNext]_vars

-----------------------------------------------------------------------------
(* The server has accepted all clients, and nothing has happened since. *)
Connected ==
  /\ asleep = {} /\ wakeups = {} /\ kev = << >> /\ lost = FALSE
  /\ req = [c \in Clients |-> << >>] /\ rsp = req
  /\ cpc = [c \in Clients |-> "idle"]
  /\ call = [c \in Clients |-> [from |-> c, action |-> "ReadFile", id |-> 0]]
  /\ orphaned = {} /\ wrong = {}
  /\ registered = Clients /\ keys = {} /\ at = {} /\ pc = "events" /\ cur = None /\ got = FALSE
  /\ requests = << >> /\ pos = 0 /\ restart = FALSE /\ after = "events"
  /\ irq = TRUE /\ ier = TRUE /\ fifo = 0

(* Every process gets its turn, and an interrupt that is not masked is      *)
(* taken.  A client takes longer from one call to the next than the server  *)
(* takes to look at its channel again: readChannels() reads a channel until *)
(* it is empty, and a client that is always faster would keep it there.     *)
LiveNext ==
  \/ Receive \/ Interrupt \/ ServerStep
  \/ \E c \in Clients :
       \/ ClientStep(c)
       \/ c \notin at /\ Operation(c, IF c \in Readers THEN "ReadFile" ELSE "WriteFile")

LiveSpec ==
  /\ Connected /\ [][LiveNext]_vars
  /\ WF_vars(ServerStep) /\ WF_vars(Interrupt)
  /\ \A c \in Clients : WF_vars(ClientStep(c))
=============================================================================
