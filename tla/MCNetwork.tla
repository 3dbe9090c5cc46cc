------------------------------ MODULE MCNetwork -----------------------------
(* Instances of Network for TLC. *)
EXTENDS Network

VARIABLE traffic  \* "requests" or "datagrams": what the other hosts send
mvars == <<vars, traffic>>

(* Hosts that answer and ask for addresses, and clients that write or wait  *)
(* with a timeout; or hosts that send datagrams and echo requests, and      *)
(* clients that read, or wait without a timeout or with one that is over.   *)
Timed(m) == m.op = "write" \/ (m.op = "wait" /\ m.deadline = MaxWait)
Calls == {m \in Call \ {Idle} : (traffic = "requests") = Timed(m)}
Frames == {f \in Incoming : f.kind \in IF traffic = "requests" THEN {"Request", "Reply"} ELSE {"Data", "Echo"}}

MCInit == Init /\ traffic \in {"requests", "datagrams"}
MCNext ==
  /\ UNCHANGED traffic
  /\ \/ \E c \in Clients, m \in Calls : Send(c, m)
     \/ \E c \in Clients : Receive(c) \/ Handle(c)
     \/ Serve
     \/ Sleep
     \/ Wakeup
     \/ Tick
     \/ Transmit
     \/ \E f \in Frames : Arrive(f)
     \/ Interrupt
MCSpec == MCInit /\ [][MCNext]_mvars /\ Fairness
=============================================================================
