-------------------------- MODULE MCProcessManager --------------------------
(* Instances of ProcessManager for TLC. *)
EXTENDS ProcessManager, TLC, SequencesExt

(* Filters agrees with the library's definition of a filtered sequence. *)
ASSUME FiltersAreSelectSeq ==
  \A s \in BoundedSeq(PIDS, 3), S \in SUBSET PIDS :
    Filters(s, S) = {SelectSeq(s, LAMBDA x : x \in S)}

VARIABLE programs  \* "timers" or "interrupts": what the programs of a behaviour use
mvars == <<vars, programs>>

-----------------------------------------------------------------------------
(* What every program does. *)
Common ==
  \/ Spawn
  \/ \E p \in PIDS, self \in BOOLEAN : KillPID(p, self)
  \/ \E p \in PIDS : WaitPID(p)
  \/ EnterSleep
  \/ IdleMain
  \/ Clocktick

(* Programs that sleep on timers, stop and wake each other, and yield. *)
TimerNext ==
  \/ Schedule
  \/ \E p \in PIDS, self \in BOOLEAN : Stop(p, self)
  \/ \E p \in PIDS : Resume(p) \/ Wakeup(p)
  \/ \E t \in 0 .. Never : WaitTimer(t) \/ EnterSleepTimer(t)

(* Programs that wait for device interrupts. *)
IrqNext ==
  \/ \E p \in PIDS, v \in Vectors : WatchIRQ(p, v)
  \/ \E v \in Vectors, on \in BOOLEAN : EnableIRQ(v, on)
  \/ \E v \in Vectors : Interrupt(v)

MCInit == Init /\ programs \in {"timers", "interrupts"}
MCNext ==
  /\ UNCHANGED programs
  /\ \/ Common
     \/ programs = "timers" /\ TimerNext
     \/ programs = "interrupts" /\ IrqNext
MCSpec == MCInit /\ [][MCNext]_mvars /\ WF_vars(Clocktick)
=============================================================================
