-------------------------------- MODULE Traps --------------------------------
(***************************************************************************)
(* The registers of processes across kernel calls and interrupts: the      *)
(* exception entries of ARM, ARM64 and Intel, the trap handlers of the     *)
(* kernels, and the processor state that the process classes keep.         *)
(*                                                                         *)
(* ARM and ARM64 have one kernel stack: a handler runs to its end, also    *)
(* when it has changed the current process, and then exchanges the         *)
(* registers saved on the stack.  On Intel every process has a kernel      *)
(* stack, and a call ends when its process runs again.  The kernel is not  *)
(* interrupted, so a call or an interrupt is one step.                     *)
(***************************************************************************)
EXTENDS Naturals

CONSTANTS Processes, \* 0 is the idle process
          Entries,   \* entry points of programs, the first of them is 1
          MaxSpawns  \* bound: processes created
VARIABLE cpu

(* The registers by their role: "result" holds the number and the result of  *)
(* a call, "callee" stands for x19 .. x28 on ARM64.  A value is a pair.      *)
Registers == {"result", "caller", "callee", "pc"}
Own(p) == <<"own", p>>
Success == <<"Success", 0>>

(* CPUState: ARM64 leaves out x19 .. x28.                                    *)
CPUState(plat) == IF plat = "arm64" THEN Registers \ {"callee"} ELSE Registers
Fresh(plat, p, entry) ==
  [g \in CPUState(plat) |-> IF g = "pc" THEN <<"entry", entry>> ELSE Own(p)]

(* saved is m_cpuState on ARM, and on Intel what is at the base of the       *)
(* kernel stack; pending is the call that continues when the process runs    *)
(* again ("start" for loadCoreState).  want and at are history: what the     *)
(* program expects in the result register, and where it was last started.    *)
Init ==
  \E plat \in {"arm", "arm64", "intel"} :
    cpu = [plat |-> plat, mode |-> "user", current |-> 0,
           state |-> [p \in Processes |-> IF p = 0 THEN "Ready" ELSE "none"],
           wait |-> [p \in Processes |-> 0], waitResult |-> [p \in Processes |-> 0],
           entry |-> [p \in Processes |-> 1],
           saved |-> [p \in Processes |-> Fresh(plat, p, 1)], pending |-> [p \in Processes |-> "start"],
           regs |-> [g \in Registers |-> IF g = "pc" THEN <<"entry", 1>> ELSE Own(0)],
           want |-> [p \in Processes |-> Own(p)], at |-> [p \in Processes |-> 1], spawns |-> 0]

-----------------------------------------------------------------------------
(* Process::join and what ARMProcess and ARM64Process add: the exit status   *)
(* goes into the saved result register.                                      *)
(* A form without the addition.                                              *)
join_generic(c, p, status) == [c EXCEPT !.state[p] = "Ready", !.waitResult[p] = status, !.want[p] = <<"wait", status>>]

join(c, p, status) ==
  [c EXCEPT !.state[p] = "Ready", !.waitResult[p] = status, !.want[p] = <<"wait", status>>,
            !.saved[p].result = IF c.plat = "intel" THEN @ ELSE <<"wait", status>>]

(* ProcessManager::remove *)
Waiters(c, p) == {q \in Processes : c.state[q] = "Waiting" /\ c.wait[q] = p}
RECURSIVE joinAll(_, _, _)
joinAll(c, S, status) ==
  IF S = {} THEN c ELSE LET q == CHOOSE q \in S : TRUE IN joinAll(join(c, q, status), S \ {q}, status)
remove(c, p) ==
  [joinAll(c, Waiters(c, p), p) EXCEPT !.state[p] = "none", !.saved[p] = Fresh(c.plat, p, 1), !.pending[p] = "start",
     !.wait[p] = 0, !.waitResult[p] = 0, !.entry[p] = 1, !.want[p] = Own(p), !.at[p] = 1]

(* ARMProcess::reset, ARM64Process::reset *)
reset(c, p, entry) == [c EXCEPT !.saved[p] = Fresh(c.plat, p, entry)]
(* IntelProcess::reset starts at the entry point of the constructor.         *)
IntelReset(c, p, entry) == [c EXCEPT !.saved[p] = Fresh(c.plat, p, c.entry[p]), !.pending[p] = "start"]

Reset(c, p, entry) ==
  [(IF c.plat = "intel" THEN IntelReset(c, p, entry) ELSE reset(c, p, entry))
     EXCEPT !.want[p] = Own(p), !.at[p] = entry]

(* ProcessCtlHandler for the current process: the new state, whether it      *)
(* calls schedule(), and its result ("wait" for the status of a process).    *)
Done(c) == [c |-> c, schedule |-> FALSE, result |-> "Success"]
Yield(c) == [c |-> c, schedule |-> TRUE, result |-> "Success"]
Fail(c) == [c |-> c, schedule |-> FALSE, result |-> "Error"]

ProcessCtl(c, call, q, entry) ==
  LET p == c.current
      target == IF q = 0 THEN p ELSE q
  IN CASE call = "Schedule" -> Yield(c)
       [] call = "Spawn" ->
            Done([Reset([c EXCEPT !.entry[q] = entry], q, entry) EXCEPT !.state[q] = "Stopped", !.spawns = @ + 1])
       [] call \notin {"Schedule", "Spawn"} /\ c.state[target] = "none" -> Fail(c)
       [] call = "KillPID" /\ c.state[target] # "none" -> [Yield(remove(c, target)) EXCEPT !.schedule = (q = 0)]
       [] call = "Stop" /\ c.state[target] \in {"Ready", "Sleeping", "Stopped"} ->
            [Yield([c EXCEPT !.state[target] = "Stopped"]) EXCEPT !.schedule = (q = 0)]
       [] call = "Resume" /\ c.state[target] = "Stopped" -> Done([c EXCEPT !.state[target] = "Ready"])
       [] call = "Reset" /\ target # p /\ c.state[target] = "Stopped" -> Done(Reset(c, target, entry))
       [] call = "Wakeup" /\ c.state[target] # "none" ->
            Done([c EXCEPT !.state[target] = IF @ = "Sleeping" THEN "Ready" ELSE @])
       [] call = "EnterSleep" /\ c.state[target] # "none" -> Yield([c EXCEPT !.state[p] = "Sleeping"])
       [] call = "WaitPID" /\ target # p /\ c.state[target] # "none" ->
            [c |-> [c EXCEPT !.state[p] = "Waiting", !.wait[p] = target], schedule |-> TRUE, result |-> "wait"]
       [] OTHER -> Fail(c)

(* API::invoke: a number without a handler is refused.                       *)
invoke(c, call, q, entry) == IF call = "Number" THEN Fail(c) ELSE ProcessCtl(c, call, q, entry)

(* The result is computed when the handler ends: on ARM by then another      *)
(* process may be the current one.                                           *)
ResultOf(c, result) == IF result = "wait" THEN <<"wait", c.waitResult[c.current]>> ELSE <<result, 0>>

(* Scheduler::select, or the idle process.                                   *)
select(c) == LET ready == {p \in Processes \ {0} : c.state[p] = "Ready"} IN IF ready = {} THEN {0} ELSE ready

-----------------------------------------------------------------------------
(* The exception entries save the registers in a CPUState on the stack, and  *)
(* load it when the handler returns; the handler itself keeps the callee's   *)
(* registers.                                                                *)
callHandler(c) == [g \in CPUState(c.plat) |-> c.regs[g]]
loadCoreState(c, frame) == [c EXCEPT !.regs = [g \in Registers |-> IF g \in CPUState(c.plat) THEN frame[g] ELSE @[g]]]

setCpuState(c, p, frame) == [c EXCEPT !.saved[p] = frame]

(* ARMKernel::trap: frame is the state on the stack, p the process that      *)
(* called, the current process of c is the next one.                         *)
ARMTrap(c, p, frame, r) ==
  IF c.current = p THEN loadCoreState(c, [frame EXCEPT !.result = r])
  ELSE loadCoreState(IF c.state[p] = "none" THEN c ELSE setCpuState(c, p, [frame EXCEPT !.result = r]),
                     c.saved[c.current])

(* ARM64Kernel::trap does the same; SyncExceptionEL0 calls it for the        *)
(* supervisor call, and returns from a data abort (code 0x25).               *)
ARM64Trap(c, p, frame, r) == ARMTrap(c, p, frame, r)
SyncExceptionEL0(c, p, code, frame, r) ==
  IF code = "SVC" THEN ARM64Trap(c, p, frame, r) ELSE loadCoreState(c, frame)

(* SunxiKernel::interrupt, RaspberryKernel::interrupt: a tick of the timer.  *)
ARMInterrupt(c, p, frame) ==
  IF c.current = p THEN loadCoreState(c, frame)
  ELSE loadCoreState(setCpuState(c, p, frame), c.saved[c.current])

(* switchCoreState: the process that runs next continues its own call, and   *)
(* loads the registers it had saved.                                         *)
switchCoreState(c) ==
  LET p == c.current
      frame == IF c.pending[p] \in {"start", "interrupt"} THEN c.saved[p]
               ELSE [c.saved[p] EXCEPT !.result = ResultOf(c, c.pending[p])]
  IN loadCoreState(c, frame)

(* IntelProcess::execute: the kernel stack of the previous process, if it    *)
(* still exists, keeps its registers and its call.                           *)
execute(c, p, frame, pending) ==
  switchCoreState(IF c.state[p] = "none" THEN c ELSE [c EXCEPT !.saved[p] = frame, !.pending[p] = pending])

-----------------------------------------------------------------------------
Calls == {"Number", "Schedule", "Spawn", "KillPID", "Stop", "Resume", "Reset", "Wakeup", "EnterSleep", "WaitPID"}

(* The program expects the result of its call; WaitPID has one only once the *)
(* other process has ended.                                                  *)
Expect(c, p, result) ==
  IF c.state[p] = "none" \/ result = "wait" THEN c ELSE [c EXCEPT !.want[p] = <<result, 0>>]

Trap(call, q, entry) ==
  /\ cpu.mode = "user"
  /\ call = "Spawn" => q # 0 /\ cpu.state[q] = "none" /\ cpu.spawns < MaxSpawns
  /\ call \in {"KillPID", "Stop", "EnterSleep", "WaitPID"} => cpu.current # 0
  /\ call \in {"Resume", "Reset", "Wakeup", "WaitPID"} => q # 0
  /\ call \in {"KillPID", "Stop"} => q # cpu.current
  /\ call \in {"Number", "Schedule", "EnterSleep"} => q = 0
  /\ call # "Reset" => entry = 1
  /\ LET p == cpu.current
         frame == callHandler(cpu)
         e == invoke(cpu, call, q, entry)
         after == Expect(e.c, p, e.result)
     IN \E n \in IF e.schedule THEN select(e.c) ELSE {p} :
          LET c == [after EXCEPT !.current = n]
          IN cpu' = IF cpu.plat = "intel" THEN execute(c, p, frame, e.result)
                    ELSE IF cpu.plat = "arm" THEN ARMTrap(c, p, frame, ResultOf(c, e.result))
                    ELSE SyncExceptionEL0(c, p, "SVC", frame, ResultOf(c, e.result))

Tick ==
  /\ cpu.mode = "user"
  /\ LET p == cpu.current
         frame == callHandler(cpu)
     IN \E n \in select(cpu) :
          LET c == [cpu EXCEPT !.current = n]
          IN cpu' = IF cpu.plat = "intel" THEN execute(c, p, frame, "interrupt") ELSE ARMInterrupt(c, p, frame)

(* A fault of a program: ARM and Intel stop; ARM64 logs a data abort and     *)
(* returns to the instruction.                                               *)
Fault ==
  /\ cpu.mode = "user"
  /\ cpu' = IF cpu.plat = "arm64" THEN SyncExceptionEL0(cpu, cpu.current, "DataAbort", callHandler(cpu), Success) ELSE [cpu EXCEPT !.mode = "fatal"]

(* The program goes on: its result register is its own again.                *)
Run ==
  /\ cpu.mode = "user"
  /\ cpu' = [cpu EXCEPT !.regs.result = Own(cpu.current), !.want[cpu.current] = Own(cpu.current)]

Next ==
  \/ \E call \in Calls, q \in Processes, entry \in Entries : Trap(call, q, entry)
  \/ Tick \/ Fault \/ Run

-----------------------------------------------------------------------------
(* Whatever calls, interrupts, exits and restarts came in between, a process *)
(* runs with its own registers, with the result of its own call or the exit  *)
(* status of the process it waited for in the result register, and on ARM    *)
(* at the entry point it was last started at.                                *)
OwnRegisters ==
  cpu.mode = "user" =>
    LET p == cpu.current IN
    /\ cpu.state[p] = "Ready"
    /\ cpu.regs.caller = Own(p) /\ cpu.regs.result = cpu.want[p]
    /\ cpu.plat # "arm64" => cpu.regs.callee = Own(p)
    /\ cpu.plat # "intel" => cpu.regs.pc = <<"entry", cpu.at[p]>>

(* ARM64Control.h:233 says of CPUState "Contains all the CPU registers.":    *)
(* a process gets all of its registers back.                                 *)
AllRegisters == cpu.mode = "user" => cpu.regs.callee = Own(cpu.current)

(* Process.h:165 says of reset "Restart execution at the given entry point." *)
RestartsAtEntry == cpu.mode = "user" => cpu.regs.pc = <<"entry", cpu.at[cpu.current]>>
=============================================================================
