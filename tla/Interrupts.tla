------------------------------ MODULE Interrupts ------------------------------
(* Interrupt controllers and timers. *)
EXTENDS FiniteSets, Integers

(***************************************************************************)
(* Interrupts of one core, from the device to the driver that waits for    *)
(* them: the controllers of lib/libarch (two i8259 PICs, the local APIC,   *)
(* the ARM generic interrupt controller, the Broadcom controller), the     *)
(* handlers of the kernels that use them, Kernel::executeIntVector, the    *)
(* system timer, and the notification of user processes.                   *)
(*                                                                         *)
(* Devices hold their line until the driver has served them.  The handler  *)
(* of the generic controller takes several steps, because the other cores  *)
(* can send it software interrupts meanwhile; nothing disturbs the others, *)
(* so they are one step each.                                              *)
(***************************************************************************)

CONSTANTS
  Devices,  \* of each platform, the interrupt lines that a driver watches
  Cores,    \* the other cores, which send software interrupts
  MaxRaised \* bound: interrupts raised by devices and cores

VARIABLE intr

Platforms == {"pit", "pic", "apic", "gic", "bcm"}
(* "pit": core 0 on Intel with the PIT as its timer; "pic": core 0 on Intel *)
(* with the APIC timer; "apic": another core on Intel.                      *)
HasPIC(s) == s.plat \in {"pit", "pic"}
IsIntel(s) == s.plat \in {"pit", "pic", "apic"}

InterruptBase == 32
TimerVector == 48
ARMTIMER_IRQ == 29
BCM_IRQ_SYSTIMERM1 == 1
NumberOfSoftwareInterrupts == 16
SGI == 0

(* IntController::getBase *)
Base(s) == IF HasPIC(s) THEN InterruptBase ELSE 0

-----------------------------------------------------------------------------
(* i8259: irq 8 .. 15 come in through irq 2 of the master. *)
InvalidIRQ(irq) == irq > 15
PICSet(s, irq, on) ==
  IF InvalidIRQ(irq) THEN s ELSE [s EXCEPT !.enabled = IF on THEN @ \cup {irq} ELSE @ \ {irq}]
(* A form that gives the slave no end of interrupt. *)
PICClear_master_only(s, irq) == IF InvalidIRQ(irq) THEN s ELSE [s EXCEPT !.master = FALSE]

PICClear(s, irq) ==
  IF InvalidIRQ(irq) THEN s
  ELSE [s EXCEPT !.master = FALSE, !.slave = IF irq >= 8 THEN FALSE ELSE @]
(* The line gets through: nothing is in service in front of it. *)
PICReaches(s, irq) ==
  /\ irq \in s.enabled /\ ~s.master
  /\ irq >= 8 => 2 \in s.enabled /\ ~s.slave
PICInitialize(s) == PICSet([s EXCEPT !.enabled = {}], 2, TRUE)

(* APIC: enable() and disable() do nothing; an end of interrupt. *)
APICClear(s) == [s EXCEPT !.active = FALSE]
APICStart(s) == [s EXCEPT !.timer = "runs"]
APICStop(s) == [s EXCEPT !.timer = "stopped"]

(* Generic interrupt controller *)
IsSoftware(irq) == irq < NumberOfSoftwareInterrupts
(* A register holds 32 lines.  IO::set() writes back what it reads: of the  *)
(* clear-enable register that is every line that is enabled, so disable()    *)
(* disables the whole register.                                              *)
GICSet(s, irq, on) ==
  IF IsSoftware(irq) THEN s
  ELSE [s EXCEPT !.enabled = IF on THEN @ \cup {irq} ELSE {i \in @ : i \div 32 # irq \div 32}]
(* A form that clears the pending software interrupts with every interrupt. *)
GICClear_always(s, irq) == [s EXCEPT !.ipi = {}, !.active = FALSE]

GICClear(s, irq) == [s EXCEPT !.ipi = IF IsSoftware(irq) THEN {} ELSE @, !.active = FALSE]
(* All priorities are equal: an active interrupt holds back the others.     *)
GICPending(s) ==
  IF s.active THEN {}
  ELSE ((s.line \cup (IF s.timer = "fired" THEN {ARMTIMER_IRQ} ELSE {})) \cap s.enabled)
       \cup (IF s.ipi = {} THEN {} ELSE {SGI})

(* Broadcom: two registers of 32 lines. *)
BCMSet(s, irq, on) == [s EXCEPT !.enabled = IF on THEN @ \cup {irq} ELSE @ \ {irq}]
isTriggered(s, irq) ==
  irq \in s.enabled /\ (irq \in s.line \/ (irq = BCM_IRQ_SYSTIMERM1 /\ s.timer = "fired"))

-----------------------------------------------------------------------------
(* Kernel::enableIRQ, IntelKernel::enableIRQ *)
enableIRQ(s, irq, on) ==
  CASE IsIntel(s) /\ irq = TimerVector -> IF on THEN APICStart(s) ELSE APICStop(s)
    [] HasPIC(s) /\ irq # TimerVector -> PICSet(s, irq, on)
    [] s.plat = "gic" -> GICSet(s, irq, on)
    [] s.plat = "bcm" -> BCMSet(s, irq, on)
    [] OTHER -> s

(* ProcessManager::interruptNotify: the driver gets an event. *)
interruptNotify(s, irq) ==
  CASE irq \in DOMAIN s.driver -> [s EXCEPT !.queue = @ \cup {irq}]
    [] irq = SGI /\ s.plat \in {"apic", "gic"} -> [s EXCEPT !.queue = @ \cup {SGI}]
    [] OTHER -> s

(* Timer::tick and what the timers of ARM and Broadcom do to fire again.    *)
Interrupts_tick(s) == [s EXCEPT !.timer = "runs"]

(* The hooks of an Intel kernel: interrupt() of every vector, and           *)
(* clocktick() of the timer's.                                              *)
interrupt(s, vec) == IF HasPIC(s) THEN PICClear(s, vec - Base(s)) ELSE APICClear(s)
TimerOf(s) == IF s.plat = "pit" THEN InterruptBase ELSE TimerVector
(* A form of clocktick() that does not start the timer again. *)
clocktick_no_enable(s) == IF s.plat = "pit" THEN Interrupts_tick(s) ELSE APICClear(s)

clocktick(s) ==
  IF s.plat = "pit" THEN Interrupts_tick(enableIRQ(s, 0, TRUE))
  ELSE APICClear(enableIRQ(s, TimerVector, TRUE))
Hooks(s, vec) ==
  CASE IsIntel(s) /\ vec = TimerOf(s) -> clocktick(interrupt(s, vec))
    [] IsIntel(s) /\ vec # TimerOf(s) -> interrupt(s, vec)
    [] OTHER -> s

(* Kernel::executeIntVector: masked, hooks, notification. *)
executeIntVector_not_masked(s, vec) == interruptNotify(Hooks(s, vec), vec - Base(s))

executeIntVector(s, vec) == interruptNotify(Hooks(enableIRQ(s, vec, FALSE), vec), vec - Base(s))

-----------------------------------------------------------------------------
Interrupts_Init ==
  \E plat \in Platforms :
    LET s == [plat |-> plat, line |-> {}, enabled |-> {}, master |-> FALSE, slave |-> FALSE, active |-> FALSE,
              ipi |-> {}, timer |-> "runs", pc |-> "user", irq |-> 0,
              driver |-> [i \in Devices[plat] |-> "starts"], queue |-> {}, unheard |-> {}, again |-> {}, raised |-> 0]
    IN intr = CASE plat = "pit" -> enableIRQ(PICInitialize(s), 0, TRUE)
                [] plat = "pic" -> PICInitialize(s)
                [] plat = "gic" -> enableIRQ(s, ARMTIMER_IRQ, TRUE)
                [] plat = "bcm" -> enableIRQ(s, BCM_IRQ_SYSTIMERM1, TRUE)
                [] OTHER -> s

(* A device asserts its line. *)
Raise(irq) ==
  /\ irq \notin intr.line /\ intr.raised < MaxRaised
  /\ intr' = [intr EXCEPT !.line = @ \cup {irq}, !.raised = @ + 1]

(* Another core sends a software interrupt, at any time. *)
send(core) ==
  /\ intr.plat \in {"apic", "gic"} /\ intr.raised < MaxRaised
  /\ intr' = [intr EXCEPT !.ipi = @ \cup {core}, !.unheard = @ \cup {core}, !.raised = @ + 1]

(* The timer counts down. *)
Fire ==
  /\ intr.timer = "runs"
  /\ intr' = [intr EXCEPT !.timer = "fired"]

(* History: the interrupts taken again before the driver has seen the first. *)
Taken(s, irq) == [s EXCEPT !.again = IF irq \in s.queue \ {SGI} THEN @ \cup {irq} ELSE @]

(* Intel: vectors of the PIC, of the APIC timer, and of other cores. *)
PICInterrupt(irq) ==
  /\ intr.pc = "user" /\ HasPIC(intr)
  /\ irq \in intr.line \cup (IF intr.plat = "pit" /\ intr.timer = "fired" THEN {0} ELSE {})
  /\ PICReaches(intr, irq)
  /\ intr' = executeIntVector([Taken(intr, irq) EXCEPT !.master = TRUE, !.slave = (irq >= 8)], InterruptBase + irq)
APICInterrupt ==
  /\ intr.pc = "user" /\ intr.plat \in {"pic", "apic"}
  /\ ~intr.active
  /\ \/ /\ intr.timer = "fired"
        /\ intr' = executeIntVector([intr EXCEPT !.active = TRUE], TimerVector)
     \/ /\ intr.plat = "apic" /\ intr.ipi # {}
        /\ intr' = executeIntVector([intr EXCEPT !.active = TRUE, !.ipi = {}], SGI)

(* SunxiKernel::interrupt: nextPending(), executeIntVector(), clear(), then  *)
(* the timer.  Reading a software interrupt takes that of one core.         *)
nextPending(irq) ==
  /\ intr.pc = "user" /\ intr.plat = "gic" /\ irq \in GICPending(intr)
  /\ LET s == [Taken(intr, irq) EXCEPT !.active = TRUE, !.irq = irq,
                                       !.pc = IF irq = ARMTIMER_IRQ THEN "clear" ELSE "execute"]
     IN IF irq = SGI THEN \E core \in intr.ipi : intr' = [s EXCEPT !.ipi = @ \ {core}] ELSE intr' = s
GICExecute ==
  /\ intr.pc = "execute"
  /\ intr' = [executeIntVector(intr, intr.irq) EXCEPT !.pc = "clear"]
GICEnd ==
  /\ intr.pc = "clear"
  /\ LET s == [GICClear(intr, intr.irq) EXCEPT !.pc = "user"]
     IN intr' = IF intr.irq = ARMTIMER_IRQ THEN Interrupts_tick(s) ELSE s

(* RaspberryKernel::interrupt: the timer, then every line above it in turn. *)
RECURSIVE ExecuteFrom(_, _)
ExecuteFrom(s, i) ==
  LET triggered == {j \in i .. 63 : isTriggered(s, j)}
  IN IF triggered = {} THEN s
     ELSE LET j == CHOOSE j \in triggered : \A k \in triggered : j <= k
          IN ExecuteFrom(executeIntVector(Taken(s, j), j), j + 1)
BCMInterrupt ==
  /\ intr.pc = "user" /\ intr.plat = "bcm"
  /\ \E i \in 1 .. 63 : isTriggered(intr, i)
  /\ LET s == IF isTriggered(intr, BCM_IRQ_SYSTIMERM1) THEN Interrupts_tick(intr) ELSE intr
     IN intr' = ExecuteFrom(s, BCM_IRQ_SYSTIMERM1 + 1)

(* The driver: EnableIRQ, then it sleeps; an event wakes it, it serves the   *)
(* device, and enables the interrupt again.                                 *)
EnableIRQ(irq) ==
  /\ intr.pc = "user" /\ intr.driver[irq] # "sleeps"
  /\ intr' = [enableIRQ(intr, irq, TRUE) EXCEPT !.driver[irq] = "sleeps"]
Serve(irq) ==
  /\ intr.pc = "user" /\ intr.driver[irq] = "sleeps" /\ irq \in intr.queue
  /\ intr' = [intr EXCEPT !.line = @ \ {irq}, !.queue = @ \ {irq}, !.driver[irq] = "served"]
(* The core server looks for messages of all cores. *)
HearIPI ==
  /\ intr.pc = "user" /\ SGI \in intr.queue
  /\ intr' = [intr EXCEPT !.queue = @ \ {SGI}, !.unheard = {}]

Interrupts_Next ==
  \/ \E i \in Devices[intr.plat] : Raise(i) \/ EnableIRQ(i) \/ Serve(i)
  \/ \E i \in Devices[intr.plat] \cup {0} : PICInterrupt(i)
  \/ \E i \in Devices[intr.plat] \cup {SGI, ARMTIMER_IRQ} : nextPending(i)
  \/ \E core \in Cores : send(core)
  \/ Fire \/ APICInterrupt \/ GICExecute \/ GICEnd \/ BCMInterrupt \/ HearIPI

-----------------------------------------------------------------------------
Reaches(s, irq) ==
  CASE HasPIC(s) -> PICReaches(s, irq)
    [] s.plat = "gic" -> irq \in s.enabled /\ ~s.active
    [] s.plat = "bcm" -> irq \in s.enabled
    [] OTHER -> FALSE

(* A device that needs service gets it: outside of the kernel's handlers its *)
(* line can interrupt the core, or its driver has an event, or the driver is *)
(* about to enable the line.  Nothing that was taken stays in service.       *)
NoLostInterrupt ==
  intr.pc = "user" =>
    \A i \in intr.line : Reaches(intr, i) \/ i \in intr.queue \/ intr.driver[i] # "sleeps"

(* An interrupt that another core has sent is followed by an event for the   *)
(* core server, although clearing a software interrupt drops those that      *)
(* arrived since.                                                            *)
IPIHeard ==
  intr.unheard # {} => intr.ipi # {} \/ SGI \in intr.queue \/ (intr.pc = "execute" /\ intr.irq = SGI)

(* The clock never stops: executeIntVector() masks the timer like any other  *)
(* interrupt, and the handler of the timer starts it again.                  *)
ClockRuns ==
  intr.pc = "user" =>
    /\ intr.timer # "stopped"
    /\ intr.timer = "fired" =>
         CASE intr.plat = "pit" -> PICReaches(intr, 0)
           [] intr.plat = "gic" -> ARMTIMER_IRQ \in GICPending(intr)
           [] intr.plat = "bcm" -> isTriggered(intr, BCM_IRQ_SYSTIMERM1)
           [] OTHER -> ~intr.active

(* On ARM a device that holds its line interrupts once, until its driver     *)
(* enables the interrupt again.                                              *)
MaskedOnARM == ~IsIntel(intr) => intr.again = {}

(* Kernel.cpp:212-214 says so of every platform: "Auto-Mask the IRQ.  Any    *)
(* interrupt handler or user program needs to re-enable the IRQ to receive   *)
(* it again.  This prevents interrupt loops".                                *)
AutoMasked == intr.again = {}

-------------------------------------------------------------------------------
(***************************************************************************)
(* The system timers (IntelPIT, IntelAPIC, ARMTimer, ARM64Timer and        *)
(* BroadcomTimer over Timer), the calibration of the APIC timer against    *)
(* the PIT, and one process that makes the timed waits of the code:        *)
(*   "msec"    Timer::getCurrent with an offset, or IntelAPIC::wait        *)
(*   "sleep"   sleep(3), which waits whole seconds                         *)
(*   "server"  ChannelServer::setTimeout and sleepUntilWakeup              *)
(* One unit of time is one cycle of the timer's clock, which runs at       *)
(* ClockHz.  An interrupt is handled at most MaxDelay cycles after it      *)
(* fires (the kernel runs with interrupts off); the kernel reads the PIT   *)
(* at most MaxPoll cycles after its last reading.  CloWrap stands for 2^32 *)
(* cycles of the Broadcom counter; SleepOn are the platforms with the long *)
(* waits of sleep(3).  Time passes while the waiter is asleep, or polls.   *)
(***************************************************************************)
CONSTANTS ClockHz, MaxDelay, MaxPoll, CloWrap, Offsets, SleepOn, MaxElapsed
VARIABLE timer

Loops == 20
Hertz(plat) == IF plat = "bcm" THEN 250 ELSE 100
Idle == [kind |-> "none", msec |-> 0, expiry |-> 0, elapsed |-> 0, state |-> "idle", wakeups |-> FALSE, early |-> FALSE]

(* IntelPIT::setFrequency: the divisor, 0 when the frequency is refused.     *)
PITDivisor(hertz) ==
  IF hertz = 0 \/ hertz > ClockHz THEN 0
  ELSE LET divisor == ClockHz \div hertz IN IF divisor <= 2 \/ divisor > 65535 THEN 0 ELSE divisor

(* ARMTimer::setFrequency counts a tick of its own: it calls tick().         *)
ARMInitialTicks == 1

(* BroadcomTimer::setFrequency and tick: the next match of the compare       *)
(* register, in the 32 bits of the counter.                                  *)
BCMCompare(clo, cycles) == (clo + cycles) % CloWrap

(* The kernel's constructor sets its timer up.  A core other than the first  *)
(* never sets the frequency of its PIT, and calibrates its APIC timer with   *)
(* it: the timerCounter of its CoreInfo is 0 (Boot.tla, CopiedWords).        *)
Start(plat) ==
  LET hertz == Hertz(plat)
      base == [plat |-> plat, mode |-> "run", f |-> hertz, period |-> ClockHz \div hertz, ticks |-> 0, left |-> ClockHz \div hertz,
               pending |-> FALSE, delay |-> 0, clo |-> 0, c1 |-> 0, cal |-> <<0, 0, 0, 0>>, w |-> Idle]
  IN CASE plat = "pit" -> [base EXCEPT !.period = PITDivisor(hertz), !.left = PITDivisor(hertz)]
       [] plat \in {"apic", "core"} -> [base EXCEPT !.mode = "calibrate", !.f = 0, !.cal = <<0, PITDivisor(hertz), PITDivisor(hertz), 0>>]
       [] plat = "arm" -> [base EXCEPT !.ticks = ARMInitialTicks]
       [] plat = "bcm" -> [base EXCEPT !.c1 = BCMCompare(0, ClockHz \div hertz)]

Timers_Init == \E plat \in {"pit", "apic", "core", "arm", "bcm"} : timer = Start(plat)

-----------------------------------------------------------------------------
(* IntelAPIC::start(pit): the PIT is read until its counter restarts, once   *)
(* and then Loops times more; the cycles between are the APIC's counter.     *)
(* cal is the number of triggers seen, the previous reading, the counter,    *)
(* and the cycles since the first trigger.                                   *)
Triggered(previous, current) == current > previous

PITFrequency == IF timer.plat = "core" THEN 0 ELSE 100

(* The i8254 counts down from its divisor to 1.                              *)
PITCounter(c, cycles) == ((c - 1 - cycles + PITDivisor(100)) % PITDivisor(100)) + 1

waitTrigger(gap) ==
  LET current == PITCounter(timer.cal[3], gap)
      seen == timer.cal[1] + (IF Triggered(timer.cal[2], current) THEN 1 ELSE 0)
      cycles == IF timer.cal[1] = 0 THEN 0 ELSE timer.cal[4] + gap
  IN /\ timer.mode = "calibrate"
     /\ timer' = IF seen = Loops + 1
                 THEN [timer EXCEPT !.mode = "run", !.cal = <<0, 0, 0, 0>>, !.f = PITFrequency, !.period = cycles \div Loops, !.left = cycles \div Loops]
                 ELSE [timer EXCEPT !.cal = <<seen, current, current, cycles>>]

-----------------------------------------------------------------------------
(* Timer::isExpired.                                                         *)
isExpired(t, w) == t.f # 0 /\ t.ticks >= w.expiry

(* ProcessManager::schedule wakes the process whose timer expired.           *)
schedule(t) ==
  IF t.w.state = "asleep" /\ isExpired(t, t.w) THEN [t EXCEPT !.w.state = "awake", !.w.wakeups = TRUE] ELSE t

(* A server that its expired timer woke calls EnterSleep until the next tick.*)
Polls == timer.w.state = "awake" /\ timer.w.kind = "server" /\ timer.ticks <= timer.w.expiry

(* One cycle: the periodic timers keep counting while their interrupt is not *)
(* handled yet, the ARM timer stops, the Broadcom counter runs on.           *)
Elapse ==
  /\ timer.mode = "run" /\ (timer.w.state \in {"idle", "asleep"} \/ Polls)
  /\ timer.pending => timer.delay < MaxDelay
  /\ timer.w.elapsed < MaxElapsed
  /\ LET clo == (timer.clo + 1) % CloWrap
         fires == IF timer.plat = "bcm" THEN clo = timer.c1 ELSE timer.left = 1
         left == IF timer.plat = "bcm" THEN timer.left ELSE IF timer.left > 1 THEN timer.left - 1
                 ELSE IF timer.plat = "arm" THEN 0 ELSE timer.period
     IN timer' = [timer EXCEPT !.clo = IF timer.plat = "bcm" THEN clo ELSE @, !.left = left, !.pending = @ \/ fires,
                               !.delay = IF timer.pending THEN @ + 1 ELSE 0,
                               !.w.elapsed = IF timer.w.state # "idle" THEN @ + 1 ELSE 0]

(* The timer interrupt: tick() of the platform's timer, then schedule().     *)
Timers_tick ==
  /\ timer.pending
  /\ LET t == [timer EXCEPT !.pending = FALSE, !.delay = 0, !.ticks = IF timer.w.state = "idle" THEN @ ELSE @ + 1]
     IN timer' = schedule(CASE t.plat = "arm" -> [t EXCEPT !.left = t.period]
                            [] t.plat = "bcm" -> [t EXCEPT !.c1 = BCMCompare(t.clo, t.period)]
                            [] OTHER -> t)

-----------------------------------------------------------------------------
(* The expiry of the three kinds of wait, in ticks: Timer::getCurrent,       *)
(* IntelAPIC::wait and ChannelServer::setTimeout add a tick, sleep does not. *)
getCurrent(t, msec) == IF t.f = 0 THEN t.ticks ELSE t.ticks + ((msec \div (1000 \div t.f)) + 1)
sleep(t, seconds) == t.ticks + t.f * seconds

(* The process asks InfoTimer and sleeps.  On a core without a frequency     *)
(* setTimeout and IntelAPIC::wait divide by zero: only sleep is called there.*)
(* Ticks before the wait are not kept: the deadline is relative to them.     *)
Wait(kind, msec) ==
  /\ timer.mode = "run" /\ timer.w.state = "idle"
  /\ timer.f = 0 => kind = "sleep"
  /\ LET expiry == IF kind = "sleep" THEN sleep(timer, msec \div 1000) ELSE getCurrent(timer, msec)
     IN timer' = [timer EXCEPT !.w = [Idle EXCEPT !.kind = kind, !.msec = msec, !.expiry = expiry, !.state = "asleep"]]

(* ProcessManager::wakeup by another process, an interrupt or a message.     *)
wakeup ==
  /\ timer.w.state = "asleep"
  /\ timer' = [timer EXCEPT !.w.state = "awake", !.w.wakeups = TRUE, !.w.early = timer.w.kind # "server", !.w.elapsed = IF timer.w.kind = "server" THEN @ ELSE 0]

Finish(t) == [t EXCEPT !.w.state = "done", !.w.wakeups = FALSE]

(* sleepUntilWakeup: the time-out has passed when the tick after its expiry  *)
(* has; otherwise EnterSleep again, which returns at once with a pending     *)
(* wakeup, and is woken by schedule() when the timer has expired.            *)
sleepUntilWakeup_at_expiry(t) ==
  IF t.w.expiry <= t.ticks THEN Finish(t)
  ELSE IF t.w.wakeups THEN [t EXCEPT !.w.wakeups = FALSE]
  ELSE schedule([t EXCEPT !.w.state = "asleep"])
sleepUntilWakeup(t) ==
  IF t.w.expiry < t.ticks THEN Finish(t)
  ELSE IF t.w.wakeups THEN [t EXCEPT !.w.wakeups = FALSE]
  ELSE schedule([t EXCEPT !.w.state = "asleep"])

(* The woken process: a server checks its time-out, WaitTimer returns.       *)
Awake ==
  /\ timer.w.state = "awake"
  /\ timer' = IF timer.w.kind = "server" THEN sleepUntilWakeup(timer) ELSE Finish(timer)

Return ==
  /\ timer.w.state = "done"
  /\ timer' = [timer EXCEPT !.w = Idle, !.ticks = IF timer.plat = "arm" THEN ARMInitialTicks ELSE 0]

Timers_Next ==
  \/ \E gap \in 0 .. MaxPoll : waitTrigger(gap)
  \/ Elapse \/ Timers_tick \/ wakeup \/ Awake \/ Return
  \/ \E kind \in {"msec", "server"}, msec \in Offsets : Wait(kind, msec)
  \/ timer.plat \in SleepOn /\ Wait("sleep", 1000)

-----------------------------------------------------------------------------
Millis(cycles) == cycles * 1000
TickMillis == timer.period * 1000

(* A timed wait that nobody wakes lasts as long as it was asked to, less a   *)
(* part of the tick it began in and the delay of its interrupt; the time-out *)
(* of a server is early by no more than that delay.                          *)
(* It ends, counting the delays of the interrupts, within three ticks of the *)
(* time asked (Timer::getCurrent, isExpired, ChannelServer::setTimeout).     *)
(* Time is measured by the timer's own rate: a second is f periods.          *)
TimedWaits ==
  LET w == timer.w
      due == w.msec * timer.f * timer.period
      slack == 3 * TickMillis + ((w.msec * timer.f) \div 1000 + 3) * MaxDelay * 1000
  IN /\ (w.state = "done" /\ ~w.early) => Millis(w.elapsed) >= due - TickMillis - MaxDelay * 1000
     /\ (w.state = "done" /\ w.kind = "server") => Millis(w.elapsed) >= due - MaxDelay * 1000
     /\ (w.state \in {"asleep", "awake"} /\ timer.f # 0) => Millis(w.elapsed) <= due + slack

(* The APIC timer is set to the period of the PIT: the readings that miss    *)
(* the moment of a trigger do not add up (IntelAPIC::start, waitTrigger).    *)
Calibrated == (timer.plat = "apic" /\ timer.mode = "run") => timer.period \in {PITDivisor(100) - 1, PITDivisor(100)}

(* "Process is only allowed to continue execution after the sleep timer      *)
(* expires" (ProcessCtl.cpp:166): the process that called WaitTimer returns  *)
(* when its timer has expired.                                               *)
WaitTimerExpires == (timer.w.state = "done" /\ timer.w.kind # "server") => isExpired(timer, timer.w)

(* "Wait until the timer expires" (sleep.cpp:37): the wait ends, on every    *)
(* core.                                                                     *)
SleepEnds == timer.w.state = "asleep" => timer.w.elapsed < MaxElapsed
===============================================================================
