--------------------------------- MODULE Emac ---------------------------------
(***************************************************************************)
(* The Sun8iEmac Ethernet driver: its initialisation, step by step, against*)
(* the clock, PHY and MAC hardware that may time out, and its receive ring,*)
(* filled by the device while the driver sets up, handles an interrupt or  *)
(* waits for one.  N is NetworkQueue::MaxPackets; frames are numbered.     *)
(***************************************************************************)
EXTENDS Integers, Sequences
CONSTANTS N, MaxFrames
VARIABLE emac

Free == [ctl |-> FALSE, frame |-> 0, last |-> FALSE]

(* The bootloader has left the MAC address in the registers.                 *)
Init ==
  emac = [pc |-> "clocks", mac |-> "boot", saved |-> "none", on |-> {}, phy |-> "down", list |-> FALSE, dma |-> FALSE,
          ring |-> [i \in 1 .. N |-> Free], device |-> 1, index |-> 1, frames |-> 0, lost |-> {},
          pending |-> FALSE, status |-> FALSE, enabled |-> FALSE, line |-> FALSE, notified |-> FALSE, processed |-> <<>>]

Fails(e) == [e EXCEPT !.pc = "failed", !.dma = FALSE]
Goto(e, pc) == [e EXCEPT !.pc = pc]

(* One step of the driver: from pc to the next with effect e, or the error   *)
(* return of the call that failed.                                           *)
Step(pc, e) == emac.pc = pc /\ (emac' = e \/ emac' = Fails(emac))
Always(pc, e) == emac.pc = pc /\ emac' = e

-----------------------------------------------------------------------------
(* initialize maps the clock control, the system control, the registers and  *)
(* the two descriptor pages.                                                 *)
initialize == Step("clocks", Goto(emac, "reset"))

(* reset: getAddress saves the address the bootloader wrote.                 *)
reset == Always("reset", [emac EXCEPT !.pc = "phy", !.saved = emac.mac])

(* SunxiClockControl::enable and deassert, in the order of resetPhy; then    *)
(* the system control register.                                              *)
enable(clock) == emac.on \cup {clock}
ClockSteps == <<"clockTx", "resetTx", "clockEphy", "resetEphy", "syscon">>
resetPhyClocks ==
  /\ emac.pc = "phy"
  /\ LET next == ClockSteps[1 + Len(SelectSeq(ClockSteps, LAMBDA c : c \in emac.on))]
     IN emac' = [emac EXCEPT !.on = enable(next), !.pc = IF next = "syscon" THEN "mii" ELSE "phy"]

(* miiRead: the value of the register, or 0 after the polls of miiBusyWait.  *)
miiRead(value) == {value, "zero"}

(* resetPhy through the MII: the reset bit is set, then read until it is     *)
(* clear; it fails when the last value read has it set.                      *)
miiReset == Always("mii", [emac EXCEPT !.pc = "phyreset", !.phy = "resetting"])
PhyResets == emac.phy = "resetting" /\ emac' = [emac EXCEPT !.phy = "ready"]
resetPhy ==
  /\ emac.pc = "phyreset"
  /\ \E reg \in miiRead(emac.phy) : emac' = IF reg = "resetting" THEN Fails(emac) ELSE Goto(emac, "negotiate")

(* configPhy: a link that does not come up is only a warning.                *)
configPhy ==
  /\ emac.pc = "negotiate"
  /\ \E link \in {"up", "down"} : emac' = [emac EXCEPT !.pc = "macreset", !.phy = IF link = "up" /\ @ = "ready" THEN "link" ELSE @]

(* The MAC is reset, which clears its registers, and polled.                 *)
macReset == Always("macreset", [emac EXCEPT !.pc = "macwait", !.mac = "cleared", !.enabled = FALSE, !.list = FALSE])
macResets == Step("macwait", Goto(emac, "address"))
setAddress == Always("address", [emac EXCEPT !.pc = "ints", !.mac = emac.saved])
enableInterrupts == Always("ints", [emac EXCEPT !.pc = "receive", !.status = FALSE, !.enabled = TRUE])

(* resetReceive: every descriptor gets a packet and belongs to the device,   *)
(* then the list, the receiver and its DMA are set.                          *)
resetReceive == Step("receive", [emac EXCEPT !.pc = "dma", !.ring = [i \in 1 .. N |-> [Free EXCEPT !.ctl = TRUE]], !.index = 1, !.device = 1, !.list = TRUE])
startReceive == Always("dma", [emac EXCEPT !.pc = "stack", !.dma = TRUE])

(* resetTransmit, the link bits and NetworkDevice::initialize.               *)
resetTransmit == Step("stack", Goto(emac, "irq"))
EnableIRQ == Step("irq", [emac EXCEPT !.pc = "idle", !.line = TRUE])

-----------------------------------------------------------------------------
(* The device writes a frame to its next descriptor, or drops it when the    *)
(* descriptor is not its own.  A frame longer than the buffer has no last    *)
(* flag.                                                                     *)
next(i) == IF i = N THEN 1 ELSE i + 1
Receive(last) ==
  /\ emac.dma /\ emac.frames < MaxFrames
  /\ LET f == emac.frames + 1
     IN emac' = IF emac.ring[emac.device].ctl
                THEN [emac EXCEPT !.frames = f, !.device = next(@), !.status = TRUE, !.ring[emac.device] = [ctl |-> FALSE, frame |-> f, last |-> last]]
                ELSE [emac EXCEPT !.frames = f, !.lost = @ \cup {f}]

(* The kernel delivers the interrupt, with the line disabled.                *)
Deliver ==
  /\ emac.line /\ emac.enabled /\ emac.status
  /\ emac' = [emac EXCEPT !.line = FALSE, !.notified = TRUE]

-----------------------------------------------------------------------------
(* interrupt: the status is read and written back, then receive runs, then   *)
(* the line is enabled again.                                                *)
interrupt_clears_last ==
  \/ emac.pc = "idle" /\ emac.notified /\ emac' = [emac EXCEPT !.pc = "loop", !.notified = FALSE, !.pending = emac.status]
  \/ emac.pc = "enable" /\ emac' = [emac EXCEPT !.pc = "idle", !.line = TRUE, !.pending = FALSE, !.status = IF emac.pending THEN FALSE ELSE @]
interrupt ==
  \/ emac.pc = "idle" /\ emac.notified /\ emac' = [emac EXCEPT !.pc = "clear", !.notified = FALSE, !.pending = emac.status]
  \/ emac.pc = "clear" /\ emac' = [emac EXCEPT !.pc = "loop", !.pending = FALSE, !.status = IF emac.pending THEN FALSE ELSE @]
  \/ emac.pc = "enable" /\ emac' = [emac EXCEPT !.pc = "idle", !.line = TRUE]

(* receive: the descriptors the device has filled are processed in order and *)
(* given back.  One without the last flag is looked at again, for ever.      *)
receive ==
  LET d == emac.ring[emac.index]
  IN \/ emac.pc = "loop" /\ d.ctl /\ emac' = Goto(emac, "enable")
     \/ emac.pc = "loop" /\ ~d.ctl /\ ~d.last /\ emac' = Goto(emac, "skip")
     \/ emac.pc = "loop" /\ ~d.ctl /\ d.last /\ emac' = [emac EXCEPT !.pc = "process", !.processed = Append(@, d.frame)]
     \/ emac.pc = "skip" /\ emac' = Goto(emac, "loop")
     \/ emac.pc = "process" /\ emac' = [emac EXCEPT !.pc = "loop", !.ring[emac.index] = [Free EXCEPT !.ctl = TRUE], !.index = next(@)]

Next ==
  \/ initialize \/ reset \/ resetPhyClocks \/ miiReset \/ PhyResets \/ resetPhy \/ configPhy \/ macReset \/ macResets
  \/ setAddress \/ enableInterrupts \/ resetReceive \/ startReceive \/ resetTransmit \/ EnableIRQ
  \/ \E last \in BOOLEAN : Receive(last)
  \/ Deliver \/ interrupt \/ receive

-----------------------------------------------------------------------------
(* The frames the stack processes are those the device stored, in order and  *)
(* each once (receive, resetReceive).                                        *)
Increasing(s) == \A i, j \in 1 .. Len(s) : i < j => s[i] < s[j]
Waiting == {emac.ring[i].frame : i \in {j \in 1 .. N : ~emac.ring[j].ctl /\ emac.ring[j].frame # 0}}
FramesInOrder ==
  /\ Increasing(emac.processed)
  /\ 1 .. emac.frames = {emac.processed[i] : i \in 1 .. Len(emac.processed)} \cup emac.lost \cup Waiting

(* A frame that waits while the driver does is announced by an interrupt     *)
(* that will reach it, also when it came before the line was enabled         *)
(* (interrupt, initialize).                                                  *)
NoLostFrame == (emac.pc = "idle" /\ ~emac.ring[emac.index].ctl) => emac.notified \/ (emac.status /\ emac.enabled /\ emac.line)

(* The device has its descriptor list before its DMA runs, the interface     *)
(* keeps the address of the bootloader over the reset of the MAC, and works  *)
(* with every clock on (reset, resetPhy, setAddress).                        *)
BroughtUp ==
  /\ emac.dma => emac.list
  /\ emac.line => emac.mac = "boot" /\ \A i \in 1 .. Len(ClockSteps) : ClockSteps[i] \in emac.on

(* "last flag not set: skipping packet" (Sun8iEmac.cpp:311): the descriptor  *)
(* is left behind.                                                           *)
SkippedMoves == (emac.pc = "skip" /\ emac'.pc = "loop") => emac'.index # emac.index

(* "Check if the reset bit is cleared" (Sun8iEmac.cpp:457): the driver goes  *)
(* on with a PHY that has left its reset.                                    *)
PhyReset == emac.pc = "macreset" => emac.phy # "resetting"
=============================================================================
