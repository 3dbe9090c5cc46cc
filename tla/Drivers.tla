-------------------------------- MODULE Drivers -------------------------------
(* Drivers of serial ports, disk, clock, keyboard and screen. *)
EXTENDS Naturals, Sequences

(***************************************************************************)
(* The serial drivers (server/serial): PL011, NS16550 and i8250.  The      *)
(* driver's accesses of the registers are steps, between which the UART    *)
(* receives and transmits; the kernel disables the interrupt line when it  *)
(* delivers an interrupt, and the driver asks for it again.  A read or a   *)
(* write that answers RetryAgain is tried again by the device server after *)
(* an interrupt or another request.                                        *)
(***************************************************************************)
CONSTANTS Serial_Kinds, MaxChars, Sizes
VARIABLE se
(* The receive FIFO: PL011 and i8250 run without it. *)
Depth(kind) == IF kind = "NS16550" THEN 2 ELSE 1
Serial_Init ==
  \E kind \in Serial_Kinds :
    se = [kind |-> kind, pc |-> "disable", dlab |-> FALSE, ier |-> FALSE, divisor |-> 0, irq |-> TRUE, ris |-> FALSE,
          fifo |-> <<>>, chars |-> 0, lost |-> {}, got |-> <<>>, event |-> FALSE, txbusy |-> FALSE,
          reader |-> "none", size |-> 0, bytes |-> 0, writer |-> "none", wsize |-> 0, wbytes |-> 0]
Goto(where) == [se EXCEPT !.pc = where]

(* The divisor latch bit of the line control register: while it is set the *)
(* first two registers are the divisor, not data and interrupt enable.     *)
WriteSecond(s, value) == IF s.dlab THEN [s EXCEPT !.divisor = value] ELSE [s EXCEPT !.ier = value # 0]
setDivisorLatch(s, enabled) == [s EXCEPT !.dlab = enabled]

(* initialize: the interrupt is disabled while the UART is set up. *)
DisableIRQ == se.pc = "disable" /\ se' = [se EXCEPT !.irq = FALSE, !.pc = "setup"]
PL011_initialize(s) == [s EXCEPT !.ris = FALSE, !.divisor = 26, !.ier = TRUE]
NS16550_initialize(s) ==
  WriteSecond([setDivisorLatch([WriteSecond(setDivisorLatch(s, TRUE), 0) EXCEPT !.divisor = 13], FALSE) EXCEPT !.fifo = <<>>], 1)
i8250_initialize(s) ==
  setDivisorLatch([WriteSecond(setDivisorLatch(WriteSecond(s, 1), TRUE), 0) EXCEPT !.divisor = 11500 \div 9600], FALSE)
initialize ==
  /\ se.pc = "setup"
  /\ se' = [(CASE se.kind = "PL011" -> PL011_initialize(se)
               [] se.kind = "NS16550" -> NS16550_initialize(se)
               [] OTHER -> i8250_initialize(se)) EXCEPT !.irq = TRUE, !.pc = "idle"]

(* The UART: a character arrives, the last one is sent, the line raised.   *)
Running == se.pc \notin {"disable", "setup"}
ReceiveChar ==
  /\ Running /\ se.chars < MaxChars
  /\ se' = IF Len(se.fifo) < Depth(se.kind)
           THEN [se EXCEPT !.chars = @ + 1, !.fifo = Append(@, se.chars + 1), !.ris = TRUE]
           ELSE [se EXCEPT !.chars = @ + 1, !.lost = @ \cup {se.chars + 1}]
Sent == se.txbusy /\ se' = [se EXCEPT !.txbusy = FALSE]
Asserted == se.ier /\ (IF se.kind = "PL011" THEN se.ris ELSE se.fifo # <<>>)
Deliver ==
  /\ Running /\ Asserted /\ se.irq
  /\ se' = [se EXCEPT !.irq = FALSE, !.event = TRUE]

(* interrupt(vector), then the device server tries what waits again. *)
PL011_interrupt(s) == [s EXCEPT !.ris = FALSE, !.irq = TRUE]
NS16550_interrupt(s) == [s EXCEPT !.ier = FALSE]
i8250_interrupt(s) == [s EXCEPT !.irq = TRUE]
Serial_interrupt ==
  /\ se.pc = "idle" /\ se.event
  /\ LET s == [se EXCEPT !.event = FALSE, !.pc = "retry"] IN
       se' = CASE se.kind = "PL011" -> PL011_interrupt(s)
               [] se.kind = "NS16550" -> NS16550_interrupt(s)
               [] OTHER -> i8250_interrupt(s)
Retry ==
  /\ se.pc = "retry"
  /\ se' = Goto(IF se.reader = "waits" THEN "read" ELSE IF se.writer = "waits" THEN "write" ELSE "idle")

(* A client asks to read or to write a number of bytes. *)
Request ==
  /\ se.pc = "idle"
  /\ \E n \in Sizes :
       \/ se.reader = "none" /\ se' = [se EXCEPT !.reader = "waits", !.size = n, !.pc = "retry"]
       \/ se.writer = "none" /\ se' = [se EXCEPT !.writer = "waits", !.wsize = n, !.pc = "retry"]

(* read: PL011 clears its receive interrupt first, then every driver takes *)
(* bytes while the UART has one and the buffer has room ...                *)
ClearRead == se.pc = "read" /\ se' = [se EXCEPT !.ris = FALSE, !.bytes = 0, !.pc = "take"]
Take ==
  /\ se.pc = "take" /\ se.fifo # <<>> /\ se.bytes < se.size
  /\ se' = [se EXCEPT !.got = Append(@, Head(se.fifo)), !.fifo = Tail(@), !.bytes = @ + 1]
(* ... NS16550 enables the interrupt it masked ... *)
NS16550_reenable_read(s) == IF s.ier \/ s.reader = "waits" THEN s ELSE [s EXCEPT !.ier = TRUE, !.irq = TRUE]
NS16550_reenable(s) == IF s.ier THEN s ELSE [s EXCEPT !.ier = TRUE, !.irq = TRUE]
Taken ==
  /\ se.pc = "take" /\ (se.fifo = <<>> \/ se.bytes = se.size)
  /\ se' = Goto("taken")
Reenable(s) == IF s.kind = "NS16550" THEN NS16550_reenable(s) ELSE s
(* ... and the request is answered, or waits. *)
ReadDone ==
  /\ se.pc = "taken"
  /\ se' = Reenable([se EXCEPT !.reader = IF se.bytes > 0 THEN "none" ELSE "waits",
                               !.size = IF se.bytes > 0 THEN 0 ELSE @, !.bytes = 0,
                               !.pc = IF se.writer = "waits" THEN "write" ELSE "idle"])

(* write: PL011 and NS16550 wait for the transmitter before every byte;    *)
(* i8250 stops when it is busy.                                            *)
WriteByte ==
  /\ se.pc = "write" /\ se.wbytes < se.wsize /\ ~ se.txbusy
  /\ se' = [se EXCEPT !.txbusy = TRUE, !.wbytes = @ + 1]
WriteDone ==
  /\ se.pc = "write" /\ (se.wbytes = se.wsize \/ (se.kind = "i8250" /\ se.txbusy))
  /\ se' = [se EXCEPT !.writer = IF se.wbytes > 0 THEN "none" ELSE "waits", !.wsize = IF se.wbytes > 0 THEN 0 ELSE @,
                      !.wbytes = 0, !.pc = "idle"]

Serial_Next ==
  \/ DisableIRQ
  \/ initialize
  \/ ReceiveChar
  \/ Sent
  \/ Deliver
  \/ Serial_interrupt
  \/ Retry
  \/ Request
  \/ ClearRead
  \/ Take
  \/ Taken
  \/ ReadDone
  \/ WriteByte
  \/ WriteDone

-----------------------------------------------------------------------------
(* A reader that waits is woken when there is something to read: the UART  *)
(* raises an enabled interrupt, or the server is about to handle one.      *)
NoLostReader ==
  se.pc = "idle" /\ se.reader = "waits" /\ se.fifo # <<>> => se.event \/ (Asserted /\ se.irq)

(* Characters are read in the order they arrived; only the ones that found *)
(* the UART full are missing.                                              *)
Increasing(s) == \A i, j \in DOMAIN s : i < j => s[i] < s[j]
InOrder ==
  /\ Increasing(se.got \o se.fifo)
  /\ {(se.got \o se.fifo)[i] : i \in DOMAIN (se.got \o se.fifo)} = (1 .. se.chars) \ se.lost

(* After initialize the UART raises receive interrupts and has the baud    *)
(* divisor that was meant for it, although both share a register address.  *)
SetUp == Running /\ se.chars = 0 /\ se.writer = "none" /\ ~ se.event /\ se.pc = "idle"
           => ~ se.dlab /\ se.ier /\ se.divisor # 0

(* A write that has to wait is tried again: "RetryAgain".  The transmitter *)
(* raises no interrupt, so a writer may wait although it is idle.          *)
WriterRetried == se.pc = "idle" /\ se.writer = "waits" => se.txbusy \/ se.event

(* "BAUDRATE = 9600": the divisor of the 115200 Hz clock gives that rate. *)
BaudRate == se.kind = "i8250" /\ Running => se.divisor * 9600 = 115200

-------------------------------------------------------------------------------
(***************************************************************************)
(* The drivers of PC hardware that poll or read single ports: the ATA disk *)
(* (server/ata), the real time clock (server/time), the PS/2 keyboard      *)
(* (server/ps2) and the VGA text screen (server/video).  One of them runs  *)
(* in a behaviour, with its device.                                        *)
(***************************************************************************)
CONSTANTS Drivers_Kinds, SectorSize, Sectors, CountWrap, Offsets, ReadSizes, Screen, MaxKeys, MaxTicks
VARIABLE dr

NoATA == [at |-> "idle", drive |-> "idle", lba |-> 0, count |-> 0, offset |-> 0, size |-> 0, off |-> 0, result |-> 0, got |-> <<>>]
NoRTC == [at |-> "idle", uip |-> FALSE, started |-> FALSE, clock |-> <<8, 9>>, began |-> <<8, 9>>, seen |-> <<>>,
          binary |-> FALSE, preempted |-> FALSE, ticks |-> 0, answer |-> <<>>]
NoKeyboard == [out |-> 0, port |-> 0, held |-> FALSE, pressed |-> 0, irq |-> TRUE, event |-> FALSE, pending |-> FALSE, fresh |-> TRUE,
               shiftState |-> 0, typed |-> <<>>, codes |-> <<>>, read |-> <<>>, waits |-> FALSE, repeated |-> FALSE]
Drivers_Init ==
  \/ "ata" \in Drivers_Kinds /\ dr = [kind |-> "ata", ata |-> NoATA]
  \/ "rtc" \in Drivers_Kinds /\ \E b \in BOOLEAN : dr = [kind |-> "rtc", rtc |-> [NoRTC EXCEPT !.binary = b]]
  \/ "keyboard" \in Drivers_Kinds /\ \E p \in BOOLEAN : dr = [kind |-> "keyboard", kb |-> [NoKeyboard EXCEPT !.pending = p, !.fresh = ~ p]]
  \/ "vga" \in Drivers_Kinds /\ dr = [kind |-> "vga", vga |-> [i \in 0 .. Screen - 1 |-> 0], last |-> [offset |-> 0, size |-> 0, ok |-> FALSE]]

-----------------------------------------------------------------------------
(* ATA.  The disk holds its own byte numbers.  read: the number of sectors *)
(* for the size, which is kept in a byte, and the first sector ...         *)
Ceil(a, b) == (a + b - 1) \div b
sectors(size) == Ceil(size, SectorSize) % CountWrap
ATA_read ==
  \E offset \in Offsets, size \in ReadSizes :
    /\ dr.kind = "ata" /\ dr.ata.at = "idle"
    /\ dr' = [dr EXCEPT !.ata =
         IF Sectors < offset \div SectorSize
         THEN [NoATA EXCEPT !.at = "failed", !.offset = offset, !.size = size]
         ELSE [NoATA EXCEPT !.at = "poll", !.drive = "busy", !.lba = offset \div SectorSize,
                            !.count = IF sectors(size) = 0 THEN CountWrap ELSE sectors(size),
                            !.offset = offset, !.size = size, !.off = offset]]
(* The drive gets a sector ready, while it has one to give. *)
Prepare ==
  /\ dr.kind = "ata" /\ dr.ata.drive = "busy"
  /\ dr' = [dr EXCEPT !.ata.drive = "data"]
(* ... then pollReady(true), which waits while the drive is busy ... *)
pollReady == dr.kind = "ata" /\ dr.ata.at = "poll" /\ dr.ata.drive # "busy" /\ dr' = [dr EXCEPT !.ata.at = "copy"]
(* ... and the bytes of the sector that were asked for.  The data register *)
(* of a drive that has nothing to give reads as anything: 255.             *)
Sector == [k \in 0 .. SectorSize - 1 |-> IF dr.ata.drive = "data" THEN dr.ata.lba * SectorSize + k ELSE 255]
Copied ==
  LET a == dr.ata
      room == SectorSize - (a.off % SectorSize) IN
    IF a.size - a.result < room THEN a.size - a.result ELSE room
CopySector ==
  LET a == dr.ata IN
    /\ dr.kind = "ata" /\ a.at = "copy"
    /\ dr' = [dr EXCEPT !.ata =
         [a EXCEPT !.got = @ \o [k \in 1 .. Copied |-> Sector[(a.off % SectorSize) + k - 1]],
                   !.result = @ + Copied, !.off = @ + Copied, !.lba = @ + 1, !.count = IF @ > 0 THEN @ - 1 ELSE 0,
                   !.drive = IF a.drive = "data" /\ a.count > 1 THEN "busy" ELSE "idle",
                   !.at = IF a.result + Copied < a.size THEN "poll" ELSE "done"]]

-----------------------------------------------------------------------------
(* The real time clock, with its seconds and minutes.  The chip raises UIP *)
(* long before it changes them: not while the driver, undisturbed, reads.  *)
Bump(c) == IF c[1] = 9 THEN <<0, (c[2] + 1) % 60>> ELSE <<c[1] + 1, c[2]>>
RaiseUIP ==
  /\ dr.kind = "rtc" /\ ~ dr.rtc.uip /\ dr.rtc.ticks < MaxTicks
  /\ dr' = [dr EXCEPT !.rtc.uip = TRUE, !.rtc.started = dr.rtc.at = "idle"]
Tick ==
  /\ dr.kind = "rtc" /\ dr.rtc.uip
  /\ dr.rtc.at # "reading" \/ dr.rtc.started \/ dr.rtc.preempted
  /\ dr' = [dr EXCEPT !.rtc.uip = FALSE, !.rtc.clock = Bump(@), !.rtc.ticks = @ + 1]
WaitUIP ==
  /\ dr.kind = "rtc" /\ dr.rtc.at = "idle" /\ ~ dr.rtc.uip
  /\ dr' = [dr EXCEPT !.rtc.at = "reading", !.rtc.began = dr.rtc.clock, !.rtc.seen = <<>>, !.rtc.preempted = FALSE]
readCMOS ==
  /\ dr.kind = "rtc" /\ dr.rtc.at = "reading" /\ Len(dr.rtc.seen) < 2
  /\ dr' = [dr EXCEPT !.rtc.seen = Append(@, dr.rtc.clock[Len(@) + 1])]
Preempt == dr.kind = "rtc" /\ dr.rtc.at = "reading" /\ ~ dr.rtc.preempted /\ dr' = [dr EXCEPT !.rtc.preempted = TRUE]
(* The chip's register holds a number, or its two decimal digits; bcd2bin  *)
(* is applied when the mode bit, which selects binary numbers, is set.     *)
bcd(v) == (v \div 10) * 16 + (v % 10)
bcd2bin(v) == (v % 16) + (v \div 16) * 10
Converted(v) == LET r == IF dr.rtc.binary THEN v ELSE bcd(v) IN IF dr.rtc.binary THEN bcd2bin(r) ELSE r
TimeRead ==
  /\ dr.kind = "rtc" /\ dr.rtc.at = "reading" /\ Len(dr.rtc.seen) = 2
  /\ dr' = [dr EXCEPT !.rtc.at = "done", !.rtc.answer = <<Converted(dr.rtc.seen[1]), Converted(dr.rtc.seen[2])>>]

-----------------------------------------------------------------------------
(* The keyboard: scan codes 42 and 170 are the left shift key pressed and  *)
(* released, 1 stands for a key with a character, 58 for one above the     *)
(* keymap.  A held shift key repeats its code.  The controller's one byte  *)
(* is read from the port; read again, it is the same byte.                 *)
Codes == {42, 1}
Strike ==
  LET k == dr.kb IN
    /\ dr.kind = "keyboard" /\ k.out = 0 /\ k.pressed < MaxKeys
    /\ \E code \in IF k.held THEN {42, 170, 1} ELSE Codes :
         dr' = [dr EXCEPT !.kb = [k EXCEPT !.out = code, !.port = code, !.pressed = @ + 1, !.codes = Append(@, code),
                                           !.held = IF code = 42 THEN TRUE ELSE IF code = 170 THEN FALSE ELSE @,
                                           !.repeated = @ \/ (code = 42 /\ k.held)]]
RaiseIRQ ==
  /\ dr.kind = "keyboard" /\ dr.kb.out # 0 /\ dr.kb.irq
  /\ dr' = [dr EXCEPT !.kb.irq = FALSE, !.kb.event = TRUE]
Drivers_interrupt ==
  /\ dr.kind = "keyboard" /\ dr.kb.event
  /\ dr' = [dr EXCEPT !.kb.event = FALSE, !.kb.pending = TRUE]
Keyboard_read ==
  LET k == dr.kb
      keycode == k.port IN
    /\ dr.kind = "keyboard" /\ k.pending
    /\ dr' = [dr EXCEPT !.kb =
         [k EXCEPT !.pending = FALSE, !.irq = TRUE, !.out = 0,
                   !.read = IF keycode = 0 THEN @ ELSE Append(@, keycode),
                   !.shiftState = IF keycode \in {42, 170} THEN 1 - @ ELSE @,
                   !.typed = IF keycode = 1 THEN Append(@, k.shiftState) ELSE @]]

-----------------------------------------------------------------------------
(* VGA: Screen bytes of 16-bit cells; a transfer starts at a cell. *)
VGA_write ==
  \E offset \in 0 .. Screen, size \in 1 .. 3, v \in {1, 2} :
    /\ dr.kind = "vga"
    /\ dr' = IF offset + size > Screen
             THEN [dr EXCEPT !.last = [offset |-> offset, size |-> size, ok |-> FALSE]]
             ELSE [dr EXCEPT !.vga = [i \in DOMAIN @ |-> IF i \in (offset \div 2) * 2 .. (offset \div 2) * 2 + size - 1 THEN v ELSE @[i]],
                             !.last = [offset |-> offset, size |-> size, ok |-> TRUE]]

Drivers_Next ==
  \/ ATA_read
  \/ Prepare
  \/ pollReady
  \/ CopySector
  \/ RaiseUIP
  \/ Tick
  \/ WaitUIP
  \/ readCMOS
  \/ Preempt
  \/ TimeRead
  \/ Strike
  \/ RaiseIRQ
  \/ Drivers_interrupt
  \/ Keyboard_read
  \/ VGA_write

-----------------------------------------------------------------------------
(* A disk read that starts at a sector and fits the count byte returns the *)
(* bytes of the disk.                                                      *)
SectorsRead ==
  dr.kind = "ata" /\ dr.ata.at = "done" /\ dr.ata.offset % SectorSize = 0 /\ dr.ata.size <= CountWrap * SectorSize
    => dr.ata.got = [k \in 1 .. dr.ata.size |-> dr.ata.offset + k - 1]
(* "Read out all requested sectors": every read does. *)
EveryRead == dr.kind = "ata" /\ dr.ata.at = "done" => dr.ata.got = [k \in 1 .. dr.ata.size |-> dr.ata.offset + k - 1]

(* The registers of the clock are one time, when the driver is not         *)
(* preempted between them.                                                 *)
TimeNotTorn ==
  dr.kind = "rtc" /\ dr.rtc.at = "done" /\ ~ dr.rtc.preempted => dr.rtc.seen = dr.rtc.began
(* "If UIP is clear, then we have >= 244 microseconds ... this is the      *)
(* reliable way to read RTC": also when it is.                             *)
EveryTimeWhole == dr.kind = "rtc" /\ dr.rtc.at = "done" => dr.rtc.seen = dr.rtc.began \/ dr.rtc.seen = dr.rtc.clock
(* "Check if the time values are stored in binary or BCD format": numbers  *)
(* come out of either.                                                     *)
TimeConverted == dr.kind = "rtc" /\ dr.rtc.at = "done" => dr.rtc.answer = dr.rtc.seen

(* A key that was pressed is seen: while its code is in the controller an  *)
(* interrupt is coming, is queued, or the next read takes it.              *)
NoLostKey == dr.kind = "keyboard" /\ dr.kb.out # 0 => dr.kb.irq \/ dr.kb.event \/ dr.kb.pending
(* Codes are read once each and in order, if no key event was pending when *)
(* the driver started: its constructor leaves the flag as memory was.      *)
KeysOnce ==
  dr.kind = "keyboard" /\ dr.kb.fresh =>
    dr.kb.codes = dr.kb.read \o (IF dr.kb.out = 0 THEN <<>> ELSE <<dr.kb.out>>)
(* The shift state is that of the shift key, if no code of it was repeated.*)
Pressed(s) == IF s = <<>> THEN 0 ELSE IF \E i \in DOMAIN s : s[i] \in {42, 170}
                THEN LET i == CHOOSE j \in DOMAIN s : s[j] \in {42, 170} /\ \A l \in j + 1 .. Len(s) : s[l] = 1
                     IN IF s[i] = 42 THEN 1 ELSE 0
                ELSE 0
ShiftRight == dr.kind = "keyboard" /\ dr.kb.fresh /\ ~ dr.kb.repeated => dr.kb.shiftState = Pressed(dr.kb.read)
(* "Update shift state": it is, whatever the keyboard sends. *)
EveryShiftRight == dr.kind = "keyboard" => dr.kb.shiftState = Pressed(dr.kb.read)
===============================================================================
