--------------------------------- MODULE Boot ---------------------------------
(***************************************************************************)
(* How a core reaches its kernel: the early boot code of the platforms     *)
(* (IntelBoot16.S, IntelMultiBoot.S, IntelBoot32.S, ARMBoot.S,             *)
(* ARM64Boot.S, kernel_main), the discovery of the cores (IntelACPI,       *)
(* IntelMP, SunxiCpuConfig), and the hand-over of a CoreInfo from the      *)
(* CoreServer of core 0 to the core it starts.                             *)
(*                                                                         *)
(* Every core owns PerCore sections of 4MB; a section is SectionSize half  *)
(* pages, the unit of the sizes.  A CoreInfo is three words, its base, its *)
(* other fields and its tail (heapSize and timerCounter), each worth the   *)
(* core it was made for, and the booted flag.                              *)
(***************************************************************************)
EXTENDS Integers, Sequences, FiniteSets
CONSTANTS Cores, PerCore, SectionSize, LowMem, Entries, KernelSizes, ImageSizes
VARIABLE boot

Page == 2
HeapSize == Page
ChannelSize == Page
KernelOffset == Page
Nothing == Cardinality(Cores)
Others == Cores \ {0}
Info(n) == [words |-> <<n, n, n>>, booted |-> FALSE]
NoInfo == [words |-> <<Nothing, Nothing, 0>>, booted |-> FALSE]
Base(n) == n * PerCore

(* COREINFO_SIZE is 128 bytes: the copy stops before the tail.               *)
CopiedWords == 2

-----------------------------------------------------------------------------
(* The state of a core: where it is, the base it read, its kernel's          *)
(* coreInfo, its page directory (sections of physical memory, NoEntry for   *)
(* no mapping) and the half pages its kernel has marked used.                *)
NoEntry == -1
Off == [pc |-> "off", base |-> 0, words |-> NoInfo.words, dir |-> [i \in 0 .. Entries - 1 |-> NoEntry], used |-> {}]

Init ==
  \E plat \in {"intel", "sunxi", "raspberry", "raspberry3"}, ks \in KernelSizes, is \in ImageSizes,
     acpi \in BOOLEAN, mp \in {"none", "bios", "last"} :
    /\ plat # "intel" => (acpi /\ mp = "none")
    /\ boot = [plat |-> plat, kernel |-> ks, image |-> is, acpi |-> acpi, mp |-> mp,
               server |-> "off", cores |-> <<>>, shared |-> NoInfo, rel |-> [n \in Cores |-> NoInfo],
               core |-> [n \in Cores |-> [Off EXCEPT !.pc = IF n = 0 \/ plat \in {"raspberry", "raspberry3"} THEN "reset" ELSE "off"]]]

Goto(n, pc) == boot' = [boot EXCEPT !.core[n].pc = pc]

-----------------------------------------------------------------------------
(* The entry of the kernel.  ARMBoot.S with SMP_WAIT and ARM64Boot.S keep    *)
(* the cores other than the first in a loop; the levels above (hypervisor,   *)
(* EL3 and EL2) are left for the one the kernel runs at.                     *)
ParkedLoop(n) == boot.plat \in {"raspberry", "raspberry3"} /\ n # 0
ARMBoot(n, mode) ==
  /\ boot.plat \in {"sunxi", "raspberry"} /\ mode \in {"svc", "hyp"}
  /\ Goto(n, IF ParkedLoop(n) THEN "parked" ELSE "main")
ARM64Boot(n, level) ==
  /\ boot.plat = "raspberry3" /\ level \in {"el3", "el2", "el1"}
  /\ Goto(n, IF ParkedLoop(n) THEN "parked" ELSE "main")

(* IntelMultiBoot.S: the boot core has the magic of the boot loader, fills   *)
(* its coreInfo; the others have the address of theirs.                      *)
multibootEntry(n) ==
  boot' = IF n = 0 THEN [boot EXCEPT !.core[0] = [@ EXCEPT !.pc = "copy", !.base = Base(0), !.words = Info(0).words]]
          ELSE [boot EXCEPT !.core[n].pc = "useCoreInfo"]

reset(n) ==
  /\ boot.core[n].pc = "reset"
  /\ \/ \E mode \in {"svc", "hyp"} : ARMBoot(n, mode)
     \/ \E level \in {"el3", "el2", "el1"} : ARM64Boot(n, level)
     \/ boot.plat = "intel" /\ multibootEntry(n)

(* IntelBoot16.S: real mode, then mode32 reads the base and the entry point. *)
bootEntry16(n) == boot.core[n].pc = "mode16" /\ Goto(n, "mode32")
mode32(n) ==
  /\ boot.core[n].pc = "mode32"
  /\ boot' = [boot EXCEPT !.core[n] = [@ EXCEPT !.pc = "reset", !.base = Base(boot.shared.words[1])]]
useCoreInfo(n) ==
  /\ boot.core[n].pc = "useCoreInfo"
  /\ boot' = [boot EXCEPT !.core[n] = [@ EXCEPT !.pc = "entry32", !.base = Base(boot.shared.words[1])]]

(* IntelBoot32.S: the base is read, then the words are copied one by one,    *)
(* then the booted flag is raised.  Core 0 copies its coreInfo to itself.    *)
bootEntry32_flag_first(n) ==
  \/ /\ boot.core[n].pc = "entry32"
     /\ boot' = [boot EXCEPT !.core[n] = [@ EXCEPT !.pc = "copy", !.base = Base(boot.shared.words[1])], !.shared.booted = TRUE]
  \/ /\ boot.core[n].pc = "copy"
     /\ boot' = [boot EXCEPT !.core[n] = [@ EXCEPT !.pc = "copy2", !.words[1] = IF n = 0 THEN @ ELSE boot.shared.words[1]]]
  \/ /\ boot.core[n].pc = "copy2"
     /\ boot' = [boot EXCEPT !.core[n] = [@ EXCEPT !.pc = "booted", !.words[2] = IF n = 0 THEN @ ELSE boot.shared.words[2]]]
  \/ boot.core[n].pc = "booted" /\ Goto(n, "dir")
bootEntry32(n) ==
  \/ /\ boot.core[n].pc = "entry32"
     /\ boot' = [boot EXCEPT !.core[n] = [@ EXCEPT !.pc = "copy", !.base = Base(boot.shared.words[1])]]
  \/ /\ boot.core[n].pc = "copy"
     /\ boot' = [boot EXCEPT !.core[n] = [@ EXCEPT !.pc = "copy2", !.words[1] = IF n = 0 THEN @ ELSE boot.shared.words[1]]]
  \/ /\ boot.core[n].pc = "copy2"
     /\ boot' = [boot EXCEPT !.core[n] = [@ EXCEPT !.pc = "booted", !.words[2] = IF n = 0 THEN @ ELSE boot.shared.words[2]]]
  \/ /\ boot.core[n].pc = "booted"
     /\ boot' = [boot EXCEPT !.core[n].pc = "dir", !.shared.booted = IF n = 0 THEN @ ELSE TRUE]

(* The linear mapping of the low memory, and the identity mapping of the     *)
(* section that runs; bootEntry32 is in the first section of the kernel.     *)
setupKernelDir(base) == [i \in 0 .. Entries - 1 |-> IF i < LowMem THEN base + i ELSE NoEntry]
tmpIdMap(n) ==
  LET base == boot.core[n].base
  IN /\ boot.core[n].pc = "dir"
     /\ boot' = [boot EXCEPT !.core[n] = [@ EXCEPT !.pc = "paged", !.dir = [setupKernelDir(base) EXCEPT ![base] = base]]]
jump(n) == boot.core[n].pc = "paged" /\ Goto(n, "high")
remapped(n) ==
  LET base == boot.core[n].base
  IN /\ boot.core[n].pc = "high"
     /\ boot' = [boot EXCEPT !.core[n] = [@ EXCEPT !.pc = "main", !.dir = [@ EXCEPT ![base] = @ + base]]]

-----------------------------------------------------------------------------
(* kernel_main of the Sunxi: the early page tables from the base of memory,  *)
(* then coreInfo.  A secondary core reads the base with the MMU off, from    *)
(* the shared CoreInfo, and coreInfo with it on, from its own memory.        *)
kernel_main_sunxi(n) ==
  /\ boot.plat = "sunxi"
  /\ \/ /\ boot.core[n].pc = "main"
        /\ LET base == IF n = 0 THEN 0 ELSE Base(boot.shared.words[1])
           IN boot' = [boot EXCEPT !.core[n] = [@ EXCEPT !.pc = "mmu", !.base = base, !.dir = setupKernelDir(base)]]
     \/ /\ boot.core[n].pc = "mmu"
        /\ boot' = [boot EXCEPT !.core[n] = [@ EXCEPT !.pc = "heap",
                      !.words = IF n = 0 THEN Info(0).words ELSE boot.rel[boot.core[n].base \div PerCore].words]]

(* Core 0 of the Raspberry Pi fills coreInfo with the MMU off.               *)
kernel_main_raspberry(n) ==
  /\ boot.plat \in {"raspberry", "raspberry3"} /\ boot.core[n].pc = "main"
  /\ boot' = [boot EXCEPT !.core[n] = [@ EXCEPT !.pc = "heap", !.base = 0, !.words = Info(0).words, !.dir = setupKernelDir(0)]]
kernel_main_intel(n) == boot.plat = "intel" /\ boot.core[n].pc = "main" /\ Goto(n, "heap")

(* The layout of a core, in half pages: CoreServer::prepareCoreInfo for the  *)
(* others, the linker script and the boot loader for the first.              *)
AfterPage(address, size) == address + size + (Page - (size % Page))
MemoryStart(n) == Base(n) * SectionSize
KernelStart(n) == MemoryStart(n) + KernelOffset
ImageStart(n) == AfterPage(KernelStart(n), boot.kernel)

(* Kernel::initializeHeap computes the heap again.                           *)
initializeHeap(n) == AfterPage(ImageStart(n), boot.image)
ChannelStart(n) == AfterPage(AfterPage(ImageStart(n), boot.image), HeapSize)

(* The constructor of the kernel marks whole pages, from the start of every  *)
(* region; the assertions stop it when the regions overlap.                  *)
PageOf(a) == {a - (a % Page), a - (a % Page) + 1}
Marked(start, size) == UNION {PageOf(start + Page * i) : i \in 0 .. ((size + Page - 1) \div Page) - 1}
KernelAsserts(n) ==
  /\ KernelStart(n) >= MemoryStart(n)
  /\ ImageStart(n) >= KernelStart(n) + boot.kernel
  /\ initializeHeap(n) >= ImageStart(n) + boot.image
  /\ n # 0 => ChannelStart(n) >= initializeHeap(n) + HeapSize
Kernel(n) ==
  LET own == boot.core[n].words[1]
  IN /\ boot.core[n].pc = "heap" /\ own # Nothing
     /\ boot' = [boot EXCEPT !.core[n] = [@ EXCEPT !.pc = IF KernelAsserts(own) THEN "running" ELSE "halted",
                   !.used = Marked(KernelStart(own), boot.kernel) \cup Marked(ImageStart(own), boot.image)
                            \cup Marked(initializeHeap(own), HeapSize) \cup (IF n = 0 THEN {} ELSE Marked(ChannelStart(own), ChannelSize))
                            \cup (IF boot.plat = "intel" THEN Marked(MemoryStart(own), KernelOffset) ELSE {})],
                 !.server = IF n = 0 /\ KernelAsserts(own) /\ boot.plat \in {"intel", "sunxi"} THEN "discover" ELSE @]

-----------------------------------------------------------------------------
(* IntelACPI: without a root pointer the scan ends at its last address,      *)
(* which is no table: initialize and discover succeed and find no core.      *)
Sorted == [i \in 1 .. Cardinality(Cores) |-> i - 1]
IntelACPI == [result |-> "Success", cores |-> IF boot.acpi THEN Sorted ELSE <<>>]
IntelMP == [result |-> IF boot.mp = "none" THEN "NotFound" ELSE "Success", cores |-> IF boot.mp = "none" THEN <<>> ELSE Sorted]
IntelDiscover == IF IntelACPI.result = "Success" THEN IntelACPI ELSE IntelMP
SunxiDiscover == [result |-> "Success", cores |-> Sorted]

(* discoverCores, and prepareCoreInfo's test that there are cores.           *)
discoverCores ==
  /\ boot.server = "discover"
  /\ LET found == IF boot.plat = "intel" THEN IntelDiscover ELSE SunxiDiscover
     IN boot' = [boot EXCEPT !.server = IF found.result # "Success" \/ found.cores = <<>> THEN "failed" ELSE "prepare",
                             !.cores = SelectSeq(found.cores, LAMBDA n : n # 0)]

(* prepareCore copies the kernel and the boot image into the core's memory.  *)
prepareCore ==
  /\ boot.server = "prepare"
  /\ boot' = [boot EXCEPT !.server = IF boot.cores = <<>> THEN "done" ELSE "copy"]

(* IntelMP::boot and SunxiCoreServer::bootCore: the CoreInfo is written,     *)
(* the core is started, and its booted flag is read until it is raised.      *)
bootCore ==
  LET n == Head(boot.cores)
  IN /\ boot.server = "copy"
     /\ boot' = IF boot.plat = "intel" THEN [boot EXCEPT !.server = "init", !.shared = Info(n)]
                ELSE [boot EXCEPT !.server = "init", !.shared = Info(n), !.rel[n] = Info(n)]

(* sendStartupIPI: INIT, then two STARTUP, the second one ignored by a core  *)
(* that already left its wait.                                               *)
sendStartupIPI ==
  LET n == Head(boot.cores)
      started(pc) == IF pc = "wait" THEN "mode16" ELSE pc
  IN /\ boot.plat = "intel"
     /\ \/ boot.server = "init" /\ boot' = [boot EXCEPT !.server = "sipi", !.core[n].pc = "wait"]
        \/ boot.server = "sipi" /\ boot' = [boot EXCEPT !.server = "sipi2", !.core[n].pc = started(@)]
        \/ boot.server = "sipi2" /\ boot' = [boot EXCEPT !.server = "poll", !.core[n].pc = started(@)]

(* SunxiCpuConfig::boot: the core is held in reset, powered and released.    *)
SunxiBoot ==
  LET n == Head(boot.cores)
  IN /\ boot.plat = "sunxi"
     /\ \/ boot.server = "init" /\ boot' = [boot EXCEPT !.server = "power", !.core[n].pc = "held"]
        \/ boot.server = "power" /\ boot' = [boot EXCEPT !.server = "poll", !.core[n].pc = "reset"]

poll ==
  /\ boot.server = "poll"
  /\ IF boot.plat = "intel" THEN boot.shared.booted ELSE boot.rel[Head(boot.cores)].booted
  /\ boot' = [boot EXCEPT !.cores = Tail(@), !.server = "prepare"]

(* SunxiCoreServer::initialize on a secondary core raises the flag in the    *)
(* CoreInfo of its own memory, when its processes run.                       *)
SunxiInitialize(n) ==
  /\ boot.plat = "sunxi" /\ n # 0 /\ boot.core[n].pc = "running"
  /\ boot' = [boot EXCEPT !.core[n].pc = "server", !.rel[boot.core[n].base \div PerCore].booted = TRUE]

Next ==
  \/ \E n \in Cores : \/ reset(n) \/ bootEntry16(n) \/ mode32(n) \/ useCoreInfo(n) \/ bootEntry32(n) \/ tmpIdMap(n) \/ jump(n) \/ remapped(n)
                      \/ kernel_main_sunxi(n) \/ kernel_main_raspberry(n) \/ kernel_main_intel(n) \/ Kernel(n) \/ SunxiInitialize(n)
  \/ discoverCores \/ prepareCore \/ bootCore \/ sendStartupIPI \/ SunxiBoot \/ poll

-----------------------------------------------------------------------------
Started(n) == boot.core[n].pc \in {"heap", "running", "server"}

(* A core enters its kernel with the CoreInfo made for it: the server does   *)
(* not write the next one before it is copied (bootEntry32, IntelMP::boot).  *)
OwnInfo == \A n \in Cores : Started(n) => boot.core[n].base = Base(n) /\ \A w \in 1 .. CopiedWords : boot.core[n].words[w] = n

(* The code that runs is mapped where it runs, and the kernel runs on the    *)
(* linear mapping of its own memory alone (setupKernelDir to remapped).      *)
CodeMapped ==
  \A n \in Cores : LET c == boot.core[n] IN
    /\ c.pc = "paged" => c.dir[c.base] = c.base
    /\ c.pc = "high" => c.dir[0] = c.base
    /\ Started(n) => c.dir = setupKernelDir(c.base)

(* At most one core runs on the temporary page directory of the first core's *)
(* image, and only the first passes the parking loop (kernel_main).          *)
OneInEarlyBoot ==
  /\ Cardinality({n \in Others : boot.core[n].pc \in {"mode16", "mode32", "entry32", "copy", "copy2", "mmu"}}) <= 1
  /\ boot.plat \in {"raspberry", "raspberry3"} => \A n \in Others : boot.core[n].pc \in {"reset", "parked"}

(* What the kernel runs on is marked used and is inside the core's memory,   *)
(* and its assertions hold (Kernel::Kernel, initializeHeap, prepareCoreInfo).*)
Bytes(n) == (KernelStart(n) .. KernelStart(n) + boot.kernel - 1) \cup (ImageStart(n) .. ImageStart(n) + boot.image - 1)
            \cup (initializeHeap(n) .. initializeHeap(n) + HeapSize - 1)
            \cup (IF n = 0 THEN {} ELSE ChannelStart(n) .. ChannelStart(n) + ChannelSize - 1)
MemoryMarked ==
  \A n \in Cores : /\ boot.core[n].pc # "halted"
                   /\ boot.core[n].pc \in {"running", "server"} =>
                        /\ Bytes(n) \subseteq boot.core[n].used
                        /\ boot.core[n].used \subseteq MemoryStart(n) .. MemoryStart(n + 1) - 1

(* "Copy CoreInfo struct to kernel" (IntelBoot32.S:79): all of it.           *)
WholeInfo == \A n \in Cores : Started(n) => boot.core[n].words = Info(n).words

(* "using MPTable as CoreManager" (IntelCoreServer.cpp:74): without ACPI the *)
(* cores of the MP table are found.                                          *)
MPTableUsed == (boot.server = "failed") => boot.mp = "none"
=============================================================================
