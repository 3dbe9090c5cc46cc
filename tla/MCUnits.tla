-------------------------------- MODULE MCUnits -------------------------------
(* Small instances of the libraries, of what faces the hardware, and of      *)
(* programs.  They share no state: a behaviour is one of a single unit, which *)
(* is chosen in the initial state, and st is the state of that unit.         *)
EXTENDS Integers, Sequences
VARIABLES unit, st


FmtItems == [kind : {"char"}, text : {<<1>>, <<2>>}, length : {-1}] \cup [kind : {"conversion"}, text : {<<>>, <<1>>, <<2, 1>>}, length : {-1, 0, 1, 3}] \cup [kind : {"unsupported"}, text : {<<>>}, length : {-1}]


Segment(v, o, f, n, l) == [virt |-> v, offset |-> o, file |-> f, mem |-> n, load |-> l]
Elf(s) == [type |-> "program", segments |-> s]
W(d, p) == [dash |-> d, letters |-> <<>>, parts |-> p]
L(w) == [k \in 1 .. 2 * Len(w) - 1 |-> IF k % 2 = 1 THEN w[(k + 1) \div 2] ELSE "sp"]
Lines == {L(<<"prog">>), <<"sp", "/bin/prog", "sp">>, L(<<"prog", "&">>), L(<<"none">>), L(<<"time", "prog">>), L(<<"time", "time", "prog", "&">>), L(<<"cd">>), L(<<"cd", "dir">>),
          L(<<"stdio", "in", "out">>), L(<<"write", "file", "text">>), <<>>, <<"sp">>, L(<<"#", "prog">>), L(<<"help">>), L(<<"exit">>)}

Ct == INSTANCE Containers WITH
        list <- st, List_Item <- {"a", "b"}, MaxNodes <- 4, table <- st, Key <- {"x", "y", "z"}, Val <- {1, 2},
        Hash <- [k \in {"x", "y", "z"} |-> IF k = "z" THEN 1 ELSE 0], TableSize <- 2, MaxPairs <- 3, queue <- st, Queue_Item <- {"a", "b", "c"}, Queue_N <- 4,
        vector <- st, Vector_Item <- {"a", "b"}, Sizes <- {1, 2}, MaxSize <- 4, index <- st, Object <- {"a", "b"}, Index_N <- 3
Hp == INSTANCE Heap WITH
        bitmap <- st, BitCount <- 42, MaxCalls <- 4, Ranges <- {<<0, 31>>, <<3, 3>>, <<8, 15>>, <<33, 34>>, <<32, 39>>, <<36, 50>>},
        BitArray_Requests <- {<<1, 0, 1>>, <<2, 5, 1>>, <<3, 0, 4>>, <<9, 1, 1>>, <<4, 30, 2>>}, heap <- st, PoolAllocator_Requests <- {5001, 16376},
        MaxObjects <- 3, Parents <- {[grain |-> 4, size |-> 70000], [grain |-> 131072, size |-> 400000]}
Tx == INSTANCE Strings WITH
        string <- st, DefaultSize <- 3, NumberSpace <- 4, MaxLength <- 5, LongMax <- 127, String_Numbers <- {-1, 0},
        String_Text <- {<<>>, <<"a">>, <<" ", "A", " ">>, <<"a", "\n">>, <<" ", " ", "b">>, <<"a", "b">>}, data <- st, Radix <- 2, cstring <- st,
        Strings <- UNION {[1 .. k -> {1, 2, 3}] : k \in 0 .. 2} \cup {<<1, 2, 1>>, <<1, 2, 2>>}, Size <- 8, Counts <- {0, 1, 2, 3, 5},
        Formats <- UNION {[1 .. k -> FmtItems] : k \in 0 .. 2},
        CString_Numbers <- (0 .. 70) \cup {255, 256, 257, 65535, 65536, 1000000, 32767 * 32767, 1073741823, 268435456, 536870912},
        Dates <- [year : {1970, 1971, 1972, 1999, 2000, 2001, 2023, 2037}, month : 1 .. 12, day : {1, 15, 28}, hour : {0, 23}, min : {0, 59}, sec : {0, 59}]
Tr == INSTANCE Translation WITH
        pt <- st, Contexts <- {1, 2}, SectionPages <- 2, KernelSections <- 0 .. 2, TmpStackSection <- 1, IOSections <- {2}, PrivateSection <- 3,
        UserSections <- {4}, KernelBase <- 20, NumPages <- 6, Accesses <- {{"Readable", "User"}, {"Readable", "Writable", "User"}}, MaxCalls <- 5, cache <- st,
        WordBits <- 12, Geometries <- [num_ways : 1 .. 5, num_sets : {1, 3, 4}, log2_line_len : {4, 5}]
In == INSTANCE Interrupts WITH
        intr <- st, Cores <- {"c1", "c2"}, MaxRaised <- 4, Devices <- [pit |-> {1, 10}, pic |-> {1, 10}, apic |-> {}, gic |-> {32, 114}, bcm |-> {9, 57}],
        timer <- st, ClockHz <- 500, MaxDelay <- 1, MaxPoll <- 3, CloWrap <- 8, Offsets <- {1, 15, 30}, SleepOn <- {"arm", "core"}, MaxElapsed <- 640
Ex == INSTANCE Traps WITH
        cpu <- st, Processes <- 0 .. 2, Entries <- {1}, MaxSpawns <- 2
Bo == INSTANCE Boot WITH
        boot <- st, Cores <- 0 .. 2, PerCore <- 3, SectionSize <- 8, LowMem <- 10, Entries <- 12, KernelSizes <- 1 .. 3, ImageSizes <- 1 .. 3
Em == INSTANCE Emac WITH
        emac <- st, N <- 3, MaxFrames <- 5
Ho == INSTANCE Host WITH
        hs <- st, Processes <- 1 .. 2, Creators <- {1, 2}, MaxCreates <- 2, MaxObjects <- 2
Ld == INSTANCE Loading WITH
        lz <- st, TokenMax <- 3, ByteMax <- 4, MinMatch <- 4, Literals <- {0, 1, 3, 7}, Matches <- {4, 7, 11}, Offsets <- {1, 3}, MinInput <- 27, img <- st,
        Files <- 1 .. 3, PageSize <- 4, MaxRegions <- 3, MaxImage <- 60,
        Layouts <- {Elf(<<Segment(8, 1, n, n, TRUE)>>) : n \in {1, 3, 4, 5}} \cup {Elf(<<Segment(0, 0, 1, 1, FALSE), Segment(8, 1, 3, 3, TRUE)>>)}
                   \cup {Elf(<<Segment(8, 1, 2, 2, TRUE), Segment(16, 3, 5, 5, TRUE)>>)}
                   \cup {[type |-> "data", segments |-> <<Segment(0, 0, n, n, FALSE)>>] : n \in {2, 4}} \cup {[type |-> "notelf", segments |-> <<Segment(0, 0, 2, 2, TRUE)>>]},
        su <- st, Slots <- {1, 2}, Arguments <- {<<"a", "b">>, <<"a", "", "c">>}, MaxArgs <- 3, Parents <- {0, 7}, MaxCalls <- 3
Ap == INSTANCE Applications WITH
        app <- st, MaxArgs <- 3,
        Words <- {W(2, <<n>>) : n \in {"help", "all", "debug", "a", ""}} \cup {W(2, <<"prefix", "x">>), W(2, <<"prefix", "x", "y">>)}
                 \cup {[dash |-> 1, letters |-> l, parts |-> <<"letters">>] : l \in {<<"v">>, <<"d", "a">>, <<"d", "x">>}}
                 \cup {W(0, <<"file">>), W(0, <<"help">>), W(0, <<"key", "value">>)},
        tl <- st, Randoms <- 0..3, Lengths <- {<<1, 2>>, <<2, 3>>}, MaxCount <- 3, MaxCalls <- 2,
        Programs <- {<<"Success">>, <<"Failure", "Skipped">>, <<"Skipped", "Success">>}
Pr == INSTANCE Programs WITH
        sh <- st, Scripts <- {<<a>> : a \in Lines} \cup {<<L(<<"prog", "&">>), a>> : a \in Lines}, Shell_Files <- {"/bin/prog"}, Shell_Pids <- 1 .. 2,
        Codes <- {0, 1}, MaxArgv <- 4, MaxOthers <- 1, Shell_MaxKeys <- 6, LineMax <- 3, cm <- st, Names <- <<"a", "z", "z.lz4">>,
        Arguments <- {<<"d">>, <<"d", "a">>, <<"z.lz4">>, <<"z.lz4", "d">>, <<"x", "a">>, <<"a", "z", "a">>}, LineSize <- 2, LogBufferSize <- 3, MaxChanges <- 3,
        Commands_MaxKeys <- 5, MaxText <- 3, ss <- st,
        Services <- <<[name |-> "ps2", path |-> "/dev/ps2"], [name |-> "loopback", path |-> "/network/loopback"]>>, SystemStart_Pids <- 1 .. 5, Cores <- {1},
        Networks <- {"/network/loopback"}, MaxFaults <- 1
Fs == INSTANCE Files WITH
        ft <- st, Names <- {"a", "b"}, Depth <- 2, MaxFiles <- 4, OnDisk <- {<<"a", "b">>, <<"b">>, <<"a", "b", "a">>}, fl <- st, Sizes <- {1, 3},
        Offsets <- {0, 2}, MaxSize <- 3, MaxFd <- 2, ZeroBytes <- 1, CatBuffer <- 2, Dirents <- [i \in 1 .. 3 |-> [name |-> i, type |-> i - 1]], DirentMax <- 2,
        pa <- st, Letters <- {"a", "b"}, MaxLength <- 4, MaxCwd <- 5,
        Directories <- {<< <<"a">> >>, << <<"a">>, <<"b">> >>, << <<"a">>, <<"a">> >>, << <<"b">> >>, << <<"a">>, <<"b">>, <<"a">> >>}

Init ==
  \/ unit = "CString" /\ Tx!CString_Init
  \/ unit = "List" /\ Ct!List_Init
  \/ unit = "HashTable" /\ Ct!HashTable_Init
  \/ unit = "Queue" /\ Ct!Queue_Init
  \/ unit = "Vector" /\ Ct!Vector_Init
  \/ unit = "Index" /\ Ct!Index_Init
  \/ unit = "BitArray" /\ Hp!BitArray_Init
  \/ unit = "String" /\ Tx!String_Init
  \/ unit = "PoolAllocator" /\ Hp!PoolAllocator_Init
  \/ unit = "ByteOrder" /\ Tx!ByteOrder_Init
  \/ unit = "Host" /\ Ho!Init
  \/ unit = "Emac" /\ Em!Init
  \/ unit = "Boot" /\ Bo!Init
  \/ unit = "Caches" /\ Tr!Caches_Init
  \/ unit = "Timers" /\ In!Timers_Init
  \/ unit = "Traps" /\ Ex!Init
  \/ unit = "Interrupts" /\ In!Interrupts_Init
  \/ unit = "PageTables" /\ Tr!PageTables_Init
  \/ unit = "SystemStart" /\ Pr!SystemStart_Init
  \/ unit = "Commands" /\ Pr!Commands_Init
  \/ unit = "TestLib" /\ Ap!TestLib_Init
  \/ unit = "Startup" /\ Ld!Startup_Init
  \/ unit = "Paths" /\ Fs!Paths_Init
  \/ unit = "Files" /\ Fs!Files_Init
  \/ unit = "FileTree" /\ Fs!FileTree_Init
  \/ unit = "Shell" /\ Pr!Shell_Init
  \/ unit = "Arguments" /\ Ap!Arguments_Init
  \/ unit = "BootImage" /\ Ld!BootImage_Init
  \/ unit = "Lz4" /\ Ld!Lz4_Init

Next ==
  /\ UNCHANGED unit
  /\ \/ unit = "CString" /\ Tx!CString_Next
     \/ unit = "List" /\ Ct!List_Next
     \/ unit = "HashTable" /\ Ct!HashTable_Next
     \/ unit = "Queue" /\ Ct!Queue_Next
     \/ unit = "Vector" /\ Ct!Vector_Next
     \/ unit = "Index" /\ Ct!Index_Next
     \/ unit = "BitArray" /\ Hp!BitArray_Next
     \/ unit = "String" /\ Tx!String_Next
     \/ unit = "PoolAllocator" /\ Hp!PoolAllocator_Next
     \/ unit = "ByteOrder" /\ Tx!ByteOrder_Next
     \/ unit = "Host" /\ Ho!Next
     \/ unit = "Emac" /\ Em!Next
     \/ unit = "Boot" /\ Bo!Next
     \/ unit = "Caches" /\ Tr!Caches_Next
     \/ unit = "Timers" /\ In!Timers_Next
     \/ unit = "Traps" /\ Ex!Next
     \/ unit = "Interrupts" /\ In!Interrupts_Next
     \/ unit = "PageTables" /\ Tr!PageTables_Next
     \/ unit = "SystemStart" /\ Pr!SystemStart_Next
     \/ unit = "Commands" /\ Pr!Commands_Next
     \/ unit = "TestLib" /\ Ap!TestLib_Next
     \/ unit = "Startup" /\ Ld!Startup_Next
     \/ unit = "Paths" /\ Fs!Paths_Next
     \/ unit = "Files" /\ Fs!Files_Next
     \/ unit = "FileTree" /\ Fs!FileTree_Next
     \/ unit = "Shell" /\ Pr!Shell_Next
     \/ unit = "Arguments" /\ Ap!Arguments_Next
     \/ unit = "BootImage" /\ Ld!BootImage_Next
     \/ unit = "Lz4" /\ Ld!Lz4_Next

Spec == Init /\ [][Next]_<<unit, st>>

ListLinked == unit = "List" => Ct!Linked
IterationComplete == unit = "List" => Ct!IterationComplete
TableMapsKeys == unit = "HashTable" => Ct!MapsKeys /\ Ct!IteratesPresent
RingIsFifo == unit = "Queue" => Ct!IsFifo
VectorHolds == unit = "Vector" => Ct!Holds
IndexCounts == unit = "Index" => Ct!Counts
SearchFindsFirst == unit = "BitArray" => Hp!SearchFindsFirst /\ Hp!Counted
StringTerminated == unit = "String" => Tx!Terminated
TextConverted == (unit = "String" => Tx!SplitParts) /\ (unit = "String" /\ st.count = 0 => Tx!NumberRead)
MatchesMask == unit = "String" => Tx!MatchesMask
ObjectsApart == unit = "PoolAllocator" => Hp!ObjectsApart
FieldsRead == unit = "ByteOrder" => Tx!FieldsRead
CStringsRight == unit = "CString" => Tx!Compared /\ Tx!Copied /\ Tx!Found /\ Tx!Formatted /\ Tx!Computed
ReturnsWritten == unit = "CString" => Tx!ReturnsWritten
MappedAsAsked == unit = "PageTables" => Tr!MappedAsAsked
KernelEverywhere == unit = "PageTables" => Tr!KernelEverywhere
TablesApart == unit = "PageTables" => Tr!TablesApart
NoLostInterrupt == unit = "Interrupts" => In!NoLostInterrupt
IPIHeard == unit = "Interrupts" => In!IPIHeard
ClockRuns == unit = "Interrupts" => In!ClockRuns
MaskedOnARM == unit = "Interrupts" => In!MaskedOnARM
AutoMasked == unit = "Interrupts" => In!AutoMasked
OwnRegisters == unit = "Traps" => Ex!OwnRegisters
AllRegisters == unit = "Traps" => Ex!AllRegisters
RestartsAtEntry == unit = "Traps" => Ex!RestartsAtEntry
TimersRight == unit = "Timers" => In!TimedWaits /\ In!Calibrated
WaitTimerExpires == unit = "Timers" => In!WaitTimerExpires
SleepEnds == unit = "Timers" => In!SleepEnds
CachesRight == unit = "Caches" => Tr!Coherent /\ Tr!EveryLineFlushed
BootReadsMemory == unit = "Caches" => Tr!BootReadsMemory
BootRight == unit = "Boot" => Bo!OwnInfo /\ Bo!CodeMapped /\ Bo!OneInEarlyBoot /\ Bo!MemoryMarked
WholeInfo == unit = "Boot" => Bo!WholeInfo
MPTableUsed == unit = "Boot" => Bo!MPTableUsed
EmacRight == unit = "Emac" => Em!FramesInOrder /\ Em!NoLostFrame /\ Em!BroughtUp
PacketSkipped == [][unit = "Emac" => Em!SkippedMoves]_<<unit, st>>
PhyReset == unit = "Emac" => Em!PhyReset
HostRight == unit = "Host" => Ho!SignalsHandled /\ Ho!AnnouncedUsable /\ Ho!SamePages
EveryShareAnnounced == unit = "Host" => Ho!EveryShareAnnounced
AllCleaned == unit = "Host" => Ho!AllCleaned
ReleaseReported == unit = "Host" => Ho!ReleaseReported
ReadSharesMapped == unit = "Host" => Ho!ReadSharesMapped
Decompressed == unit = "Lz4" => Ld!Decompressed
ImageRight == unit = "BootImage" => Ld!ProgramsLoaded /\ Ld!SegmentsApart
EverySegmentWritten == unit = "BootImage" => Ld!EverySegmentWritten
CommandLineRight == unit = "Arguments" => Ap!ParsedAsGiven /\ Ap!ExecutesWhatFits
UsageOnAsking == unit = "Arguments" => Ap!UsageOnAsking
ProgramsEnd == unit = "Shell" => Pr!ForegroundEnded /\ Pr!FilesClosed /\ Pr!LineAsTyped
StatusOfChild == unit = "Shell" => Pr!StatusOfChild
TreeFreed == unit = "FileTree" => Fs!FreedOnce /\ Fs!NothingDangles /\ Fs!AllFreed /\ Fs!ListedIsFound
OnlyDirectoriesEntered == unit = "FileTree" => Fs!OnlyDirectoriesEntered
EveryListedFound == unit = "FileTree" => Fs!EveryListedFound
DevicesLive == unit = "FileTree" => Fs!DevicesLive
TransfersRight == unit = "Files" => Fs!ReadsBack /\ Fs!WholeFile /\ Fs!EntriesListed
AtMostAsked == unit = "Files" => Fs!AtMostAsked
SeeksAsAsked == unit = "Files" => Fs!SeeksAsAsked
FailedWriteKeeps == unit = "Files" => Fs!FailedWriteKeeps
HolesZero == unit = "Files" => Fs!HolesZero
PathsRight == unit = "Paths" => Fs!CwdIsDirectory /\ Fs!ChdirReaches /\ Fs!PartsOfPath
EveryChdirReaches == unit = "Paths" => Fs!EveryChdirReaches
RelativeInCwd == unit = "Paths" => Fs!RelativeInCwd
CwdPlain == unit = "Paths" => Fs!CwdPlain
BaseNameGiven == unit = "Paths" => Fs!BaseNameGiven
StartedRight == unit = "Startup" => Ld!NoHalfChild /\ Ld!NothingHeld /\ Ld!ChildInherits /\ Ld!ConstructedOnHeap
FileClosed == unit = "Startup" => Ld!FileClosed
EveryArgument == unit = "Startup" => Ld!EveryArgument
EveryChildInherits == unit = "Startup" => Ld!EveryChildInherits
OneProcessInfo == unit = "Startup" => Ld!OneProcessInfo
TestsReported == unit = "TestLib" => Ap!UniqueShuffled /\ Ap!StringsDiffer /\ Ap!TotalsRight /\ Ap!TapPlan
AsManyAsAsked == unit = "TestLib" => Ap!AsManyAsAsked
UniqueDefined == unit = "TestLib" => Ap!UniqueDefined
MinimumLength == unit = "TestLib" => Ap!MinimumLength
FailureSeen == unit = "TestLib" => Ap!FailureSeen
XmlBalanced == unit = "TestLib" => Ap!XmlBalanced
CommandsRight == unit = "Commands" => Pr!EveryResult /\ Pr!ListingRight /\ Pr!LoginRight /\ Pr!LogComplete
EveryUnpacked == unit = "Commands" => Pr!EveryUnpacked
EveryOtherListed == unit = "Commands" => Pr!EveryOtherListed
PowersOff == unit = "Commands" => Pr!PowersOff
NodeType == unit = "Commands" => Pr!NodeType
OnlyTyped == unit = "Commands" => Pr!OnlyTyped
SystemUp == unit = "SystemStart" => Pr!StartsInOrder /\ Pr!InitWaits /\ Pr!MountsListed /\ Pr!DevicesShown /\ Pr!ProcessesListed
AllCoresBooted == unit = "SystemStart" => Pr!AllCoresBooted
(* Strings stay terminated and inside their buffers, numbers survive their   *)
(* text, and fields their byte order (lib/libstd, lib/libposix/string).      *)
TextRight == StringTerminated /\ TextConverted /\ CStringsRight /\ FieldsRead
(* A program is loaded whole: from the compressed file or the boot image to  *)
(* a child that starts with the heap, arguments, directory and files that it *)
(* was given, or there is no child (lib/libexec, bin/img, forkexec, rt).     *)
LoadedRight == Decompressed /\ ImageRight /\ StartedRight
(* Programs see the arguments they were started with, a shell goes on after  *)
(* the end of the program it waits for, and what they list, log and report   *)
(* is what happened, however processes come and go (lib/libapp, lib/libtest, *)
(* bin/sh and the other programs of bin).                                    *)
ProgramsRight == CommandLineRight /\ ProgramsEnd /\ CommandsRight /\ TestsReported /\ SystemUp
(* No interrupt is lost between its controller, the kernel and the process   *)
(* that enables it again, the clock goes on, timed waits last as asked, and  *)
(* a process goes on with its own registers (kernel, and the interrupt       *)
(* controllers, timers and exception tables of lib/libarch).                 *)
InterruptsRight == NoLostInterrupt /\ IPIHeard /\ ClockRuns /\ MaskedOnARM /\ TimersRight /\ OwnRegisters
(* Every core starts with its own information and mapped code, Ethernet      *)
(* frames pass the rings in order, and processes on a host share what they   *)
(* announce (lib/libarch: the boot code and host; server/network/sun8i).     *)
MachineRight == BootRight /\ EmacRight /\ HostRight
===============================================================================
