------------------------------ MODULE MCServices ------------------------------
(* Small instances of servers and of their client libraries, one of which    *)
(* runs in a behaviour.                                                       *)
EXTENDS Integers, Sequences
VARIABLES unit, st


File(n, size) == [name |-> n, dir |-> FALSE, size |-> size, files |-> <<>>]
Folder(n, files) == [name |-> n, dir |-> TRUE, size |-> 0, files |-> files]

Te == INSTANCE TerminalServer WITH
        parser <- st, Digits <- {"0", "3"}, T_NUMSIZE <- 3, TekenParser_Width <- 100, MaxBytes <- 3, MaxSequences <- 2,
        Letters <- {"A", "c", "m", "r", "s", "u", "F", "G"}, t <- st, Rows <- 3, Cols <- 3, T_NUMCOL <- 3, Tab <- 2, Counts <- {1, 2, 3}, Teken_MaxCalls <- 5,
        term <- st, Terminal_Width <- 2, Height <- 2, Chars <- {"a", "b"}, Terminal_MaxCalls <- 4
Co == INSTANCE CoreServer WITH
        core <- st, Cores <- 0..2, Clients <- {"c1", "c2"}, Capacity <- 2, Granule <- 4, MaxCalls <- 2,
        Memory <- {[size |-> s, offset |-> 1, kernel |-> 2, image |-> 3, heap |-> 1, part |-> p] : s \in {30}, p \in {0, 1}}
Mp == INSTANCE Mpi WITH
        mpi <- st, Nodes <- [r \in 1..3 |-> [ip |-> IF r < 3 THEN "a" ELSE "b", core |-> r % 2]], Capacity <- 1, IntSize <- 2, HeaderSize <- 1,
        MaximumPacketSize <- 4, MaxPackets <- 2, NumOfParallelStart <- 2, Counts <- {3}, MaxItems <- 3, MaxCalls <- 2, mp <- st, Numbers <- 1..40, Cores <- 1..3,
        Files <- {<<"core0", "core1">>, <<"core0", "core0">>, <<"#", "core1">>, <<"core1", "bad">>}, Commands <- {<<"x", "y">>, <<"", "x">>, <<"a b">>}
Ln == INSTANCE LinnFS WITH
        fs <- st, BlockCells <- 4, EntryBytes <- 2, PtrCells <- 2, InodesPerBlock <- 2, LINN_INODE_DIR_BLOCKS <- 2, BlocksPerGroup <- 64,
        LINN_CREATE_BLOCK_NUM <- 50, LINN_CREATE_INODE_NUM <- 4, Hidden <- {".h"},
        Commands <- {<<"-d", "in">>, <<"-d", "in", "-e", "a">>, <<"-v", "-i", "5", "-d", "in", "-n", "70">>, <<"-n", "130", "-i", "8", "-d", "in">>,
                    <<"-h">>, <<"-n", "1">>, <<"-i", "0">>, <<"-b", "50", "-n", "5">>, <<"-b", "50">>, <<"-d">>},
        Value <- [w \in {"0", "1", "5", "8", "50", "70", "130", "in", "a"} |->
                   CASE w = "1" -> 1 [] w = "5" -> 5 [] w = "8" -> 8 [] w = "50" -> 50 [] w = "70" -> 70 [] w = "130" -> 130 [] OTHER -> 0],
        Inputs <- {<<File("a", s), File("b", r)>> : s \in {0, 1, 4, 7, 8, 9, 13, 16, 17, 21, 24}, r \in {3, 8, 17, 24}}
                 \cup {<<File("a", 5), Folder("d", <<File("b", s), File(".h", 1)>>)>> : s \in {0, 9}}
                 \cup {<<File("a", 5), Folder("d", <<File("b", 2), File("c", 1)>>)>>}
                 \cup {<<File("a", 1), File("b", 2), File("c", s)>> : s \in {3, 5}}
Nw == INSTANCE Protocols WITH
        net <- st, Hosts <- {1, 2}, Pids <- {1, 2}, Senders <- {1}, Ports <- {300}, Payloads <- {<<<<1, 255, 2>>, <<3>>>>},
        Pings <- {[i \in 1 .. k |-> k] : k \in {19, 25}}, Texts <- {<<10, 0, 0, 257>>, <<10, 1>>}, Stale <- {0, 9}, MaxSockets <- 2, MaxPackets <- 2,
        MinFrame <- 60, MaxSize <- 66, MaxLost <- 1, MaxCalls <- 3
Np == INSTANCE NetPrograms WITH
        dhcp <- st, Servers <- {"s", "t"}, Pool <- [s |-> {1, 2}, t |-> {2}], MaximumRetries <- 2, MaxTroubles <- 2, NoAddress <- 0, NoServer <- "none",
        nc <- st, Clients <- {"a", "b"}, Programs <- {"listen", "send", "icmp", "arp", "netsend"}, MaxSockets <- 2, MaxQueue <- 2, LineSize <- 4, QueueSize <- 2,
        Counts <- {0, 3, 4}, Datagrams <- 3, Mounts <- {<<>>, <<<<"n", "0">>, <<"n", "1">>>>, <<<<"n", "0">>, <<"n", "0", "x">>>>}, Names <- {<<"n", "0">>}
Dr == INSTANCE Drivers WITH
        se <- st, Serial_Kinds <- {"PL011", "NS16550", "i8250"}, MaxChars <- 3, Sizes <- {1, 2}, dr <- st, Drivers_Kinds <- {"ata", "rtc", "keyboard", "vga"},
        SectorSize <- 4, Sectors <- 6, CountWrap <- 4, Offsets <- {0, 2, 4, 5, 28}, ReadSizes <- {1, 3, 4, 6, 16, 18}, Screen <- 6, MaxKeys <- 5, MaxTicks <- 3
Rq == INSTANCE Requests WITH
        rq <- st, Servers <- {"s", "t"}, MaximumRequests <- 2, Capacity <- 1, MaxCalls <- 3, MaxDeaths <- 2

Init ==
  \/ unit = "Requests" /\ Rq!Init
  \/ unit = "MpiPrograms" /\ Mp!MpiPrograms_Init
  \/ unit = "Drivers" /\ Dr!Drivers_Init
  \/ unit = "Serial" /\ Dr!Serial_Init
  \/ unit = "NetClient" /\ Np!NetClient_Init
  \/ unit = "DhcpClient" /\ Np!DhcpClient_Init
  \/ unit = "Protocols" /\ Nw!Init
  \/ unit = "LinnFS" /\ Ln!Init
  \/ unit = "Mpi" /\ Mp!Mpi_Init
  \/ unit = "CoreServer" /\ Co!Init
  \/ unit = "TekenParser" /\ Te!TekenParser_Init
  \/ unit = "Teken" /\ Te!Teken_Init
  \/ unit = "Terminal" /\ Te!Terminal_Init

Next ==
  /\ UNCHANGED unit
  /\ \/ unit = "Requests" /\ Rq!Next
     \/ unit = "MpiPrograms" /\ Mp!MpiPrograms_Next
     \/ unit = "Drivers" /\ Dr!Drivers_Next
     \/ unit = "Serial" /\ Dr!Serial_Next
     \/ unit = "NetClient" /\ Np!NetClient_Next
     \/ unit = "DhcpClient" /\ Np!DhcpClient_Next
     \/ unit = "Protocols" /\ Nw!Next
     \/ unit = "LinnFS" /\ Ln!Next
     \/ unit = "Mpi" /\ Mp!Mpi_Next
     \/ unit = "CoreServer" /\ Co!Next
     \/ unit = "TekenParser" /\ Te!TekenParser_Next
     \/ unit = "Teken" /\ Te!Teken_Next
     \/ unit = "Terminal" /\ Te!Terminal_Next

Spec == Init /\ [][Next]_<<unit, st>>

ArgumentsRead == unit = "TekenParser" => Te!ArgumentsRead
InWindow == unit = "Teken" => Te!InWindow
OneCursor == unit = "Terminal" => Te!OneCursor
CopyMoves == unit = "Terminal" => Te!CopyMoves
NoLostIPI == unit = "CoreServer" => Co!NoLostIPI
NoUnreadIPI == unit = "CoreServer" => Co!NoUnreadIPI
OwnReply == unit = "CoreServer" => Co!OwnReply
CoresApart == unit = "CoreServer" => Co!CoresApart
EveryRequestAnswered == unit = "CoreServer" => Co!EveryRequestAnswered
DataInOrder == unit = "Mpi" => Mp!DataInOrder
IntegersInOrder == unit = "Mpi" => Mp!IntegersInOrder
RepliesConsumed == unit = "Mpi" => Mp!RepliesConsumed
ChannelsPaired == unit = "Mpi" => Mp!ChannelsPaired
MemoryHeld == unit = "Mpi" => Mp!MemoryHeld
InodesInTable == unit = "LinnFS" => Ln!InodesInTable
HelpKnown == unit = "LinnFS" => Ln!HelpKnown
DumpSucceeds == unit = "LinnFS" => Ln!DumpSucceeds
DumpedRanges == unit = "LinnFS" => Ln!DumpedRanges
GivenMounted == unit = "LinnFS" => Ln!GivenMounted
EveryFileFound == unit = "LinnFS" => Ln!EveryFileFound
InOrigin == unit = "Teken" => Te!InOrigin
DatagramsIntact == unit = "Protocols" => Nw!DatagramsIntact
PortsLive == unit = "Protocols" => Nw!PortsLive
DatagramsVerify == unit = "Protocols" => Nw!DatagramsVerify
EchoVerifies == unit = "Protocols" => Nw!EchoVerifies
AddressLeased == unit = "DhcpClient" => Np!AddressLeased
AnsweredClientSucceeds == unit = "DhcpClient" => Np!AnsweredClientSucceeds
ClientsRight == unit = "NetClient" => Np!OwnSocket /\ Np!LineFits /\ Np!PrintsReceived /\ Np!CountSent /\ Np!ClosestDevice
ExactDevice == unit = "NetClient" => Np!ExactDevice
OwnARPAnswer == unit = "NetClient" => Np!OwnARPAnswer
SerialRight == unit = "Serial" => Dr!NoLostReader /\ Dr!InOrder /\ Dr!SetUp
WriterRetried == unit = "Serial" => Dr!WriterRetried
BaudRate == unit = "Serial" => Dr!BaudRate
DriversRight == unit = "Drivers" => Dr!SectorsRead /\ Dr!TimeNotTorn /\ Dr!NoLostKey /\ Dr!KeysOnce /\ Dr!ShiftRight
EveryRead == unit = "Drivers" => Dr!EveryRead
EveryTimeWhole == unit = "Drivers" => Dr!EveryTimeWhole
TimeConverted == unit = "Drivers" => Dr!TimeConverted
EveryShiftRight == unit = "Drivers" => Dr!EveryShiftRight
MpiProgramsRight == unit = "MpiPrograms" => Mp!AsSequential /\ Mp!EveryPong /\ Mp!RanksStarted /\ Mp!LocalWaited
AllStarted == unit = "MpiPrograms" => Mp!AllStarted
OnlyPrimes == unit = "MpiPrograms" => Mp!OnlyPrimes
WholeRange == unit = "MpiPrograms" => Mp!WholeRange
EveryLocalWaited == unit = "MpiPrograms" => Mp!EveryLocalWaited
BufferCleaned == unit = "MpiPrograms" => Mp!BufferCleaned
ArgumentsPassed == unit = "MpiPrograms" => Mp!ArgumentsPassed
RequestsRight == unit = "Requests" => Rq!OwnCallback /\ Rq!InFlightActive
CallbackEnsured == unit = "Requests" => Rq!CallbackEnsured
RefusedWhenFull == unit = "Requests" => Rq!RefusedWhenFull
(* The cores have memory of their own, a message is sent with an interrupt  *)
(* that announces it, and a client gets the reply to its own request        *)
(* (server/core/CoreServer.cpp).                                            *)
CoresRight == NoUnreadIPI /\ OwnReply /\ CoresApart
===============================================================================
