-------------------------------- MODULE Loading -------------------------------
(* How a program gets into memory: decompression, boot image, start of a process. *)
EXTENDS Integers, Sequences, FiniteSets

(***************************************************************************)
(* Lz4Decompressor: the frame header (initialize), the blocks (read) and   *)
(* the sequences of a block (decompress), one sequence a step, on frames   *)
(* that an encoder of the LZ4 format has made.  The input is a sequence of *)
(* bytes; TokenMax and ByteMax stand for the 15 and the 255 of the         *)
(* format's lengths, MinMatch for its 4.                                   *)
(***************************************************************************)
CONSTANTS TokenMax, ByteMax, MinMatch, Literals, Matches, Offsets, MinInput
VARIABLE lz

(* The header: magic (4), FLG, BD, content size (8), dictionary (4), check.  *)
Magic == 99
Le(v, width) == [i \in 1 .. width |-> IF i = 1 THEN v ELSE 0]
readLe(s, pos) == s[pos]

-----------------------------------------------------------------------------
(* The encoder: a length above TokenMax goes on in bytes up to ByteMax.      *)
RECURSIVE Extension(_)
Extension(rest) == IF rest < ByteMax THEN <<rest>> ELSE <<ByteMax>> \o Extension(rest - ByteMax)
Nibble(n) == IF n < TokenMax THEN n ELSE TokenMax
Length(n) == IF n < TokenMax THEN <<>> ELSE Extension(n - TokenMax)
Text(from, n) == [i \in 1 .. n |-> from + i]

(* A sequence: literals, then a match of len bytes from off bytes back.      *)
EncodeSeq(from, q) ==
  <<Nibble(q.lits) * (TokenMax + 1) + (IF q.len = 0 THEN 0 ELSE Nibble(q.len - MinMatch))>> \o Length(q.lits) \o Text(from, q.lits)
  \o (IF q.len = 0 THEN <<>> ELSE Le(q.off, 2) \o Length(q.len - MinMatch))
RECURSIVE Repeat(_, _, _)
Repeat(out, off, n) == IF n = 0 THEN out ELSE Repeat(Append(out, out[Len(out) + 1 - off]), off, n - 1)
RECURSIVE EncodeSeqs(_, _, _)
EncodeSeqs(from, qs, bytes) == IF qs = <<>> THEN bytes ELSE EncodeSeqs(from + Head(qs).lits, Tail(qs), bytes \o EncodeSeq(from, Head(qs)))
RECURSIVE Expand(_, _, _)
Expand(out, from, qs) ==
  IF qs = <<>> THEN out
  ELSE LET q == Head(qs) IN Expand(Repeat(out \o Text(from, q.lits), q.off, q.len), from + q.lits, Tail(qs))

(* The plan of a frame: two blocks, the second one stored as it is.          *)
Sequences1 == {<<[lits |-> l, off |-> o, len |-> m]>> : l \in Literals, o \in Offsets, m \in Matches}
Last(n) == <<[lits |-> n, off |-> 1, len |-> 0]>>
Valid(qs) == qs[1].lits >= qs[1].off
Plans == {p \in {a \o b \o Last(n) : a \in Sequences1, b \in Sequences1, n \in {1, TokenMax}} : Valid(p)}
Frame(flags, plan, stored) ==
  LET block == EncodeSeqs(0, plan, <<>>)
      check == IF flags.check THEN Le(7, 4) ELSE <<>>
  IN Le(Magic, 4) \o <<1, 4>> \o Le(0, 8) \o (IF flags.dict THEN Le(5, 4) ELSE <<>>) \o <<9>>
     \o Le(Len(block), 4) \o block \o check
     \o (IF stored = 0 THEN <<>> ELSE [Le(stored, 4) EXCEPT ![4] = 128] \o Text(100, stored) \o check)
     \o Le(0, 4)
Content(plan, stored) == Expand(<<>>, 0, plan) \o Text(100, stored)

Lz4_Init ==
  \E plan \in Plans, stored \in {0, 2}, flags \in [check : BOOLEAN, dict : BOOLEAN] :
    lz = [state |-> "initialize", input |-> Frame(flags, plan, stored), flags |-> flags, size |-> Len(Content(plan, stored)),
          want |-> Content(plan, stored), desc |-> 3, pos |-> 0, end |-> 0, start |-> 0, out |-> <<>>]

-----------------------------------------------------------------------------
(* initialize: the size of the frame descriptor depends on its flags; the    *)
(* content size must be there.                                               *)
initialize ==
  /\ lz.state = "initialize"
  /\ lz' = IF Len(lz.input) < MinInput \/ readLe(lz.input, 1) # Magic \/ lz.size = 0 THEN [lz EXCEPT !.state = "refused"]
           ELSE LET desc == 3 + 8 + (IF lz.flags.dict THEN 4 ELSE 0)
                IN [lz EXCEPT !.state = "block", !.desc = desc, !.pos = desc + 4 + 1]

(* read: the next block, until the end mark or the size asked for.           *)
read ==
  /\ lz.state = "block"
  /\ lz' = IF ~(Len(lz.out) < lz.size /\ lz.pos <= Len(lz.input)) THEN [lz EXCEPT !.state = "done"]
           ELSE LET blockSize == readLe(lz.input, lz.pos)
                    isCompressed == lz.input[lz.pos + 3] # 128
                    from == lz.pos + 4
                    after == from + blockSize + (IF lz.flags.check THEN 4 ELSE 0)
                IN IF blockSize = 0 THEN [lz EXCEPT !.state = "done"]
                   ELSE IF isCompressed THEN [lz EXCEPT !.state = "sequence", !.pos = from, !.end = from + blockSize, !.start = Len(lz.out)]
                   ELSE [lz EXCEPT !.pos = after, !.out = @ \o SubSeq(lz.input, from, from + blockSize - 1)]

(* integerDecode: the value and the number of bytes it took.                 *)
integerDecode_one_byte(initial, pos) ==
  IF initial < TokenMax THEN [value |-> initial, bytes |-> 0] ELSE [value |-> initial + lz.input[pos], bytes |-> 1]
integerDecode(initial, pos) ==
  IF initial < TokenMax THEN [value |-> initial, bytes |-> 0]
  ELSE LET stop == CHOOSE k \in pos .. Len(lz.input) : lz.input[k] < ByteMax /\ \A j \in pos .. k - 1 : lz.input[j] >= ByteMax
       IN [value |-> initial + (stop - pos) * ByteMax + lz.input[stop], bytes |-> stop - pos + 1]

(* MemoryBlock::copy goes forward byte by byte, so a match may overlap its   *)
(* own copy.                                                                 *)
RECURSIVE Copy(_, _, _)
Copy(out, from, n) == IF n = 0 THEN out ELSE Copy(Append(out, out[from]), from + 1, n - 1)

(* One sequence of decompress; the block ends after the last literals.       *)
decompress ==
  /\ lz.state = "sequence"
  /\ IF ~(lz.pos < lz.end /\ Len(lz.out) < lz.size) THEN lz' = [lz EXCEPT !.state = "block", !.pos = lz.end + (IF lz.flags.check THEN 4 ELSE 0)]
     ELSE LET token == lz.input[lz.pos]
              lits == integerDecode(token \div (TokenMax + 1), lz.pos + 1)
              text == lz.pos + 1 + lits.bytes
              out == lz.out \o SubSeq(lz.input, text, text + lits.value - 1)
              after == text + lits.value
          IN IF after >= lz.end THEN lz' = [lz EXCEPT !.pos = after, !.out = out]
             ELSE LET off == readLe(lz.input, after)
                      match == integerDecode(token % (TokenMax + 1), after + 2)
                  IN IF off > Len(out) - lz.start THEN lz' = [lz EXCEPT !.state = "assert"]
                     ELSE lz' = [lz EXCEPT !.pos = after + 2 + match.bytes, !.out = Copy(out, Len(out) - off + 1, match.value + MinMatch)]

Lz4_Next == initialize \/ read \/ decompress

-----------------------------------------------------------------------------
(* What the decompressor writes is a prefix of the original, and all of it   *)
(* when it ends: lengths at the limit of a token or of a byte, matches that  *)
(* overlap their copy, stored blocks and block checksums included.           *)
Decompressed ==
  /\ lz.state # "assert"
  /\ lz.state # "refused" => Len(lz.out) <= lz.size /\ \A i \in 1 .. Len(lz.out) : lz.out[i] = lz.want[i]
  /\ lz.state = "done" => Len(lz.out) = lz.size

-------------------------------------------------------------------------------
(***************************************************************************)
(* The boot image from the host to the kernel: BootImageCreate reads the   *)
(* programs (ELF) and data files of its configuration, lays out and writes *)
(* the image; Kernel::loadBootImage makes a process of every program and   *)
(* BootSymbolStorage reads a data file by its name.                        *)
(*                                                                         *)
(* The unit of size is a quarter page; a header or table entry takes one.  *)
(* A byte of a file is <<file, position>>; Junk is memory after the file.  *)
(***************************************************************************)
CONSTANTS Files, PageSize, MaxRegions, Layouts, MaxImage
VARIABLE img

Junk == <<0, 0>>
Zero == <<0, 1>>

(* A file of the configuration: its type and the segments of its ELF header, *)
(* each with its type, offset, size in the file and size in memory.          *)
FileSize(f) == LET ends == {s.offset + s.file : s \in {f.segments[i] : i \in 1 .. Len(f.segments)}}
               IN CHOOSE e \in ends : \A d \in ends : d <= e

BootImage_Init ==
  \E layout \in [Files -> Layouts] :
    img = [phase |-> "read", config |-> layout, num |-> MaxRegions, entries |-> <<>>, segments |-> <<>>, symbols |-> <<>>,
           file |-> <<>>, size |-> 0, at |-> 1, loaded |-> <<>>]

Byte(n, position) == IF position < FileSize(img.config[n]) THEN <<n, position>> ELSE Junk

-----------------------------------------------------------------------------
(* ELF::detect, regions: the loadable segments, at most count of them.       *)
detect(f) == f.type # "notelf"
regions(f, count) ==
  LET load == SelectSeq(f.segments, LAMBDA s : s.load) IN SubSeq(load, 1, IF Len(load) < count THEN Len(load) ELSE count)

(* readBootSymbols, one line: the number of regions asked for is the number  *)
(* the file before it had.                                                   *)
readBootSymbols ==
  /\ img.phase = "read"
  /\ LET n == Len(img.entries) + 1
         f == img.config[n]
         data == [virt |-> 0, offset |-> 0, file |-> FileSize(f), mem |-> FileSize(f), load |-> TRUE]
         found == IF f.type = "data" THEN <<data>> ELSE regions(f, img.num)
     IN img' = IF f.type # "data" /\ (~detect(f) \/ found = <<>>) THEN [img EXCEPT !.phase = "failed"]
               ELSE [img EXCEPT !.entries = Append(@, [type |-> f.type, regions |-> found]), !.num = IF f.type = "data" THEN @ ELSE Len(found),
                                !.phase = IF n = Cardinality(Files) THEN "layout" ELSE "read"]

(* The tables: the symbols, then the segments, whose data is aligned to the  *)
(* page after the segment before.  The size added is the one of the segment  *)
(* with the number of the symbol.                                            *)
NextPage_unaligned(offset) == offset
NextPage(offset) == offset + (PageSize - (offset % PageSize))
RECURSIVE Sum(_, _)
Sum(entries, n) == IF n = 0 THEN 0 ELSE Sum(entries, n - 1) + Len(entries[n].regions)
fillSymbols == [n \in 1 .. Len(img.entries) |-> [type |-> img.entries[n].type, first |-> Sum(img.entries, n - 1) + 1, count |-> Len(img.entries[n].regions)]]
Owner(symbols, k) == CHOOSE n \in 1 .. Len(symbols) : k >= symbols[n].first /\ k < symbols[n].first + symbols[n].count
RECURSIVE fillSegments(_, _, _, _)
fillSegments(symbols, k, offset, done) ==
  IF k > Sum(img.entries, Len(img.entries)) THEN [segments |-> done, size |-> offset]
  ELSE LET n == Owner(symbols, k)
           r == img.entries[n].regions[k - symbols[n].first + 1]
           filled == Append(done, [virt |-> r.virt, size |-> r.mem, offset |-> NextPage(offset)])
       IN fillSegments(symbols, k + 1, NextPage(offset) + filled[n].size, filled)

layout ==
  /\ img.phase = "layout"
  /\ LET symbols == fillSymbols
         tables == 1 + Len(symbols) + Sum(img.entries, Len(img.entries))
         filled == fillSegments(symbols, 1, tables, <<>>)
     IN img' = [img EXCEPT !.phase = "write", !.symbols = symbols, !.segments = filled.segments, !.size = filled.size,
                           !.file = [i \in 0 .. MaxImage |-> Zero]]

(* The contents, one region a step: the position is the one of the symbol's  *)
(* first segment, the length the size in memory.                             *)
writeSegment(k) == img.segments[img.symbols[Owner(img.symbols, k)].first].offset
write ==
  /\ img.phase = "write"
  /\ IF img.at > Len(img.segments) THEN img' = [img EXCEPT !.phase = "load", !.at = 1]
     ELSE LET n == Owner(img.symbols, img.at)
              r == img.entries[n].regions[img.at - img.symbols[n].first + 1]
              from == writeSegment(img.at)
          IN img' = [img EXCEPT !.at = @ + 1, !.file = [i \in DOMAIN @ |-> IF i >= from /\ i < from + r.mem THEN Byte(n, r.offset + i - from) ELSE @[i]]]

-----------------------------------------------------------------------------
(* BootImageStorage::read, from anywhere in the image.                       *)
storageRead(offset, size) == [i \in 0 .. size - 1 |-> img.file[offset + i]]

(* BootSymbolStorage: the first segment of the symbol, its capacity the sum  *)
(* of its segments.                                                          *)
loadSymbol(n) == img.symbols[n]
RECURSIVE TotalSize(_, _)
TotalSize(s, k) == IF k = s.count THEN 0 ELSE img.segments[s.first + k].size + TotalSize(s, k + 1)
symbolRead(n) == storageRead(img.segments[loadSymbol(n).first].offset, TotalSize(loadSymbol(n), 0))

(* loadBootImage and loadBootProgram: the segments of every program are read *)
(* to its memory; other symbols are passed over.                             *)
loadBootProgram(n) ==
  LET s == img.symbols[n]
  IN [k \in 1 .. s.count |-> LET g == img.segments[s.first + k - 1] IN [virt |-> g.virt, memory |-> storageRead(g.offset, g.size)]]
loadBootImage ==
  /\ img.phase = "load"
  /\ img' = IF img.at > Len(img.symbols) THEN [img EXCEPT !.phase = "run"]
            ELSE [img EXCEPT !.at = @ + 1,
                             !.loaded = Append(@, IF img.symbols[img.at].type = "program" THEN loadBootProgram(img.at)
                                                  ELSE <<[virt |-> 0, memory |-> symbolRead(img.at)]>>)]

BootImage_Next == readBootSymbols \/ layout \/ write \/ loadBootImage

-----------------------------------------------------------------------------
(* The build links a program to one loadable segment with its BSS inside.    *)
OneRegion(f) == f.type = "data" \/ (Len(SelectSeq(f.segments, LAMBDA s : s.load)) = 1 /\ \A i \in 1 .. Len(f.segments) : f.segments[i].load => f.segments[i].file = f.segments[i].mem)
Expected(n) ==
  LET f == img.config[n]
      load == SelectSeq(f.segments, LAMBDA s : s.load)
  IN IF f.type = "data" THEN <<[virt |-> 0, memory |-> [i \in 0 .. FileSize(f) - 1 |-> <<n, i>>]]>>
     ELSE [k \in 1 .. Len(load) |-> [virt |-> load[k].virt, memory |-> [i \in 0 .. load[k].mem - 1 |-> <<n, load[k].offset + i>>]]]
LoadedAsBuilt == img.phase = "run" => \A n \in Files : img.loaded[n] = Expected(n)

(* The memory of every boot program and the contents of every data file are  *)
(* those of the file the image was made from (BootImageCreate::exec,         *)
(* Kernel::loadBootProgram, BootSymbolStorage).                              *)
ProgramsLoaded == (\A n \in Files : OneRegion(img.config[n])) => LoadedAsBuilt

(* No two segments share a page, and the image holds them all.               *)
SegmentsApart ==
  (\A n \in Files : OneRegion(img.config[n])) =>
  \A j, k \in 1 .. Len(img.segments) :
    /\ img.segments[j].offset % PageSize = 0 /\ img.segments[j].offset + img.segments[j].size <= img.size
    /\ j < k => (img.segments[j].offset + img.segments[j].size - 1) \div PageSize < img.segments[k].offset \div PageSize

(* "Write the contents of the BootSegments" (BootImageCreate.cpp:293): of    *)
(* all of them, whatever the number of regions.                              *)
EverySegmentWritten == LoadedAsBuilt

-------------------------------------------------------------------------------
(***************************************************************************)
(* How a program is started: forkexec and spawn (lib/libposix/unistd) in   *)
(* the parent, _entry (lib/libruntime/Runtime.cpp) in the child, and       *)
(* ProcessClient's search for a process by name.  Every kernel call of     *)
(* forkexec and spawn may fail; the files and the memory image of programs *)
(* are abstracted to what is held and what was passed on.                  *)
(***************************************************************************)
CONSTANTS Slots,       \* process identifiers for children, from 1
          Arguments,   \* argument lists; an argument is a string
          MaxArgs,     \* ARGV_COUNT
          Parents,     \* identifiers the parent may have
          MaxCalls
VARIABLE su

NoChild == [state |-> "free", argv |-> <<>>, cwd |-> "none", fds |-> {}, args |-> <<>>, dir |-> "none", open |-> {}, heap |-> FALSE,
            ctors |-> FALSE, given |-> <<>>, at |-> "none", fromcwd |-> "none", fromfds |-> {}]
Startup_Init ==
  \E parent \in Parents :
    su = [parent |-> parent, cwd |-> "/", fds |-> {}, pc |-> "idle", argv |-> <<>>, child |-> 0, held |-> {}, ret |-> 0, calls |-> 0,
          failed |-> FALSE, unmapped |-> FALSE, kids |-> [s \in Slots |-> NoChild],
          find |-> [at |-> "idle", pid |-> 0, seen |-> 0, name |-> "none"], made |-> [s \in Slots |-> 0]]

Goto(where) == [su EXCEPT !.pc = where]
(* A kernel call: it succeeds, or, once in a behaviour, it fails. *)
Call(ok, bad) ==
  \/ su' = ok
  \/ ~ su.failed /\ su' = [bad EXCEPT !.failed = TRUE]

(* The parent changes its directory or opens and closes a file. *)
Work ==
  /\ su.pc = "idle" /\ su.calls < MaxCalls
  /\ \/ \E d \in {"/", "/tmp"} : su' = [su EXCEPT !.cwd = d, !.calls = @ + 1]
     \/ su' = [su EXCEPT !.fds = IF 0 \in @ THEN {} ELSE {0}, !.calls = @ + 1]

(* forkexec: stat and open, a buffer for the file ... *)
Failed(s) == [s EXCEPT !.pc = "idle", !.ret = 99]
Open ==
  \E argv \in Arguments :
    /\ su.pc = "idle" /\ su.calls < MaxCalls
    /\ Call([su EXCEPT !.argv = argv, !.held = @ \cup {"fd"}, !.calls = @ + 1, !.pc = "compressed", !.ret = 0],
            [Failed(su) EXCEPT !.calls = @ + 1])
MapCompressed ==
  /\ su.pc = "compressed"
  /\ Call([su EXCEPT !.held = @ \cup {"compressed"}, !.pc = "read"], [Failed(su) EXCEPT !.unmapped = TRUE])
(* ... the file is read and closed ... *)
Read ==
  /\ su.pc = "read"
  /\ Call([su EXCEPT !.held = @ \ {"fd"}, !.pc = "uncompressed"], Failed([su EXCEPT !.held = @ \ {"fd", "compressed"}]))
(* ... its program decompressed into a second buffer, the first released.  *)
MapUncompressed ==
  /\ su.pc = "uncompressed"
  /\ Call([su EXCEPT !.held = @ \cup {"uncompressed"}, !.pc = "decompress"], Failed([su EXCEPT !.held = @ \ {"compressed"}]))
Decompress ==
  /\ su.pc = "decompress"
  /\ Call([su EXCEPT !.held = @ \ {"compressed"}, !.pc = "spawn"], Failed([su EXCEPT !.held = @ \ {"compressed", "uncompressed"}]))

(* spawn: a new, stopped process ... *)
Free == {s \in Slots : su.kids[s].state = "free"}
(* The end of spawn is followed by the release of forkexec's buffer. *)
Return(s, ret) == [s EXCEPT !.pc = "release", !.ret = ret]
Killed_not(s) == Return(s, 99)
Killed(s) == Return([s EXCEPT !.kids[su.child] = NoChild], 99)
Spawn ==
  /\ su.pc = "spawn"
  /\ IF Free = {}
     THEN su' = Return(su, 99)
     ELSE LET s == CHOOSE x \in Free : \A y \in Free : x <= y IN
            Call([su EXCEPT !.child = s, !.made[s] = IF @ < 2 THEN @ + 1 ELSE @,
                            !.kids[s] = [NoChild EXCEPT !.state = "stopped", !.given = su.argv, !.fromcwd = su.cwd, !.fromfds = su.fds],
                            !.pc = "regions"],
                 Return(su, 99))
(* ... gets its regions and the pages for its arguments ... *)
Regions == su.pc = "regions" /\ Call(Goto("arguments"), Killed(su))
MapArguments == su.pc = "arguments" /\ Call(Goto("argv"), Killed(su))
(* ... the arguments, as many as have a place, the directory ... *)
Filled(argv) == SubSeq(argv, 1, IF Len(argv) < MaxArgs THEN Len(argv) ELSE MaxArgs)
CopyArguments ==
  /\ su.pc = "argv"
  /\ Call([su EXCEPT !.kids[su.child].argv = Filled(su.argv), !.kids[su.child].cwd = su.cwd, !.pc = "fds"], Killed(su))
(* ... and the file descriptors, and is resumed. *)
CopyDescriptors ==
  /\ su.pc = "fds"
  /\ Call([su EXCEPT !.kids[su.child].fds = su.fds, !.pc = "resume"], Killed(su))
Resume ==
  /\ su.pc = "resume"
  /\ Call(Return([su EXCEPT !.kids[su.child].state = "ready", !.kids[su.child].at = "entry"], su.child), Killed(su))
Release == su.pc = "release" /\ su' = [su EXCEPT !.held = @ \ {"uncompressed"}, !.pc = "idle", !.child = 0, !.argv = <<>>]

(* _entry in the child: the heap, without which it ends, the constructors, *)
(* which allocate, the directory and descriptors, unless it has no parent, *)
(* and the arguments up to the first empty one.                            *)
At(s, where) == su.kids[s].at = where /\ su.kids[s].state = "ready"
setupHeap(s) ==
  At(s, "entry") /\ Call([su EXCEPT !.kids[s].heap = TRUE, !.kids[s].at = "constructors"], [su EXCEPT !.kids[s] = NoChild])
runConstructors(s) == At(s, "constructors") /\ su' = [su EXCEPT !.kids[s].ctors = TRUE, !.kids[s].at = "mappings"]
setupMappings(s) ==
  /\ At(s, "mappings")
  /\ su' = [su EXCEPT !.kids[s].dir = IF su.parent = 0 THEN "/" ELSE su.kids[s].cwd,
                      !.kids[s].open = IF su.parent = 0 THEN {} ELSE su.kids[s].fds, !.kids[s].at = "arguments"]
Until(argv) == IF "" \in {argv[i] : i \in DOMAIN argv}
               THEN SubSeq(argv, 1, (CHOOSE i \in DOMAIN argv : argv[i] = "" /\ \A j \in 1 .. i - 1 : argv[j] # "") - 1)
               ELSE argv
entry(s) == At(s, "arguments") /\ su' = [su EXCEPT !.kids[s].args = Until(su.kids[s].argv), !.kids[s].at = "main"]
(* main returns: the destructors run and the process ends. *)
KillPID(s) == At(s, "main") /\ su' = [su EXCEPT !.kids[s] = NoChild]

(* ProcessClient::processInfo for one process: its state, then the command *)
(* from its memory.                                                        *)
InfoPID ==
  \E s \in Slots :
    /\ su.find.at = "idle" /\ su.kids[s].state # "free"
    /\ su' = [su EXCEPT !.find = [at |-> "info", pid |-> s, seen |-> su.made[s], name |-> "none"]]
ReadCommand ==
  LET s == su.find.pid IN
    /\ su.find.at = "info"
    /\ su' = IF su.kids[s].state = "free" THEN [su EXCEPT !.find.at = "failed"]
             ELSE [su EXCEPT !.find.at = "done", !.find.seen = IF su.made[s] = @ THEN 1 ELSE 0]

Startup_Next ==
  \/ Work
  \/ Open
  \/ MapCompressed
  \/ Read
  \/ MapUncompressed
  \/ Decompress
  \/ Spawn
  \/ Regions
  \/ MapArguments
  \/ CopyArguments
  \/ CopyDescriptors
  \/ Resume
  \/ Release
  \/ InfoPID
  \/ ReadCommand
  \/ \E s \in Slots :
       \/ setupHeap(s)
       \/ runConstructors(s)
       \/ setupMappings(s)
       \/ entry(s)
       \/ KillPID(s)

-----------------------------------------------------------------------------
(* When forkexec returns no half-made child is left: what failed in spawn  *)
(* killed it, and the identifier that is returned is a child's.            *)
NoHalfChild ==
  su.pc = "idle" => \A s \in Slots : su.kids[s].state # "stopped"

(* When forkexec returns its buffers are released and its file is closed,  *)
(* unless the first buffer could not be mapped.                            *)
NothingHeld == su.pc = "idle" => su.held \subseteq (IF su.unmapped THEN {"fd"} ELSE {})

(* A program runs with the directory and the descriptors its parent had    *)
(* when it called forkexec, whatever the parent has done since, and with   *)
(* its arguments, if none is empty and there is room for them.             *)
ChildInherits ==
  \A s \in Slots : LET k == su.kids[s] IN At(s, "main") =>
    /\ su.parent # 0 => k.dir = k.fromcwd /\ k.open = k.fromfds
    /\ Len(k.given) <= MaxArgs /\ (\A i \in DOMAIN k.given : k.given[i] # "") => k.args = k.given

(* Constructors run after the heap is set up and before main. *)
ConstructedOnHeap == \A s \in Slots : su.kids[s].ctors => su.kids[s].heap

(* "Close file handle": also when the image's buffer cannot be mapped. *)
FileClosed == su.pc = "idle" => su.held = {}
(* "Fill in arguments list": all of the arguments arrive. *)
EveryArgument == \A s \in Slots : At(s, "main") /\ Len(su.kids[s].given) <= MaxArgs => su.kids[s].args = su.kids[s].given
(* "Inherit file descriptors table from parent (if any)": from every one. *)
EveryChildInherits == \A s \in Slots : At(s, "main") => su.kids[s].open = su.kids[s].fromfds
(* "Read the full command": of the process whose state was read. *)
OneProcessInfo == su.find.at = "done" => su.find.seen = 1
===============================================================================
