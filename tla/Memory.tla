------------------------------- MODULE Memory -------------------------------
(***************************************************************************)
(* Physical and virtual memory of one core: the page tables of             *)
(* lib/libarch/arm behind lib/libarch/MemoryContext.cpp, the kernel calls  *)
(* VMCtl and VMCopy, the memory of a process from Process::initialize to   *)
(* ~Process, and the sequences of kernel calls by which programs share and *)
(* move pages: the heap of libruntime, forkexec() and spawn(), the direct  *)
(* mapping of a client's buffer by a file system server, the buffers of    *)
(* the datastore server, and the restart of a program by the recovery      *)
(* server.                                                                 *)
(*                                                                         *)
(* Addresses are page numbers, and page zero is ZERO.  A kernel call is    *)
(* one step; what a program does between two of them is not, so the calls  *)
(* of different programs interleave and a program can be killed between    *)
(* two of its own.  The contents of pages are left out.                    *)
(***************************************************************************)
EXTENDS Allocators, Sequences, SequencesExt

CONSTANTS
  PIDS,         \* slots of the process table, 0 .. n
  MemoryMap,    \* the regions: [virt, size] of each, in pages
  SectionPages, \* pages that one second level table maps
  DirPages,     \* pages of a first level table
  StackPages,   \* size of the user stack
  ArgsPages,    \* size of UserArgs
  NumPages,     \* physical pages of this core
  SparsePages,  \* pages that allocateSparse() allocates at a time
  HeapPages,    \* MinimumAllocationSize of PageAllocator
  HeapRequests, \* bound: the sizes that programs ask of PageAllocator
  Reserved,     \* the [page, size] that the core server reserves for another core
  Program,      \* the regions of a program image: [virt, size] of each
  MaxJobs,      \* bound: forkexec(), restarts and requests together
  MaxKills,     \* bound: processes killed
  MaxPrivate    \* bound: heap and datastore calls of programs for themselves

ASSUME MemoryAssumption ==
  /\ \A n \in {SectionPages, DirPages, StackPages, ArgsPages, SparsePages, HeapPages} : n \in Nat \ {0}
  /\ HeapPages % SparsePages = 0
  /\ \A r \in DOMAIN MemoryMap : MemoryMap[r].virt % SectionPages = 0

VARIABLES
  mem,     \* the kernel's memory: allocator, contexts, TLB
  prog,    \* each program: [state, heap, job]
  buffers, \* m_buffers of the datastore server: the page of each process
  torn,    \* history: pages whose owner released them while another context had them mapped
  budget   \* what the bounds leave

vars == <<mem, prog, buffers, torn, budget>>

ZERO == 0
NoProcess == -1
Virt == 1 .. Max({MemoryMap[r].virt + MemoryMap[r].size : r \in DOMAIN MemoryMap})
Page == 1 .. NumPages
Section(v) == v \div SectionPages
Sections == {Section(v) : v \in Virt}
Region(r) == MemoryMap[r].virt .. MemoryMap[r].virt + MemoryMap[r].size - 1
SectionsOf(r) == {Section(v) : v \in Region(r)}

(* ARMFirstTable and ARMSecondTable: the page of each second level table,   *)
(* and the page that each virtual page maps.  The sections of the kernel,   *)
(* the same in every context, are left out.                                 *)
Context == [dir : 0 .. NumPages, table : [Sections -> 0 .. NumPages], page : [Virt -> 0 .. NumPages]]
NoContext == [dir |-> ZERO, table |-> [s \in Sections |-> ZERO], page |-> [v \in Virt |-> ZERO]]

Live(m) == {p \in PIDS : m.ctx[p].dir # ZERO}

PageOf(bit) == bit + 1
BitOf(page) == page - 1

(* allocate() for a caller that reads the address, ZERO if there is none. *)
Taken(m, a) == [m |-> [m EXCEPT !.alloc = a.alloc, !.failed = @ \/ a.bit = NoBit], page |-> PageOf(a.bit)]
Allocate(m, count, boundary) == Taken(m, allocate(m.alloc, count, boundary))

Release(m, page) == [m EXCEPT !.alloc = release(@, BitOf(page))]

(* tlb_invalidate(), in the active context only. *)
Invalidate(m, p, v) == IF m.current = p THEN [m EXCEPT !.tlb = {e \in @ : e.virt # v}] ELSE m

Result(r, m) == [r |-> r, m |-> m]
Failed(r, m) == [r |-> r, m |-> [m EXCEPT !.failed = TRUE]]

(* The next of a sequence of calls that stops at the first failure. *)
AndThen(done, Op(_)) == IF done.r = "Success" THEN Op(done.m) ELSE done
EachPage(Op(_, _), m, n) ==
  FoldLeft(LAMBDA done, i : AndThen(done, LAMBDA s : Op(s, i - 1)), Result("Success", m), [i \in 1 .. n |-> i])

-----------------------------------------------------------------------------
(* ARMFirstTable::map: a second level table, if there is none yet *)
Install(a, p, s) == [a.m EXCEPT !.ctx[p].table[s] = a.page]
WithTable(m, p, s) == IF m.ctx[p].table[s] # ZERO THEN m ELSE Install(Allocate(m, 1, 1), p, s)

(* ARMSecondTable::map *)
SecondTableMap(m, p, v, page) ==
  CASE m.ctx[p].table[Section(v)] = ZERO -> Failed("OutOfMemory", m)
    [] m.ctx[p].page[v] # ZERO -> Failed("AlreadyExists", m)
    [] OTHER -> Result("Success", [m EXCEPT !.ctx[p].page[v] = page])


(* ARMPaging::map *)
map(m, p, v, page) ==
  [SecondTableMap(WithTable(m, p, Section(v)), p, v, page) EXCEPT !.m = Invalidate(@, p, v)]

(* ARMPaging::unmap: the second level table stays, and so does the page.   *)
unmap(m, p, v) ==
  IF m.ctx[p].table[Section(v)] = ZERO
  THEN Result("InvalidAddress", Invalidate(m, p, v))
  ELSE Result("Success", Invalidate([m EXCEPT !.ctx[p].page[v] = ZERO], p, v))

(* The loop of mapRangeContiguous, and unmapRange. *)
mapPages(m, p, v, page, n) == EachPage(LAMBDA s, i : map(s, p, v + i, page + i), m, n)
unmapRange(m, p, v, n) == EachPage(LAMBDA s, i : unmap(s, p, v + i), m, n)

(* MemoryContext::mapRangeContiguous of the pages in the range, or of new   *)
(* ones if there are none.                                                  *)
InRange(done, v, page) == [r |-> done.r, m |-> done.m, virt |-> v, page |-> page]
mapAllocated(a, p, v, n) ==
  InRange(IF a.page = ZERO THEN Result("OutOfMemory", a.m) ELSE mapPages(a.m, p, v, a.page, n), v, a.page)
mapRangeContiguous(m, p, v, page, n) ==
  mapAllocated(IF page = ZERO THEN Allocate(m, n, 1) ELSE [m |-> m, page |-> page], p, v, n)

(* MemoryContext::mapRangeSparseCallback: it asserts that mapping succeeds. *)
Asserted(done) ==
  IF done.r = "Success" THEN done ELSE Result("panic", [done.m EXCEPT !.panic = "mapRangeSparseCallback"])
mapRangeSparseCallback(a, p, v) ==
  IF a.page = ZERO THEN Result("OutOfMemory", a.m) ELSE Asserted(mapPages(a.m, p, v, a.page, SparsePages))

(* MemoryContext::mapRangeSparse, SplitAllocator::allocateSparse *)
mapRangeSparse(m, p, v, n) ==
  IF n > available(m.alloc) \/ n % SparsePages # 0 THEN Failed("OutOfMemory", m)
  ELSE EachPage(LAMBDA s, i : mapRangeSparseCallback(Allocate(s, SparsePages, 1), p, v + i * SparsePages),
                m, n \div SparsePages)

(* MemoryContext::findFree: the first n pages of a region that are not      *)
(* mapped, ZERO if there are none.                                          *)
findFree(m, p, n, region) ==
  LET F == {v \in Region(region) : \A w \in v .. v + n - 1 : w \in Region(region) /\ m.ctx[p].page[w] = ZERO}
  IN IF F = {} THEN ZERO ELSE Min(F)

(* ARMFirstTable::releasePhysical *)
releasePhysical(m, page) == IF isAllocated(m.alloc, BitOf(page)) THEN Release(m, page) ELSE m

(* ARMFirstTable::releaseRange: the TLB is not flushed. *)
releaseRange(m, p, v, n) ==
  EachPage(LAMBDA s, i :
             IF s.ctx[p].page[v + i] = ZERO THEN Result("InvalidAddress", s)
             ELSE Result("Success", [releasePhysical(s, s.ctx[p].page[v + i]) EXCEPT !.ctx[p].page[v + i] = ZERO]),
           m, n)

(* ARMFirstTable::releaseSection: frees the pages a region maps, unless     *)
(* tablesOnly, and its second level tables.  A table that is no longer      *)
(* allocated fails the assertion of BitAllocator::release.                  *)
releaseSection(m, p, region, tablesOnly) ==
  LET c == m.ctx[p]
      tables == {c.table[s] : s \in SectionsOf(region)} \ {ZERO}
      inTables == {v \in Virt : Section(v) \in SectionsOf(region)}
      pages == IF tablesOnly THEN {} ELSE {c.page[v] : v \in inTables} \ {ZERO}
      kept == m.alloc.set \ {BitOf(x) : x \in pages}
  IN [m EXCEPT !.alloc.set = kept \ {BitOf(x) : x \in tables},
               !.ctx[p].table = [s \in Sections |-> IF s \in SectionsOf(region) THEN ZERO ELSE @[s]],
               !.ctx[p].page = [v \in Virt |-> IF v \in inTables THEN ZERO ELSE @[v]],
               !.panic = IF {BitOf(x) : x \in tables} \subseteq kept THEN @ ELSE "release"]

-----------------------------------------------------------------------------
(* ~ARMPaging, and ~ProcessShares for the pages of the kernel event         *)
(* channel.  KernelPrivate was not released: its tables stay allocated.     *)
Dispose(m, p) ==
  LET rest == {BitOf(x) : x \in (m.ctx[p].dir .. m.ctx[p].dir + DirPages - 1) \cup m.share[p]}
  IN [m EXCEPT !.alloc.set = @ \ rest,
               !.panic = IF rest \subseteq m.alloc.set THEN @ ELSE "release",
               !.orphans = @ \cup ({m.ctx[p].table[s] : s \in SectionsOf("KernelPrivate")} \ {ZERO}),
               !.ctx[p] = NoContext,
               !.share[p] = {},
               !.tlb = IF m.current = p THEN {} ELSE @,
               !.current = IF @ = p THEN NoProcess ELSE @]

(* Process::~Process *)
UserRegions == <<"UserData", "UserHeap", "UserStack", "UserPrivate", "UserArgs">>
ReleaseRegions(m, p, regions) == FoldLeft(LAMBDA s, region : releaseSection(s, p, region, FALSE), m, regions)
(* Mutant: UserArgs is not released. *)
Destroy_no_args(m, p) ==
  Dispose(releaseSection(ReleaseRegions(m, p, SubSeq(UserRegions, 1, 4)), p, "UserShare", TRUE), p)

Destroy(m, p) == Dispose(releaseSection(ReleaseRegions(m, p, UserRegions), p, "UserShare", TRUE), p)

(* Process::initialize: the two pages of the kernel event channel.  The     *)
(* results of mapping them are ignored; if they are not mapped, no share    *)
(* records them.                                                            *)
ShareChannel(m, p, v, page) ==
  [m EXCEPT !.share[p] = IF m.ctx[p].page[v] = ZERO THEN {} ELSE {page, page + 1}]
RemapFeedback(m, p, v, page) == ShareChannel(map(unmap(m, p, v + 1).m, p, v + 1, page + 1).m, p, v, page)
MapChannel(m, p, v, page) == RemapFeedback(mapPages(m, p, v, page, 2).m, p, v, page)
initializeChannel(a, p) ==
  IF a.page = ZERO THEN Result("OutOfMemory", a.m)
  ELSE Result("Success", MapChannel(a.m, p, findFree(a.m, p, 2, "UserShare"), a.page))

(* ARMPaging::initialize *)
FirstTable(d, p) ==
  IF d.page = ZERO THEN Result("OutOfMemory", d.m)
  ELSE Result("Success", [d.m EXCEPT !.ctx[p] = [NoContext EXCEPT !.dir = d.page]])

(* ARMProcess::initialize: the first level table, the user stack, the       *)
(* kernel event channel.                                                    *)
initialize(m, p) ==
  AndThen(FirstTable(Allocate(m, DirPages, DirPages), p),
    LAMBDA s : AndThen(mapRangeContiguous(s, p, MemoryMap["UserStack"].virt, ZERO, StackPages),
      LAMBDA t : initializeChannel(Allocate(t, 2, 1), p)))

(* ProcessManager::create deletes the process again on a failure.  ~Process *)
(* uses the first level table without having one when that was what failed: *)
(* the kernel reads a table at address ZERO.                                *)
OrDelete(done, p) ==
  CASE done.r = "Success" -> done
    [] done.r # "Success" /\ done.m.ctx[p].dir = ZERO -> Result(done.r, [done.m EXCEPT !.panic = "no first table"])
    [] OTHER -> Result(done.r, Destroy(done.m, p))
create(m, p) == OrDelete(initialize(m, p), p)

-----------------------------------------------------------------------------
(* The kernel calls on memory.  A process that does not exist: NotFound.    *)

(* VMCtl(p, MapContiguous): with the address and the page in the range. *)
VMCtlMapAt(m, p, v, page, n) ==
  IF v = ZERO THEN InRange(Failed("IOError", m), ZERO, page) ELSE mapRangeContiguous(m, p, v, page, n)
VMCtlMap(m, p, v, page, n) ==
  IF p \notin Live(m) THEN InRange(Result("NotFound", m), v, page)
  ELSE VMCtlMapAt(m, p, IF v = ZERO THEN findFree(m, p, n, "UserPrivate") ELSE v, page, n)

(* VMCtl(SELF, UnMap), VMCtl(SELF, Release) and VMCtl(p, LookupVirtual):    *)
(* the page at an address, ZERO if there is none.                           *)
VMCtlUnMap(m, p, v, n) == unmapRange(m, p, v, n)
VMCtlRelease(m, p, v, n) == releaseRange(m, p, v, n)
VMCtlLookup(m, p, v) == m.ctx[p].page[v]

(* VMCtl(p, ReleaseSections) *)
VMCtlReleaseSections(m, p, region) ==
  IF p \in Live(m) THEN Result("Success", releaseSection(m, p, region, FALSE)) ELSE Result("NotFound", m)

(* One round of the loop of VMCopy: the page is mapped in KernelPrivate of  *)
(* the calling process, copied and unmapped.                                *)
CopyThrough(m, local, at, page) ==
  IF at = ZERO THEN Result("RangeError", m)
  ELSE AndThen(map(m, local, at, page), LAMBDA s : unmap(s, local, at))
VMCopyPage(m, local, page) ==
  IF page = ZERO THEN Result("AccessViolation", m)
  ELSE CopyThrough(m, local, findFree(m, local, 1, "KernelPrivate"), page)

VMCopy(m, local, p, v, n) ==
  IF p \in Live(m) THEN EachPage(LAMBDA s, i : VMCopyPage(s, local, s.ctx[p].page[v + i]), m, n) ELSE Result("NotFound", m)

-----------------------------------------------------------------------------
(* Programs.  A job is a sequence of kernel calls of one program: pc is the *)
(* next call, target the other process, i the region being copied, small    *)
(* and large the buffers of the compressed and the uncompressed image, temp *)
(* and page a mapping of the target's memory.                               *)
NoJob == [kind |-> "none", pc |-> "", target |-> NoProcess, i |-> 1,
          small |-> ZERO, large |-> ZERO, temp |-> ZERO, page |-> ZERO]
NoProgram == [state |-> "none", heap |-> 0, job |-> NoJob]

Idle(p) == prog[p].state = "ready" /\ prog[p].job = NoJob
At(p, pc) == prog[p].state = "ready" /\ prog[p].job.pc = pc
Job(p) == prog[p].job

MappedBy(m, p) == {m.ctx[p].page[v] : v \in Virt} \ {ZERO}
(* What a step released although another context has it mapped. *)
Torn(m) ==
  {x \in Page : /\ isAllocated(mem.alloc, BitOf(x))
                /\ ~isAllocated(m.alloc, BitOf(x))
                /\ \E p \in PIDS : x \in MappedBy(m, p)}

(* The kernel works for p: its context is active. *)
Kernel(p) == IF mem.current = p THEN mem ELSE [mem EXCEPT !.current = p, !.tlb = {}]

(* The outcome of a kernel call; a panic ends everything. *)
Call(done) == mem.panic = "" /\ mem' = done.m

SetJob(p, job) == prog' = [prog EXCEPT ![p].job = job]
Goto(p, pc) == SetJob(p, [Job(p) EXCEPT !.pc = pc])

(* What spawn() and reloadProgram() do on an error. *)
GiveUp(p) == IF Job(p).kind = "spawn" THEN Goto(p, "kill") ELSE SetJob(p, [Job(p) EXCEPT !.kind = "failed", !.pc = "small"])

(* A call that goes on with next, or with the error path. *)
CallThen(p, done, next) ==
  /\ Call(done)
  /\ IF done.r = "Success" THEN Goto(p, next) ELSE GiveUp(p)
  /\ UNCHANGED <<buffers, torn, budget>>

Start(p, job) ==
  /\ Idle(p) /\ mem.panic = "" /\ budget.jobs > 0
  /\ SetJob(p, job)
  /\ budget' = [budget EXCEPT !.jobs = @ - 1]
  /\ UNCHANGED <<mem, buffers, torn>>

(* forkexec() of p, and a RestartProcess message to p. *)
forkexec(p) == Start(p, [NoJob EXCEPT !.kind = "spawn", !.pc = "compressed"])
restartProcess(p, q) == q # p /\ Start(p, [NoJob EXCEPT !.kind = "restart", !.pc = "stop", !.target = q])

(* A ReadFile or WriteFile message of q to p with a page aligned buffer. *)
setMessage(p, q) == q # p /\ Start(p, [NoJob EXCEPT !.kind = "request", !.pc = "lookup", !.target = q])

(* The two buffers for the image of the program. *)
GotBuffer(p, done, job, failed) ==
  /\ Call(done)
  /\ SetJob(p, IF done.r = "Success" THEN job ELSE failed)
  /\ UNCHANGED <<buffers, torn, budget>>

GotCompressed(p, c) == GotBuffer(p, c, [Job(p) EXCEPT !.small = c.virt, !.pc = "uncompressed"], NoJob)
MapCompressed(p) == At(p, "compressed") /\ GotCompressed(p, VMCtlMap(Kernel(p), p, ZERO, ZERO, 1))

GotUncompressed(p, c) ==
  GotBuffer(p, c, [Job(p) EXCEPT !.large = c.virt, !.pc = IF Job(p).kind = "spawn" THEN "small" ELSE "UserData"],
            [Job(p) EXCEPT !.kind = "failed", !.pc = "small"])
MapUncompressed(p) == At(p, "uncompressed") /\ GotUncompressed(p, VMCtlMap(Kernel(p), p, ZERO, ZERO, 1))

(* VMCtl(SELF, Release) of one of the buffers: before spawn(), and at the   *)
(* end of a restart.                                                        *)
ReleaseCompressed(p) ==
  /\ At(p, "small") /\ Call(VMCtlRelease(Kernel(p), p, Job(p).small, 1))
  /\ IF Job(p).kind = "spawn" THEN Goto(p, "create")
     ELSE IF Job(p).large = ZERO THEN SetJob(p, NoJob) ELSE Goto(p, "large")
  /\ UNCHANGED <<buffers, torn, budget>>

ReleaseUncompressed(p) ==
  /\ At(p, "large") /\ Call(VMCtlRelease(Kernel(p), p, Job(p).large, 1))
  /\ IF Job(p).kind = "restart" THEN Goto(p, "resume") ELSE SetJob(p, NoJob)
  /\ UNCHANGED <<buffers, torn, budget>>

-----------------------------------------------------------------------------
(* ProcessCtl(ANY, Spawn); the child starts stopped. *)
FreePid == {p \in PIDS : prog[p].state = "none"}

Created(p, q, done) ==
  /\ Call(done)
  /\ prog' = IF done.r = "Success"
             THEN [prog EXCEPT ![q] = [NoProgram EXCEPT !.state = "stopped"],
                               ![p].job = [@ EXCEPT !.target = q, !.pc = "mapchild"]]
             ELSE [prog EXCEPT ![p].job.pc = "large"]
  /\ UNCHANGED <<buffers, torn, budget>>

Spawn(p) ==
  /\ At(p, "create")
  /\ \/ FreePid # {} /\ Created(p, Min(FreePid), create(Kernel(p), Min(FreePid)))
     \/ FreePid = {} /\ Created(p, p, Result("OutOfMemory", mem))

(* The loop over the regions of the program: mapped in the target, mapped   *)
(* here with the same pages, copied, unmapped here.                         *)
MappedChild(p, c) ==
  /\ Call(c)
  /\ IF c.r = "Success" THEN SetJob(p, [Job(p) EXCEPT !.page = c.page, !.pc = "mapself"]) ELSE GiveUp(p)
  /\ UNCHANGED <<buffers, torn, budget>>
MapChild(p) ==
  LET region == Program[Job(p).i]
  IN At(p, "mapchild") /\ MappedChild(p, VMCtlMap(Kernel(p), Job(p).target, region.virt, ZERO, region.size))

(* VMCtl(SELF, MapContiguous) of pages of another process, which may have   *)
(* lost them since.                                                         *)
MappedForeign(p, c, n) ==
  LET j == Job(p)
  IN /\ Call(c)
     /\ torn' = torn \cup ((j.page .. j.page + n - 1) \ MappedBy(mem, j.target))
     /\ IF c.r = "Success" THEN SetJob(p, [j EXCEPT !.temp = c.virt, !.pc = "unmap"])
        ELSE IF j.kind = "request" THEN SetJob(p, NoJob) ELSE GiveUp(p)
     /\ UNCHANGED <<buffers, budget>>

Copied(p) == IF Job(p).kind = "request" THEN 1 ELSE Program[Job(p).i].size

MapForeign(p) ==
  /\ At(p, "mapself")
  /\ MappedForeign(p, VMCtlMap(Kernel(p), p, ZERO, Job(p).page, Copied(p)), Copied(p))

AfterCopy(j) ==
  CASE j.kind = "request" -> NoJob
    [] j.kind # "request" /\ j.i < Len(Program) -> [j EXCEPT !.temp = ZERO, !.i = @ + 1, !.pc = "mapchild"]
    [] OTHER -> [j EXCEPT !.temp = ZERO, !.pc = IF j.kind = "spawn" THEN "args" ELSE "reset"]

(* Mutant: the temporary mapping stays. *)
UnmapForeign_skipped(p) ==
  /\ At(p, "unmap") /\ Call(Result("Success", mem))
  /\ SetJob(p, AfterCopy(Job(p)))
  /\ UNCHANGED <<buffers, torn, budget>>

UnmapForeign(p) ==
  /\ At(p, "unmap") /\ Call(VMCtlUnMap(Kernel(p), p, Job(p).temp, Copied(p)))
  /\ SetJob(p, AfterCopy(Job(p)))
  /\ UNCHANGED <<buffers, torn, budget>>

(* spawn(): the arguments, the file descriptors, Resume. *)
Args == MemoryMap["UserArgs"].virt
MapArgs(p) ==
  At(p, "args") /\ CallThen(p, VMCtlMap(Kernel(p), Job(p).target, Args, ZERO, ArgsPages), "copyargs")
CopyArgs(p) ==
  At(p, "copyargs") /\ CallThen(p, VMCopy(Kernel(p), p, Job(p).target, Args, 1), "copyfds")
CopyFileDescriptors(p) ==
  At(p, "copyfds") /\ CallThen(p, VMCopy(Kernel(p), p, Job(p).target, Args + 1, ArgsPages - 1), "resume")

(* ProcessCtl(pid, Resume): the last call of a restart, the last but one of *)
(* forkexec().                                                              *)
Resume(p) ==
  LET q == Job(p).target
      resumed == prog[q].state = "stopped"
  IN /\ At(p, "resume") /\ Call(Result("", Kernel(p)))
     /\ prog' = [prog EXCEPT ![q].state = IF resumed THEN "ready" ELSE @,
                             ![p].job = IF @.kind = "restart" THEN NoJob
                                        ELSE [@ EXCEPT !.pc = IF resumed THEN "large" ELSE "kill"]]
     /\ UNCHANGED <<buffers, torn, budget>>

-----------------------------------------------------------------------------
(* ProcessManager::remove of a process: what it leaves of the memory. *)
Removed(m) == Call(Result("", m)) /\ torn' = torn \cup Torn(m)

(* spawn() kills the child it could not set up. *)
KillChild(p) ==
  LET q == Job(p).target
  IN /\ At(p, "kill")
     /\ Removed(IF prog[q].state = "none" THEN Kernel(p) ELSE Destroy(Kernel(p), q))
     /\ prog' = [prog EXCEPT ![q] = NoProgram, ![p].job = [@ EXCEPT !.pc = "large", !.temp = ZERO]]
     /\ UNCHANGED <<buffers, budget>>

(* Anyone may kill a process, at any moment, and any process may exit. *)
Kill(q) ==
  /\ prog[q].state # "none" /\ budget.kills > 0
  /\ Removed(Destroy(mem, q))
  /\ prog' = [prog EXCEPT ![q] = NoProgram]
  /\ budget' = [budget EXCEPT !.kills = @ - 1]
  /\ UNCHANGED buffers

-----------------------------------------------------------------------------
(* RecoveryServer::restartProcess: Stop, and the command string. *)
Stop(p) ==
  LET q == Job(p).target
  IN /\ At(p, "stop") /\ Call(Result("", Kernel(p)))
     /\ prog' = IF prog[q].state # "none"
                THEN [prog EXCEPT ![q].state = "stopped", ![p].job.pc = "readargs"]
                ELSE [prog EXCEPT ![p].job = NoJob]
     /\ UNCHANGED <<buffers, torn, budget>>

ReadArgs(p) ==
  /\ At(p, "readargs")
  /\ LET Read(done) == GotBuffer(p, done, [Job(p) EXCEPT !.pc = "compressed"], NoJob)
     IN Read(VMCopy(Kernel(p), p, Job(p).target, Args, 1))

(* RecoveryServer::cleanupProgram: VMCtl(pid, ReleaseSections) of UserData, *)
(* UserHeap and UserPrivate.                                                *)
Cleaned(p, done, next) ==
  /\ Call(done)
  /\ torn' = torn \cup Torn(done.m)
  /\ IF done.r = "Success" THEN Goto(p, next) ELSE GiveUp(p)
  /\ UNCHANGED <<buffers, budget>>
cleanupProgram(p, region, next) ==
  At(p, region) /\ Cleaned(p, VMCtlReleaseSections(Kernel(p), Job(p).target, region), next)

(* ProcessCtl(pid, Reset): the program starts again from its entry point. *)
Reset(p) ==
  LET q == Job(p).target
  IN /\ At(p, "reset") /\ Call(Result("", Kernel(p)))
     /\ IF prog[q].state = "none" THEN GiveUp(p)
        ELSE prog' = [prog EXCEPT ![q] = [NoProgram EXCEPT !.state = "stopped"], ![p].job.pc = "small"]
     /\ UNCHANGED <<buffers, torn, budget>>

-----------------------------------------------------------------------------
(* IOBuffer::setMessage, for one page of the client's stack: LookupVirtual, *)
(* then MapContiguous of what was found.  ~IOBuffer unmaps it.              *)
LookupBuffer(p) ==
  LET page == VMCtlLookup(mem, Job(p).target, MemoryMap["UserStack"].virt)
  IN /\ At(p, "lookup") /\ Call(Result("", Kernel(p)))
     /\ SetJob(p, IF page = ZERO THEN NoJob ELSE [Job(p) EXCEPT !.page = page, !.pc = "mapself"])
     /\ UNCHANGED <<buffers, torn, budget>>

Private == budget.private > 0 /\ budget' = [budget EXCEPT !.private = @ - 1]

(* DatastoreServer::registerBuffer for p: a buffer that p registered before *)
(* is mapped again.                                                         *)
Registered(p, c) ==
  /\ Call(c)
  /\ buffers' = IF c.r = "Success" THEN [buffers EXCEPT ![p] = c.page] ELSE buffers
  /\ torn' = torn \cup ({buffers[p]} \ (MappedBy(mem, p) \cup {ZERO}))
registerBuffer(p) == Idle(p) /\ Private /\ Registered(p, VMCtlMap(mem, p, ZERO, buffers[p], 1)) /\ UNCHANGED prog

(* setupHeap(): the page of the allocators themselves.  Without it the      *)
(* program kills itself.                                                    *)
HeapSetup(p, c) ==
  IF c.r = "Success"
  THEN Call(c) /\ prog' = [prog EXCEPT ![p].heap = 1] /\ UNCHANGED torn
  ELSE Removed(Destroy(c.m, p)) /\ prog' = [prog EXCEPT ![p] = NoProgram]
setupHeap(p) ==
  /\ Idle(p) /\ prog[p].heap = 0 /\ Private
  /\ HeapSetup(p, VMCtlMap(Kernel(p), p, MemoryMap["UserHeap"].virt, ZERO, 1))
  /\ UNCHANGED buffers

(* VMCtl(SELF, ReserveMem): the pages before the first one in use stay      *)
(* reserved when it fails.                                                  *)
ReservePage(m, page) ==
  IF isAllocated(m.alloc, BitOf(page)) THEN Result("InvalidArgument", m)
  ELSE Result("Success", [m EXCEPT !.alloc = allocateAt(@, BitOf(page)), !.reserved = @ \cup {page}])
reserveMem(p) ==
  /\ Idle(p) /\ Private
  /\ Call(EachPage(LAMBDA s, i : ReservePage(s, Reserved.page + i), Kernel(p), Reserved.size))
  /\ UNCHANGED <<prog, buffers, torn>>

Aligned(n, to) == IF n % to = 0 THEN n ELSE n + to - (n % to)

(* PageAllocator::allocate *)
Grown(p, done, n) ==
  /\ Call(done)
  /\ prog' = IF done.r = "Success" THEN [prog EXCEPT ![p].heap = @ + n] ELSE prog
growHeap(p, size) ==
  LET bytes == Max({size, HeapPages})
      n == Aligned(bytes, HeapPages)
  IN /\ Idle(p) /\ prog[p].heap > 0 /\ Private
     /\ prog[p].heap + bytes < MemoryMap["UserHeap"].size
     /\ Grown(p, mapRangeSparse(Kernel(p), p, MemoryMap["UserHeap"].virt + prog[p].heap, n), n)
     /\ UNCHANGED <<buffers, torn>>

(* A program uses a page of UserPrivate: the TLB caches the translation.    *)
Touch(p, v) ==
  /\ prog[p].state = "ready" /\ mem.ctx[p].page[v] # ZERO
  /\ Call(Result("", [Kernel(p) EXCEPT !.tlb = {[virt |-> v, page |-> mem.ctx[p].page[v]]}]))
  /\ UNCHANGED <<prog, buffers, torn, budget>>

-----------------------------------------------------------------------------
Empty == [alloc |-> [size |-> NumPages, set |-> {}, last |-> 0],
          ctx |-> [p \in PIDS |-> NoContext], share |-> [p \in PIDS |-> {}],
          current |-> NoProcess, tlb |-> {}, orphans |-> {}, reserved |-> {}, failed |-> FALSE, panic |-> ""]

(* Kernel::loadBootProgram: a process with its regions and its arguments. *)
loadBootProgram(m, p) ==
  FoldLeft(LAMBDA s, r : mapRangeContiguous(s, p, r.virt, ZERO, r.size).m, create(m, p).m,
           Program \o <<[virt |-> Args, size |-> ArgsPages]>>)

Boot == Min(PIDS)

Init ==
  /\ mem = loadBootProgram(Empty, Boot)
  /\ prog = [p \in PIDS |-> IF p = Boot THEN [NoProgram EXCEPT !.state = "ready"] ELSE NoProgram]
  /\ buffers = [p \in PIDS |-> ZERO]
  /\ torn = {}
  /\ budget = [jobs |-> MaxJobs, kills |-> MaxKills, private |-> MaxPrivate]

Next ==
  \E p \in PIDS :
    \/ forkexec(p)
    \/ \E q \in PIDS : prog[q].state # "none" /\ (restartProcess(p, q) \/ setMessage(p, q))
    \/ MapCompressed(p) \/ MapUncompressed(p)
    \/ ReleaseCompressed(p) \/ ReleaseUncompressed(p)
    \/ Spawn(p)
    \/ MapChild(p) \/ MapForeign(p) \/ UnmapForeign(p)
    \/ MapArgs(p) \/ CopyArgs(p) \/ CopyFileDescriptors(p)
    \/ Resume(p) \/ KillChild(p) \/ Kill(p)
    \/ Stop(p) \/ ReadArgs(p)
    \/ cleanupProgram(p, "UserData", "UserHeap")
    \/ cleanupProgram(p, "UserHeap", "UserPrivate")
    \/ cleanupProgram(p, "UserPrivate", "mapchild")
    \/ Reset(p)
    \/ LookupBuffer(p)
    \/ registerBuffer(p) \/ reserveMem(p)
    \/ setupHeap(p)
    \/ \E size \in HeapRequests : growHeap(p, size)
    \/ \E v \in Region("UserPrivate") : Touch(p, v)

Spec == Init /\ [][Next]_vars

-----------------------------------------------------------------------------
TablesOf(p) == ({mem.ctx[p].table[s] : s \in Sections} \cup mem.ctx[p].dir .. mem.ctx[p].dir + DirPages - 1) \ {ZERO}

(* A process owns what it has mapped, unless the mapping is the temporary   *)
(* one of its job.                                                          *)
Temporary(p) ==
  LET j == Job(p)
      n == IF j.kind = "request" THEN 1 ELSE Program[j.i].size
  IN IF j.temp = ZERO THEN {} ELSE j.temp .. j.temp + n - 1
OwnedBy(p) == {mem.ctx[p].page[v] : v \in Virt \ Temporary(p)} \ {ZERO}

(* A page that a context maps is allocated, is no page table, and belongs   *)
(* to one process only: a second one maps it for the duration of a copy or  *)
(* a request (spawn(), rewriteProgram(), IOBuffer).  Pages that a kill or a *)
(* restart released in the middle of such a copy are excepted: releasing    *)
(* UserPrivate also frees what is mapped there for a while.                 *)
PagesExclusive ==
  mem.panic = "" =>
  \A p \in Live(mem) :
    /\ \A x \in MappedBy(mem, p) \ torn :
         /\ isAllocated(mem.alloc, BitOf(x))
         /\ \A q \in Live(mem) : x \notin TablesOf(q)
    /\ \A q \in Live(mem) \ {p} : OwnedBy(p) \cap OwnedBy(q) \subseteq torn

(* Until an allocation or a mapping fails, nothing is lost: what is         *)
(* allocated is a page table, is mapped, or belongs to a kernel event       *)
(* channel (~Process, VMCopy, forkexec(), the recovery server).  The tables *)
(* of KernelPrivate that VMCopy leaves behind are excepted.                 *)
ContextPagesAccounted ==
  (mem.panic = "" /\ ~mem.failed) =>
  \A x \in Page :
    isAllocated(mem.alloc, BitOf(x)) =>
      x \in torn \cup mem.orphans \cup mem.reserved \cup UNION {TablesOf(p) \cup MappedBy(mem, p) \cup mem.share[p] : p \in Live(mem)}


(* No assertion of mapRangeSparseCallback fails: whatever allocateSparse()  *)
(* allocates can be mapped.                                                 *)
SparseMapped == mem.panic # "mapRangeSparseCallback"

(* What the datastore server would map for a process that registers its     *)
(* buffer again is still the memory of that process.                        *)
BufferKept ==
  \A p \in Live(mem) :
    (buffers[p] # ZERO /\ prog[p].state = "ready") => isAllocated(mem.alloc, BitOf(buffers[p]))

(* Nobody else has a page of a context, and a context has no page that is   *)
(* free again or that nobody will free (MemoryContext.cpp, VMCtl.cpp).      *)
PagesOwned == PagesExclusive /\ ContextPagesAccounted
=============================================================================
