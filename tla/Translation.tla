------------------------------ MODULE Translation -----------------------------
(* Page tables and caches. *)
EXTENDS FiniteSets, FiniteSetsExt, Integers

(***************************************************************************)
(* The page tables of lib/libarch for Intel, ARM and ARM64, down to the    *)
(* bits of their entries, with several memory contexts alive at once.      *)
(* Process addresses, kernel sections, the I/O zone and the temporary      *)
(* stack keep their places; a section has SectionPages pages.  On Intel a  *)
(* new context inherits the entries of the active one.                     *)
(*                                                                         *)
(* An entry is a page number and a set of bit numbers.  Addresses are page *)
(* numbers.  The allocator is the first free page of its range.            *)
(***************************************************************************)

CONSTANTS
  Contexts,        \* memory contexts, numbered from 1
  SectionPages,    \* pages of a section, and entries of a second level table
  KernelSections,  \* sections of KernelData
  TmpStackSection, \* the section of the temporary stack
  IOSections,      \* sections of the I/O zone
  PrivateSection,  \* KernelPrivate
  UserSections,    \* sections of a process
  KernelBase,      \* coreInfo.memory.phys: the first page of this core
  NumPages,        \* pages that the allocator has
  Accesses,        \* the access flags that callers ask for
  MaxCalls         \* bound: calls

VARIABLE pt

Boot == 0
Sections == KernelSections \cup {PrivateSection} \cup UserSections
Idx == 0 .. SectionPages - 1
Section(v) == v \div SectionPages
Virt == {s * SectionPages + i : s \in Sections, i \in Idx}
UserVirt == {v \in Virt : Section(v) \in UserSections}

(* The pages of the allocator, and the first of the core that follows. *)
Pages == KernelBase .. KernelBase + NumPages - 1
NextCore == KernelBase + NumPages

Entry(page, bits) == [page |-> page, bits |-> bits]
PageTables_None == Entry(0, {})
NoTable == [i \in Idx |-> PageTables_None]
NoDirectory == [s \in Sections |-> PageTables_None]

-----------------------------------------------------------------------------
(* Permission bits. *)
IntelPresent == 0
IntelWrite == 1
IntelUser == 2
IntelSection == 7
IntelFlags(access) ==
  (IF "Writable" \in access THEN {IntelWrite} ELSE {}) \cup (IF "User" \in access THEN {IntelUser} ELSE {})

ARMDeviceShared == {2}
ARMUncached(tex) == {tex}
ARMWriteback(tex) == {tex, 3, 2}
ARMFlags(access, sys, noexec, user, apx, tex) ==
  {sys}
  \cup (IF "Executable" \in access THEN {} ELSE {noexec})
  \cup (IF "User" \in access THEN {user} ELSE {})
  \cup (IF "Writable" \in access THEN {} ELSE {apx})
  \cup (CASE "Device" \in access -> ARMDeviceShared
          [] "Uncached" \in access /\ "Device" \notin access -> ARMUncached(tex)
          [] OTHER -> ARMWriteback(tex))

(* ARMFirstTable::flags, of a section, and ARMSecondTable::flags, of a page. *)
ARMFirstFlags(access) == ARMFlags(access, 10, 4, 11, 15, 12)
ARMSecondFlags(access) == ARMFlags(access, 4, 0, 5, 9, 6)

(* ARM64: flags() returns a u32, which has no room for PT_NX, bit 54.       *)
ARM64NX == 54
ARM64Flags64(access) ==
  {10} \cup (IF "Executable" \in access THEN {} ELSE {ARM64NX})
  \cup (IF "User" \in access THEN {6} ELSE {})
  \cup (IF "Writable" \in access THEN {} ELSE {7})
  \cup (IF "Device" \in access THEN {9, 2} ELSE {9, 8, 3})
ARM64Flags(access) == {b \in ARM64Flags64(access) : b < 32}

-----------------------------------------------------------------------------
(* What an entry of the first level is, by architecture. *)
IsTable(arch, e) == IF arch = "arm64" THEN {0, 1} \subseteq e.bits ELSE 0 \in e.bits
IsSection(arch, e) ==
  CASE arch = "intel" -> IntelSection \in e.bits
    [] arch = "arm" -> 1 \in e.bits
    [] arch = "arm64" -> 0 \in e.bits /\ 1 \notin e.bits
(* What an entry of the second level is. *)
IsPage(arch, e) ==
  CASE arch = "intel" -> IntelPresent \in e.bits
    [] arch = "arm" -> 1 \in e.bits
    [] arch = "arm64" -> {0, 1} \subseteq e.bits

(* getPageTable() and getSecondTable(): the page of the table, 0 if none. *)
SecondTable(s, c, v) ==
  IF IsTable(s.arch, s.first[c][Section(v)]) THEN s.first[c][Section(v)].page ELSE 0
Leaf(s, table, v) == s.second[table][v % SectionPages]

Result(r, s) == [r |-> r, s |-> s]

(* The second level's map(). *)
MapPage(s, table, v, page, bits) ==
  IF IsPage(s.arch, Leaf(s, table, v)) THEN Result("AlreadyExists", s)
  ELSE Result("Success", [s EXCEPT !.second[table][v % SectionPages] = Entry(page, bits)])

(* A new, empty table in the first level. *)
Free(s) == Pages \ s.used
NewTable(s, c, v, table, bits) ==
  [s EXCEPT !.used = @ \cup {table}, !.second[table] = NoTable, !.first[c][Section(v)] = Entry(table, bits)]

(* The first level's map(): Intel's does not look for a section. *)
MapIn(s, c, v, page, tableBits, pageBits, rejectsSection) ==
  CASE SecondTable(s, c, v) # 0 -> MapPage(s, SecondTable(s, c, v), v, page, pageBits)
    [] SecondTable(s, c, v) = 0 /\ rejectsSection /\ IsSection(s.arch, s.first[c][Section(v)]) ->
         Result("AlreadyExists", s)
    [] SecondTable(s, c, v) = 0 /\ Free(s) = {} -> Result("OutOfMemory", s)
    [] OTHER -> MapPage(NewTable(s, c, v, Min(Free(s)), tableBits), Min(Free(s)), v, page, pageBits)

(* Mutant: the entry of the directory has no permissions of its own. *)
IntelMap_kernel_table(s, c, v, page, access) ==
  MapIn(s, c, v, page, {IntelPresent, IntelWrite}, {IntelPresent} \cup IntelFlags(access), FALSE)

IntelMap(s, c, v, page, access) ==
  MapIn(s, c, v, page, {IntelPresent, IntelWrite} \cup IntelFlags(access),
        {IntelPresent} \cup IntelFlags(access), FALSE)
ARMMap(s, c, v, page, access) == MapIn(s, c, v, page, {0}, {1} \cup ARMSecondFlags(access), TRUE)
ARM64Map(s, c, v, page, access) == MapIn(s, c, v, page, {0, 1}, {0, 1} \cup ARM64Flags(access), TRUE)
PageTables_map(s, c, v, page, access) ==
  CASE s.arch = "intel" -> IntelMap(s, c, v, page, access)
    [] s.arch = "arm" -> ARMMap(s, c, v, page, access)
    [] s.arch = "arm64" -> ARM64Map(s, c, v, page, access)

(* unmap(): of a page, or on ARM of the whole section around the address. *)
UnmapPage(s, table, v) == [s EXCEPT !.second[table][v % SectionPages] = PageTables_None]
IntelUnmap(s, c, v) ==
  IF SecondTable(s, c, v) = 0 THEN Result("InvalidAddress", s)
  ELSE Result("Success", UnmapPage(s, SecondTable(s, c, v), v))
ARMUnmap(s, c, v) ==
  CASE SecondTable(s, c, v) # 0 -> Result("Success", UnmapPage(s, SecondTable(s, c, v), v))
    [] SecondTable(s, c, v) = 0 /\ IsSection(s.arch, s.first[c][Section(v)]) ->
         Result("Success", [s EXCEPT !.first[c][Section(v)] = PageTables_None])
    [] OTHER -> Result("InvalidAddress", s)
unmap(s, c, v) == IF s.arch = "intel" THEN IntelUnmap(s, c, v) ELSE ARMUnmap(s, c, v)

(* lookup(): the page that an address translates to, 0 if none. *)
translate(s, c, v) ==
  LET e == s.first[c][Section(v)]
      table == SecondTable(s, c, v)
  IN CASE table # 0 -> IF IsPage(s.arch, Leaf(s, table, v)) THEN Leaf(s, table, v).page ELSE 0
       [] table = 0 /\ IsSection(s.arch, e) -> e.page + (v % SectionPages)
       [] OTHER -> 0

(* access(): the flags read back from an entry of the second level. *)
IntelAccess(e) ==
  {"Readable"} \cup (IF IntelWrite \in e.bits THEN {"Writable"} ELSE {})
  \cup (IF IntelUser \in e.bits THEN {"User"} ELSE {})
ARMAccess(e) ==
  {"Readable"} \cup (IF 5 \in e.bits THEN {"User"} ELSE {}) \cup (IF 9 \in e.bits THEN {} ELSE {"Writable"})
  \cup (CASE ARMDeviceShared \subseteq e.bits -> {"Device"}
          [] ~(ARMDeviceShared \subseteq e.bits) /\ ARMUncached(6) \subseteq e.bits -> {"Uncached"}
          [] OTHER -> {"InnerCached", "OuterCached"})
ARM64Access(e) ==
  {"Readable"} \cup (IF 6 \in e.bits THEN {"User"} ELSE {}) \cup (IF 7 \in e.bits THEN {} ELSE {"Writable"})
  \cup (CASE {9, 2} \subseteq e.bits -> {"Device"}
          [] ~({9, 2} \subseteq e.bits) /\ {9, 3} \subseteq e.bits -> {"Uncached"}
          [] OTHER -> {"InnerCached"})
AccessOf(s, e) ==
  CASE s.arch = "intel" -> IntelAccess(e)
    [] s.arch = "arm" -> ARMAccess(e)
    [] s.arch = "arm64" -> ARM64Access(e)

-----------------------------------------------------------------------------
(* mapLarge() of one section.  ARM64's only looks for another section.      *)
ARMMapLarge(s, c, section, page, access) ==
  IF s.first[c][section].bits \cap {0, 1} # {} THEN s
  ELSE [s EXCEPT !.first[c][section] = Entry(page, {1} \cup ARMFirstFlags(access))]
ARM64MapLarge(s, c, section, page, access) ==
  IF IsSection("arm64", s.first[c][section]) THEN s
  ELSE [s EXCEPT !.first[c][section] = Entry(page, {0} \cup ARM64Flags(access))]
MapLarge(s, c, section, page, access) ==
  IF s.arch = "arm" THEN ARMMapLarge(s, c, section, page, access) ELSE ARM64MapLarge(s, c, section, page, access)

KernelAccess == {"Readable", "Writable", "Executable"}
DeviceAccess == {"Readable", "Writable", "Device"}
First(section) == section * SectionPages
IdentityMap(s, c, section, access) ==
  MapLarge(ARMUnmap(s, c, First(section)).s, c, section, First(section), access)

(* ARMPaging::initialize, ARM64Paging::initialize: the kernel, the          *)
(* temporary stack, the I/O zone.                                           *)
MapKernel(s, c) ==
  FoldSet(LAMBDA k, t : MapLarge(t, c, k, KernelBase + First(k), KernelAccess), s, KernelSections)
(* Mutant: the I/O zone is mapped over what is there, without unmap(). *)
MapZones_no_unmap(s, c) ==
  FoldSet(LAMBDA k, t : MapLarge(t, c, k, First(k), DeviceAccess),
          IdentityMap(s, c, TmpStackSection, {"Readable", "Writable"}), IOSections)

MapZones(s, c) ==
  FoldSet(LAMBDA k, t : IdentityMap(t, c, k, DeviceAccess),
          IdentityMap(s, c, TmpStackSection, {"Readable", "Writable"}), IOSections)

(* IntelPaging::initialize: the entries of the active directory. *)
Inherited == KernelSections \cup {PrivateSection}
Inherit(s, c) ==
  [s EXCEPT !.first[c] = [k \in Sections |-> IF k \in Inherited THEN s.first[s.current][k] ELSE PageTables_None]]

(* The directory takes one page. *)
Directory(s, c, page) == [s EXCEPT !.used = @ \cup {page}, !.dir[c] = page, !.first[c] = NoDirectory]
initialize(s, c) ==
  IF Free(s) = {} THEN Result("OutOfMemory", s)
  ELSE LET d == Directory(s, c, Min(Free(s)))
       IN Result("Success", IF s.arch = "intel" THEN Inherit(d, c) ELSE MapZones(MapKernel(d, c), c))

-----------------------------------------------------------------------------
(* releasePhysical(): only pages of this core.  The first page of the next  *)
(* core passes the test and fails the assertion of isAllocated().           *)
releasePhysical(s, page) ==
  CASE page < KernelBase \/ page > NextCore -> s
    [] page = NextCore -> [s EXCEPT !.panic = TRUE]
    [] OTHER -> [s EXCEPT !.used = @ \ {page}]

(* releaseRange() of one page. *)
releasePage(s, c, v) ==
  IF SecondTable(s, c, v) = 0 \/ translate(s, c, v) = 0 THEN Result("InvalidAddress", s)
  ELSE Result("Success", UnmapPage(releasePhysical(s, translate(s, c, v)), SecondTable(s, c, v), v))

(* releaseSection() of one section: the pages, unless tablesOnly, and the   *)
(* table.  A page that is not allocated fails an assertion of release().    *)
ReleaseTable(s, c, section, table) ==
  [s EXCEPT !.used = @ \ {table}, !.first[c][section] = PageTables_None, !.panic = @ \/ table \notin s.used]
ReleasePages(s, c, section) ==
  FoldSet(LAMBDA v, t : IF translate(t, c, v) = 0 THEN t ELSE releasePhysical(t, translate(t, c, v)), s,
          {First(section) + i : i \in Idx})
releaseSection(s, c, section, tablesOnly) ==
  IF SecondTable(s, c, First(section)) = 0 THEN s
  ELSE ReleaseTable(IF tablesOnly THEN s ELSE ReleasePages(s, c, section), c, section, SecondTable(s, c, First(section)))

(* ~Process and the destructors of the contexts; KernelPrivate keeps its    *)
(* table.                                                                   *)
Destroy_private(s, c) ==
  LET t == FoldSet(LAMBDA k, u : releaseSection(u, c, k, FALSE), s, UserSections \cup {PrivateSection})
  IN [t EXCEPT !.used = @ \ {s.dir[c]}, !.dir[c] = 0, !.first[c] = NoDirectory]

Destroy(s, c) ==
  LET t == FoldSet(LAMBDA k, u : releaseSection(u, c, k, FALSE), s, UserSections)
  IN [t EXCEPT !.used = @ \ {s.dir[c]}, !.dir[c] = 0, !.first[c] = NoDirectory]

-----------------------------------------------------------------------------
NoWant == [page |-> 0, access |-> {}]
All == Contexts \cup {Boot}
Live(s) == {c \in Contexts : s.dir[c] # 0}

(* The directory that IntelBoot32.S builds, and the mapping of the APIC in  *)
(* KernelPrivate, if there is one.  On ARM every context is built anew.     *)
BootDirectory ==
  [k \in Sections |-> IF k \in KernelSections
                      THEN Entry(KernelBase + First(k), {IntelPresent, IntelWrite, IntelSection}) ELSE PageTables_None]
Booted(arch) ==
  [arch |-> arch, current |-> Boot, dir |-> [c \in All |-> IF c = Boot THEN KernelBase ELSE 0],
   first |-> [c \in All |-> IF c = Boot /\ arch = "intel" THEN BootDirectory ELSE NoDirectory],
   second |-> [p \in Pages |-> NoTable], used |-> {KernelBase}, panic |-> FALSE, calls |-> 0,
   want |-> [c \in Contexts |-> [v \in UserVirt |-> NoWant]]]
APICPage == First(CHOOSE k \in IOSections : TRUE)
WithAPIC(s) == IntelMap(s, Boot, First(PrivateSection), APICPage, DeviceAccess).s

PageTables_Init == \/ \E arch \in {"intel", "arm", "arm64"} : pt = Booted(arch)
        \/ pt = WithAPIC(Booted("intel"))

Step(s) == pt' = [s EXCEPT !.calls = @ + 1]
Asked(s, c, v, want) == [s EXCEPT !.want[c][v] = want]

create(c) ==
  /\ pt.dir[c] = 0
  /\ Step(initialize(pt, c).s)
activate(c) ==
  /\ c \in Live(pt)
  /\ Step([pt EXCEPT !.current = c])

(* VMCtl(MapContiguous) of a new page, of one that the process shares, or   *)
(* of a page of the next core.                                              *)
Mapped(c, v, access, page, done) ==
  Step(IF done.r = "Success" THEN Asked(done.s, c, v, [page |-> page, access |-> access]) ELSE done.s)
MapNew(c, v, access) ==
  /\ c \in Live(pt) /\ Free(pt) # {}
  /\ LET page == Min(Free(pt)) IN Mapped(c, v, access, page, PageTables_map([pt EXCEPT !.used = @ \cup {page}], c, v, page, access))
MapForeign(c, v, access) ==
  /\ c \in Live(pt)
  /\ Mapped(c, v, access, NextCore + 1, PageTables_map(pt, c, v, NextCore + 1, access))

(* VMCtl(UnMap) *)
UnMap(c, v) ==
  /\ c \in Live(pt)
  /\ Step(Asked(unmap(pt, c, v).s, c, v, NoWant))

(* VMCtl(Release) *)
ReleasePage(c, v) ==
  /\ c \in Live(pt)
  /\ LET done == releasePage(pt, c, v)
     IN Step(IF done.r = "Success" THEN Asked(done.s, c, v, NoWant) ELSE done.s)

(* VMCtl(ReleaseSections) *)
ReleaseSections(c, k) ==
  /\ c \in Live(pt)
  /\ Step([releaseSection(pt, c, k, FALSE) EXCEPT
             !.want[c] = [v \in UserVirt |-> IF Section(v) = k THEN NoWant ELSE @[v]]])

(* VMCopy: a page of another process, in KernelPrivate of the active one    *)
(* while it is copied.                                                      *)
VMCopy(c, v) ==
  /\ c \in Live(pt) /\ pt.current \in Live(pt) /\ translate(pt, c, v) # 0
  /\ LET at == Max({w \in Virt : Section(w) = PrivateSection})
         done == PageTables_map(pt, pt.current, at, translate(pt, c, v), {"Readable", "Writable"})
     IN Step(IF done.r = "Success" THEN unmap(done.s, pt.current, at).s ELSE done.s)

(* A process that is not active ends. *)
Exit(c) ==
  /\ c \in Live(pt) /\ pt.current # c
  /\ Step([Destroy(pt, c) EXCEPT !.want[c] = [v \in UserVirt |-> NoWant]])

PageTables_Next ==
  /\ ~pt.panic /\ pt.calls < MaxCalls
  /\ \/ \E c \in Contexts : create(c) \/ activate(c) \/ Exit(c)
     \/ \E c \in Contexts, v \in UserVirt : UnMap(c, v) \/ ReleasePage(c, v) \/ VMCopy(c, v)
     \/ \E c \in Contexts, v \in UserVirt, access \in Accesses : MapNew(c, v, access) \/ MapForeign(c, v, access)
     \/ \E c \in Contexts, k \in UserSections : ReleaseSections(c, k)

-----------------------------------------------------------------------------
(* The memory management unit: what the hardware makes of the tables.       *)
NoAccess == [page |-> 0, user |-> FALSE, write |-> FALSE, device |-> FALSE]
Permission(arch, bits, user, apx, tex) ==
  [user |-> user \in bits,
   write |-> IF arch = "intel" THEN IntelWrite \in bits ELSE apx \notin bits,
   device |-> CASE arch = "intel" -> FALSE
                [] arch = "arm" -> 2 \in bits /\ 3 \notin bits
                [] arch = "arm64" -> {3, 2} \cap bits = {2}]
SectionPermission(arch, bits) ==
  IF arch = "intel" THEN Permission(arch, bits, IntelUser, 0, 0)
  ELSE IF arch = "arm" THEN Permission(arch, bits, 11, 15, 12) ELSE Permission(arch, bits, 6, 7, 0)
PagePermission(arch, bits) ==
  IF arch = "intel" THEN Permission(arch, bits, IntelUser, 0, 0)
  ELSE IF arch = "arm" THEN Permission(arch, bits, 5, 9, 6) ELSE Permission(arch, bits, 6, 7, 0)
Seen(page, p) == [page |-> page, user |-> p.user, write |-> p.write, device |-> p.device]
(* Intel looks for the section bit first, and both levels must allow an     *)
(* access.                                                                  *)
MMU(s, c, v) ==
  LET e == s.first[c][Section(v)]
      section == IsSection(s.arch, e)
      l == Leaf(s, e.page, v)
      both == IF s.arch = "intel" THEN l.bits \ ({IntelWrite, IntelUser} \ e.bits) ELSE l.bits
  IN CASE section -> Seen(e.page + (v % SectionPages), SectionPermission(s.arch, e.bits))
       [] ~section /\ IsTable(s.arch, e) ->
            IF IsPage(s.arch, l) THEN Seen(l.page, PagePermission(s.arch, both)) ELSE NoAccess
       [] OTHER -> NoAccess

(* Whatever was mapped, unmapped and released before, in whatever order, a   *)
(* process reaches exactly the pages that were mapped for it, with the       *)
(* access that was asked for, and lookup() and access() say the same.        *)
Agrees(s, c, v) ==
  LET w == s.want[c][v]
      seen == MMU(s, c, v)
      told == AccessOf(s, Leaf(s, SecondTable(s, c, v), v))
  IN /\ seen.page = w.page /\ translate(s, c, v) = w.page
     /\ seen.user = ("User" \in w.access) /\ seen.write = ("Writable" \in w.access)
     /\ w.page # 0 => told \cap {"User", "Writable"} = w.access \cap {"User", "Writable"}
MappedAsAsked == \A c \in Live(pt) : \A v \in UserVirt : Agrees(pt, c, v)

(* Every context has the kernel where its core's memory starts and, on ARM,  *)
(* the I/O zone where the devices are, as device memory; no process can      *)
(* reach either.                                                             *)
KernelPlace(s, k) ==
  IF s.arch # "intel" /\ k \in IOSections \cup {TmpStackSection} THEN First(k) ELSE KernelBase + First(k)
KernelEverywhere ==
  \A c \in Live(pt) : \A k \in KernelSections : \A i \in Idx :
    LET seen == MMU(pt, c, First(k) + i)
    IN /\ seen.page = KernelPlace(pt, k) + i /\ ~seen.user /\ seen.write
       /\ seen.device = (pt.arch # "intel" /\ k \in IOSections)

(* A page that is in use as a table is allocated, is no page of a process,   *)
(* and is in one place of one context, except what a context on Intel        *)
(* inherited in KernelPrivate.                                               *)
TablesOf(s, c) == {k \in Sections : ~IsSection(s.arch, s.first[c][k]) /\ IsTable(s.arch, s.first[c][k])}
Users == UNION {{<<c, k>> : k \in TablesOf(pt, c)} : c \in Live(pt)}
TableAt(u) == pt.first[u[1]][u[2]].page
MappedPages == {pt.want[c][v].page : c \in Live(pt), v \in UserVirt}
TablesApart ==
  /\ \A u \in Users : TableAt(u) \in pt.used /\ TableAt(u) \notin MappedPages
  /\ \A u, w \in Users :
       u # w /\ TableAt(u) = TableAt(w) => pt.arch = "intel" /\ u[2] = PrivateSection /\ w[2] = PrivateSection

-------------------------------------------------------------------------------
(***************************************************************************)
(* The data caches of the ARM processors, the operations of ARMCacheV7 and *)
(* ARMCacheV6 on them, and the code that shares memory with an observer    *)
(* behind the caches: the receive and transmit buffers of the Ethernet     *)
(* device (Sun8iEmac, two buffers in a page), a page table entry and the   *)
(* table walker, and the invalidation of the caches at boot.               *)
(*                                                                         *)
(* A line is in memory, in the first and in the second level, with a value *)
(* and a dirty flag.  The processor may load a line and either level may   *)
(* evict one at any moment.  WordBits stands for the 32 bits of a set/way  *)
(* operand; Geometries are the ways, sets and line sizes (log 2) checked.  *)
(***************************************************************************)
CONSTANTS WordBits, Geometries
VARIABLE cache

Caches_None == [v |-> 2, d |-> FALSE]
Line(v, d) == [v |-> v, d |-> d]
(* CacheLevelType of CLIDR: the first level has separate instruction and     *)
(* data caches, the second is unified.                                       *)
CacheLevelInstruction == 1
CacheLevelData == 2
CacheLevelInstructionData == 3
CacheLevelUnified == 4
LevelType == <<CacheLevelInstructionData, CacheLevelUnified>>

Lines == {"a", "b"}
Shared(plat, kind) ==
  [plat |-> plat, kind |-> kind, mem |-> [l \in Lines |-> 0], l1 |-> [l \in Lines |-> Caches_None], l2 |-> [l \in Lines |-> Caches_None],
   own |-> [l \in Lines |-> IF kind = "rx" THEN "device" ELSE "cpu"], want |-> [l \in Lines |-> 0], n |-> 0, setways |-> {}]

(* Boot: the firmware left lines in the caches that memory no longer has.    *)
Caches_Init ==
  \/ \E kind \in {"rx", "tx"} : cache = Shared("v7", kind)
  \/ \E plat \in {"v6", "v7"} : cache = Shared(plat, "table")
  \/ \E where \in [Lines -> {1, 2}] :
       cache = [Shared("v7", "boot") EXCEPT !.l1 = [l \in Lines |-> IF where[l] = 1 THEN Line(1, FALSE) ELSE Caches_None],
                                            !.l2 = [l \in Lines |-> IF where[l] = 2 THEN Line(1, FALSE) ELSE Caches_None]]
  \/ \E g \in Geometries : cache = [Shared("v7", "flush") EXCEPT !.mem = g]

-----------------------------------------------------------------------------
(* The hardware.                                                             *)
Next1(c, l) == IF c.l2[l] # Caches_None THEN c.l2[l].v ELSE c.mem[l]
Read(c, l) == IF c.l1[l] # Caches_None THEN c.l1[l].v ELSE Next1(c, l)

Evict1(c, l) ==
  [c EXCEPT !.l1[l] = Caches_None, !.l2[l] = IF c.l1[l].d THEN c.l1[l] ELSE @]
Evict2(c, l) ==
  [c EXCEPT !.l2[l] = Caches_None, !.mem[l] = IF c.l2[l].d THEN c.l2[l].v ELSE @]

(* An operation on one line by address works on every level.                 *)
CleanLine(c, l) ==
  LET top == IF c.l1[l].d THEN c.l1[l] ELSE c.l2[l]
      clean == IF c.l1[l].d \/ c.l2[l].d THEN [c EXCEPT !.mem[l] = top.v] ELSE c
  IN [clean EXCEPT !.l1[l] = IF @ = Caches_None THEN Caches_None ELSE Line(@.v, FALSE),
                   !.l2[l] = IF @ = Caches_None THEN Caches_None ELSE Line(IF c.l1[l].d THEN c.l1[l].v ELSE @.v, FALSE)]
InvalidateLine(c, l) == [c EXCEPT !.l1[l] = Caches_None, !.l2[l] = Caches_None]

-----------------------------------------------------------------------------
(* ARMCacheV7: the lines of the page of an address; ARMCacheV6: its line.    *)
(* Both buffers of the device are in one page.                               *)
RangeOf(c, l) == IF c.plat = "v7" THEN Lines ELSE {l}

OnLines(c, S, Op(_, _)) ==
  IF S = Lines THEN Op(Op(c, "a"), "b") ELSE LET l == CHOOSE x \in S : TRUE IN Op(c, l)

(* Cache::cleanData calls cleanAddress(Data).                                *)
cleanAddress(c, l) == OnLines(c, RangeOf(c, l), CleanLine)
cleanAddressV6(c, l) == CleanLine(c, l)
cleanData(c, l) == IF c.plat = "v7" THEN cleanAddress(c, l) ELSE cleanAddressV6(c, l)
invalidateAddress(c, l) == OnLines(c, RangeOf(c, l), InvalidateLine)

(* ARMCacheV7::flushLevel without clean drops every line of the level.       *)
flushLevel(c, level) ==
  IF level = 1 THEN [c EXCEPT !.l1 = [l \in Lines |-> Caches_None]] ELSE [c EXCEPT !.l2 = [l \in Lines |-> Caches_None]]
Flushed(level) == LevelType[level] \in {CacheLevelData, CacheLevelInstruction, CacheLevelUnified}
dataFlush(c) ==
  LET one == IF Flushed(1) THEN flushLevel(c, 1) ELSE c
  IN IF Flushed(2) THEN flushLevel(one, 2) ELSE one

(* log_2_n_round_up, and the set/way operands of flushLevel for level 0.     *)
Log2[n \in Nat] == IF n = 0 THEN -1 ELSE 1 + Log2[n \div 2]
IsPower(n) == n = 2^Log2[n]
log_2_n_round_up(n) == IF IsPower(n) THEN Log2[n] ELSE Log2[n] + 1
SetWay(g, way, set) ==
  ((set * 2^g.log2_line_len) + (way * 2^(WordBits - log_2_n_round_up(g.num_ways)))) % 2^WordBits
(* How the processor reads an operand.                                       *)
Decode(g, op) ==
  LET bits == CHOOSE b \in 0 .. WordBits : 2^b >= g.num_ways /\ \A x \in 0 .. (b - 1) : 2^x < g.num_ways
  IN <<op \div 2^(WordBits - bits), (op % 2^(WordBits - bits)) \div 2^g.log2_line_len>>

-----------------------------------------------------------------------------
(* A load, ahead of the program or by it, and an eviction.                   *)
Load(l) ==
  /\ cache.kind # "flush" /\ cache.l1[l] = Caches_None
  /\ cache' = [cache EXCEPT !.l1[l] = Line(Next1(cache, l), FALSE)]
Evict(l) ==
  /\ cache.kind # "flush"
  /\ \/ cache.l1[l] # Caches_None /\ cache' = Evict1(cache, l)
     \/ cache.l2[l] # Caches_None /\ cache' = Evict2(cache, l)

(* Sun8iEmac::receive: the descriptor is the driver's, the payload page is   *)
(* invalidated and the packet processed; then the descriptor goes back.      *)
DeviceReceives(l) ==
  /\ cache.kind = "rx" /\ cache.own[l] = "device"
  /\ cache' = [cache EXCEPT !.mem[l] = 1 - @, !.want[l] = 1 - cache.mem[l], !.own[l] = "arrived"]
receive(l) ==
  /\ cache.kind = "rx" /\ cache.own[l] = "arrived"
  /\ cache' = [invalidateAddress(cache, l) EXCEPT !.own[l] = "driver"]
Processed(l) ==
  /\ cache.kind = "rx" /\ cache.own[l] = "driver"
  /\ cache' = [cache EXCEPT !.own[l] = "device"]

(* The processor writes a packet or a table entry through its cache; then    *)
(* Sun8iEmac::startDMA or ARMSecondTable::map cleans it before the device or *)
(* the walker may read it.                                                   *)
Write(l) ==
  /\ cache.kind \in {"tx", "table"} /\ cache.own[l] \in {"cpu", "walker"}
  /\ cache' = [cache EXCEPT !.l1[l] = Line(1 - Read(cache, l), TRUE), !.want[l] = 1 - Read(cache, l), !.own[l] = "cpu"]
startDMA(l) ==
  /\ cache.kind = "tx" /\ cache.own[l] = "cpu"
  /\ cache' = [cleanData(cache, l) EXCEPT !.own[l] = "device"]
Transmitted(l) ==
  /\ cache.kind = "tx" /\ cache.own[l] = "device"
  /\ cache' = [cache EXCEPT !.own[l] = "cpu"]
Caches_map(l) ==
  /\ cache.kind = "table" /\ cache.own[l] = "cpu"
  /\ cache' = [cleanData(cache, l) EXCEPT !.own[l] = "walker"]

(* kernel_main invalidates the caches: the instruction caches hold no data.  *)
invalidate ==
  /\ cache.kind = "boot" /\ cache.n = 0
  /\ cache' = [dataFlush(cache) EXCEPT !.n = 1]

(* flushLevel, one way of a geometry after the other.                        *)
flushWay ==
  /\ cache.kind = "flush" /\ cache.n < cache.mem.num_ways
  /\ LET way == cache.mem.num_ways - 1 - cache.n
     IN cache' = [cache EXCEPT !.n = @ + 1, !.setways = @ \cup {SetWay(cache.mem, way, set) : set \in 0 .. (cache.mem.num_sets - 1)}]

Caches_Next ==
  \/ \E l \in Lines : \/ Load(l) \/ Evict(l) \/ DeviceReceives(l) \/ receive(l) \/ Processed(l)
                      \/ Write(l) \/ startDMA(l) \/ Transmitted(l) \/ Caches_map(l)
  \/ invalidate \/ flushWay

-----------------------------------------------------------------------------
(* The driver reads what the device wrote and the device, or the walker,     *)
(* reads what the processor wrote, as long as the buffer is theirs: no early *)
(* load, no eviction and no work on the other buffer of the page changes it. *)
Coherent ==
  cache.kind # "flush" =>
    \A l \in Lines : /\ (cache.kind = "rx" /\ cache.own[l] = "driver") => Read(cache, l) = cache.want[l]
                     /\ (cache.kind = "tx" /\ cache.own[l] = "device") => cache.mem[l] = cache.want[l]
                     /\ (cache.kind = "table" /\ cache.own[l] = "walker") => cache.mem[l] = cache.want[l]

(* flushLevel names every line of its level: the operands of its loops are,  *)
(* as the processor reads them, all the ways and sets, also when their       *)
(* number is no power of two.                                                *)
EveryLineFlushed ==
  (cache.kind = "flush" /\ cache.n = cache.mem.num_ways) =>
    {Decode(cache.mem, op) : op \in cache.setways} = (0 .. (cache.mem.num_ways - 1)) \X (0 .. (cache.mem.num_sets - 1))

(* "Invalidate the entire cache." (Cache.h:63): after the kernel did so at   *)
(* boot it reads memory, not what the firmware left in a cache.              *)
BootReadsMemory == (cache.kind = "boot" /\ cache.n = 1) => \A l \in Lines : Read(cache, l) = cache.mem[l]
===============================================================================
