--------------------------------- MODULE Files --------------------------------
(* The file cache of a server, transfers and descriptors, and paths. *)
EXTENDS Integers, Sequences, FiniteSets, SequencesExt

(***************************************************************************)
(* The cache of files that every file system server keeps                  *)
(* (lib/libfs/FileSystemServer, FileCache, Directory): a tree of cache     *)
(* nodes that share File objects, because the "." and ".." nodes of a      *)
(* directory refer to the directory's own file and to its parent's.  File  *)
(* objects are freed by hand.  A path is the sequence of its non-empty     *)
(* components, which is what FileSystemPath::split returns.                *)
(***************************************************************************)
CONSTANTS Names,         \* the plain names
          Depth,         \* the components of a path, at most
          MaxFiles,      \* bound on the file objects ever created
          OnDisk         \* the paths LinnDirectory::lookup finds on the disk
VARIABLE ft

ZERO == 0
Dots == {".", ".."}
Paths == UNION {[1 .. n -> Names \cup Dots] : n \in 1 .. Depth}
DiskDirectory(p) == \E q \in OnDisk : IsStrictPrefix(p, q)
NoKids == [n \in {} |-> 0]

(***************************************************************************)
(* Directory::insert, remove: the Dirent list holds a name at most once,   *)
(* and begins with the two names the constructor inserts.  A File is a     *)
(* Directory exactly when dir holds: on any other one the static_casts of  *)
(* the server go wrong (misused), as does a File used once freed (dangled).*)
(***************************************************************************)
NewFile(dir, at) == [dir |-> dir, names |-> IF dir THEN Dots ELSE {}, live |-> TRUE, at |-> at]
Live(s, f) == f # ZERO /\ s.files[f].live
Cast(s, f, names) ==
  IF ~Live(s, f) THEN [s EXCEPT !.dangled = TRUE]
  ELSE IF ~s.files[f].dir THEN [s EXCEPT !.misused = TRUE]
  ELSE [s EXCEPT !.files[f].names = names]
dirInsert(s, f, name) == Cast(s, f, s.files[f].names \cup {name})
dirRemove(s, f, name) == Cast(s, f, s.files[f].names \ {name})

(***************************************************************************)
(* FileCache::FileCache: a new node, entered in its parent under its name  *)
(* (HashTable::insert overwrites the node that had the name).              *)
(***************************************************************************)
newCache(s, file, name, parent) ==
  LET c == Len(s.nodes) + 1
      made == [s EXCEPT !.nodes = Append(@, [file |-> file, name |-> name, parent |-> parent, kids |-> NoKids, live |-> TRUE])]
  IN IF parent = ZERO THEN made
     ELSE [made EXCEPT !.nodes[parent].kids = [n \in DOMAIN @ \cup {name} |-> IF n = name THEN c ELSE @[n]]]

RECURSIVE FileTree_Walk(_, _, _)
FileTree_Walk(s, c, p) ==
  IF p = <<>> THEN c
  ELSE IF Head(p) \notin DOMAIN s.nodes[c].kids THEN ZERO
  ELSE FileTree_Walk(s, s.nodes[c].kids[Head(p)], Tail(p))
findFileCache(s, p) == FileTree_Walk(s, 1, p)

insertFileCache(s, file, p) ==
  LET parent == findFileCache(s, Front(p)) IN
  IF parent = ZERO THEN [ok |-> FALSE, s |-> s]
  ELSE [ok |-> TRUE, s |-> newCache([s EXCEPT !.inodes = @ \cup {file}], file, Last(p), parent)]

getParentDirectory(s, p) ==
  LET c == findFileCache(s, Front(p)) IN IF c = ZERO THEN ZERO ELSE s.nodes[c].file

registerFile(s, file, p) ==
  LET i == insertFileCache(s, file, p) IN
  IF ~i.ok THEN i
  ELSE [ok |-> TRUE, s |-> dirInsert(i.s, getParentDirectory(i.s, p), Last(p))]

registerDirectory(s, dir, p) ==
  LET a == registerFile(s, dir, p)
      b == IF a.ok THEN registerFile(a.s, dir, Append(p, ".")) ELSE a
      parent == getParentDirectory(b.s, p)
  IN IF b.ok THEN registerFile(b.s, parent, Append(p, "..")) ELSE b

(***************************************************************************)
(* FileSystemServer::setRoot: "." and ".." of the root are nodes of its    *)
(* own file, entered with insertFileCache.                                 *)
(***************************************************************************)
Empty == [files |-> <<>>, nodes |-> <<>>, inodes |-> {}, devices |-> {}, lost |-> {}, misused |-> FALSE, dangled |-> FALSE,
          dotted |-> FALSE, disk |-> FALSE, up |-> TRUE]
setRoot(s) ==
  LET r == newCache([s EXCEPT !.files = Append(@, NewFile(TRUE, <<>>))], 1, "/", ZERO)
  IN insertFileCache(insertFileCache(r, 1, <<".">>).s, 1, <<"..">>).s

createFile(s, dir, p) == [s EXCEPT !.files = Append(@, NewFile(dir, p))]

(***************************************************************************)
(* DeviceServer::registerDevice keeps the device it registers in a table.  *)
(***************************************************************************)
registerDevice(s, p) ==
  LET f == Len(s.files) + 1 IN [registerFile(createFile(s, FALSE, p), f, p).s EXCEPT !.devices = @ \cup {f}]

(***************************************************************************)
(* The servers at start: TmpFileSystem (a bare root), LinnFileSystem (a    *)
(* root with files on a disk), and the serial server, which registers one  *)
(* directory and a device in it.                                           *)
(***************************************************************************)
FileTree_Init ==
  LET tmp == setRoot(Empty)
      dir == registerDirectory(createFile(tmp, TRUE, <<"a">>), 2, <<"a">>).s
  IN ft \in {tmp, [tmp EXCEPT !.disk = TRUE], registerDevice(dir, <<"a", "b">>)}

(***************************************************************************)
(* FileSystemServer::lookupFile: every component that is not cached is     *)
(* asked of the directory, LinnDirectory making a File for what the disk   *)
(* has.  Nodes made for the first components stay when a later one fails.  *)
(***************************************************************************)
RECURSIVE lookup(_, _, _)
lookup(s, c, p) ==
  LET name == Head(p)
      f == s.nodes[c].file
      at == Append(s.files[f].at, name)
  IN IF p = <<>> THEN [c |-> c, s |-> s]
     ELSE IF name \in DOMAIN s.nodes[c].kids THEN lookup(s, s.nodes[c].kids[name], Tail(p))
     ELSE IF ~s.files[f].dir \/ ~s.disk \/ ~(at \in OnDisk \/ DiskDirectory(at)) THEN [c |-> ZERO, s |-> s]
     ELSE LET made == createFile(s, DiskDirectory(at), at)
              n == Len(made.files)
              put == newCache([made EXCEPT !.inodes = @ \cup {n}], n, name, c)
          IN lookup(put, Len(put.nodes), Tail(p))
lookupFile(s, p) == lookup(s, 1, p)

(***************************************************************************)
(* removeFileFromCache: the children of a node that share its file (its    *)
(* "." and, for the root, "..") lose it.                                   *)
(***************************************************************************)
RECURSIVE unshare(_, _, _)
removeFileFromCache(s, c) == unshare(s, c, DOMAIN s.nodes[c].kids)
unshare(s, c, names) ==
  IF names = {} THEN s
  ELSE LET n == CHOOSE x \in names : TRUE
           k == s.nodes[c].kids[n]
       IN IF s.nodes[k].file # s.nodes[c].file THEN unshare(s, c, names \ {n})
          ELSE LET below == unshare(dirRemove(s, s.nodes[c].file, n), k, DOMAIN s.nodes[k].kids)
               IN unshare([below EXCEPT !.nodes[k].file = ZERO], c, names \ {n})

removeKid(s, c, name) == [s EXCEPT !.nodes[c].kids = [n \in DOMAIN @ \ {name} |-> @[n]]]
deleteFile(s, f) ==
  [s EXCEPT !.files[f].live = FALSE, !.files[f].names = {}, !.dangled = @ \/ ~s.files[f].live, !.inodes = @ \ {f}]

(***************************************************************************)
(* clearFileCache: the children first, in the order of the hash table; a   *)
(* child that shares the file of this node's parent (its "..") loses it,   *)
(* so that only the node that owns a file frees it.                        *)
(***************************************************************************)
ParentShared_kept(s, c, k) == FALSE
ParentShared(s, c, k) == s.nodes[c].parent # ZERO /\ s.nodes[s.nodes[c].parent].file = s.nodes[k].file

RECURSIVE clearKids(_, _, _)
RECURSIVE clearFileCache(_, _)
clearKids(s, c, names) ==
  IF names = {} \/ s.misused \/ s.dangled THEN s
  ELSE LET n == CHOOSE x \in names : TRUE
           k == s.nodes[c].kids[n]
           a == dirRemove(s, s.nodes[c].file, n)
           b == IF ParentShared(a, c, k) THEN [a EXCEPT !.nodes[k].file = ZERO] ELSE a
           d == clearFileCache(b, k)
       IN clearKids(removeKid(d, c, n), c, names \ {n})
freeNode(s, c) ==
  LET f == s.nodes[c].file
      parent == s.nodes[c].parent
      unlisted == IF parent = ZERO \/ f = ZERO THEN s
                  ELSE removeKid(IF s.nodes[parent].file = ZERO THEN s ELSE dirRemove(s, s.nodes[parent].file, s.nodes[c].name), parent, s.nodes[c].name)
  IN [(IF f = ZERO THEN unlisted ELSE deleteFile(unlisted, f)) EXCEPT !.nodes[c] = [file |-> ZERO, name |-> "", parent |-> ZERO, kids |-> NoKids, live |-> FALSE]]
clearFileCache(s, c) ==
  LET a == IF s.nodes[c].file # ZERO THEN removeFileFromCache(s, c) ELSE s
      b == clearKids(a, c, DOMAIN a.nodes[c].kids)
  IN IF b.misused \/ b.dangled THEN b ELSE freeNode(b, c)

unregisterFile(s, p) ==
  LET c == findFileCache(s, p) IN
  IF c = ZERO \/ DOMAIN s.nodes[c].kids # {} THEN s ELSE clearFileCache(s, c)

(***************************************************************************)
(* processRequest: the path's node is found or looked up, then CreateFile, *)
(* DeleteFile and StatFile do their work.  A file whose registration fails *)
(* is not freed: lost.  dotted records a request that changed the tree at  *)
(* or below a "." or ".." node: nothing is claimed of what                *)
(* happens after that, and the model stops there.                          *)
(***************************************************************************)
Serving == ft.up /\ ~ft.misused /\ ~ft.dotted
Found(p) ==
  LET c == findFileCache(ft, p) IN IF c # ZERO THEN [c |-> c, s |-> ft] ELSE lookupFile(ft, p)
Through(p, s) == [s EXCEPT !.dotted = s # ft /\ \E i \in DOMAIN p : p[i] \in Dots]
CreateFile(p, dir) ==
  LET found == Found(p)
      made == createFile(found.s, dir, p)
      f == Len(made.files)
      r == registerFile(made, f, p)
  IN /\ Serving /\ Len(ft.files) < MaxFiles /\ Len(found.s.files) < MaxFiles
     /\ ft' = Through(p, IF found.c # ZERO \/ ft.disk THEN found.s
                         ELSE IF r.ok THEN r.s ELSE [r.s EXCEPT !.lost = @ \cup {f}])
DeleteFile(p) ==
  LET found == Found(p) IN
  /\ Serving /\ Len(found.s.files) <= MaxFiles
  /\ ft' = Through(p, IF found.c = ZERO THEN found.s ELSE unregisterFile(found.s, p))
StatFile(p) ==
  LET found == Found(p) IN
  /\ Serving /\ Len(found.s.files) <= MaxFiles
  /\ ft' = Through(p, found.s)

\* FileSystemServer::~FileSystemServer
Destroy == Serving /\ ft' = [clearFileCache(ft, 1) EXCEPT !.up = FALSE]

FileTree_Next ==
  \/ \E p \in Paths : DeleteFile(p) \/ StatFile(p) \/ \E dir \in BOOLEAN : CreateFile(p, dir)
  \/ Destroy

(***************************************************************************)
(* As long as no "." or ".." node was written through, no file is freed    *)
(* twice or used once freed, whatever shares it, and every live node, the  *)
(* inode map and a node's table of children refer to live objects only.    *)
(***************************************************************************)
LiveNodes == {c \in DOMAIN ft.nodes : ft.nodes[c].live}
FreedOnce == ~ft.dotted /\ ~ft.misused => ~ft.dangled
NothingDangles ==
  ft.up /\ ~ft.dotted /\ ~ft.misused =>
    /\ \A c \in LiveNodes :
         /\ ft.files[ft.nodes[c].file].live
         /\ \A n \in DOMAIN ft.nodes[c].kids : ft.nodes[ft.nodes[c].kids[n]].live /\ ft.nodes[ft.nodes[c].kids[n]].parent = c
    /\ \A f \in ft.inodes : ft.files[f].live

(***************************************************************************)
(* The destructor frees every file object that was registered.             *)
(***************************************************************************)
AllFreed ==
  ~ft.up /\ ~ft.dotted /\ ~ft.misused => \A f \in DOMAIN ft.files : ~ft.files[f].live \/ f \in ft.lost

(***************************************************************************)
(* A directory that is not on a disk lists exactly what can be looked up   *)
(* in it.                                                                  *)
(***************************************************************************)
ListedIsFound ==
  ft.up /\ ~ft.disk /\ ~ft.dotted /\ ~ft.misused =>
    \A c \in LiveNodes : ft.files[ft.nodes[c].file].dir /\ ft.nodes[c].name \notin Dots =>
      ft.files[ft.nodes[c].file].names \ Dots = DOMAIN ft.nodes[c].kids \ Dots

(***************************************************************************)
(* Directory entries go into directories: what is registered below a file  *)
(* that is not one is cast to a Directory all the same.                    *)
(***************************************************************************)
OnlyDirectoriesEntered == ~ft.misused

(***************************************************************************)
(* The same through any path: what a directory lists can be looked up in   *)
(* it (a file made through "." is listed and is not found).                *)
(***************************************************************************)
EveryListedFound ==
  ft.up /\ ~ft.disk /\ ~ft.misused =>
    \A n \in ft.files[1].names \ Dots : findFileCache(ft, <<n>>) # ZERO

(***************************************************************************)
(* The devices a device server calls are live (deleting a device's file    *)
(* frees the device, which stays in the table).                            *)
(***************************************************************************)
DevicesLive == ft.up => \A f \in ft.devices : ft.files[f].live

-------------------------------------------------------------------------------
(***************************************************************************)
(* Reading and writing files: the POSIX calls (lib/libposix unistd, stdio, *)
(* dirent), FileSystemClient and FileDescriptor in the calling process,    *)
(* and IOBuffer, inodeHandler and the File classes in the server.  One     *)
(* process makes single calls; another one runs a program that reads a     *)
(* file to its end (bin/cat), fread, fwrite or opendir, one request at a   *)
(* time.  ref is what a file holds by the description of write().          *)
(***************************************************************************)
CONSTANTS Sizes,         \* the nbyte of a call
          Offsets,       \* the offset of lseek
          MaxSize,       \* bound on the size of a file
          MaxFd,         \* descriptors of a process
          ZeroBytes,     \* sizeof(size + offset), the bytes PseudoFile clears
          CatBuffer,     \* sizeof(buf) - 1 of Cat::cat
          Dirents,       \* the entries of the directory: name and FileType
          DirentMax      \* the Dirents opendir has room for
VARIABLE fl

Junk == -1
Newline == 10
Digit(level) == 48 + level
Files == {"pseudo", "level", "device", "directory"}
Fill(n, b) == [i \in 1 .. n |-> b]
Cut(s, a, b) == SubSeq(s, a, IF b < Len(s) THEN b ELSE Len(s))
Over(s, off, bytes) == [i \in DOMAIN s |-> IF i > off /\ i <= off + Len(bytes) THEN bytes[i - off] ELSE s[i]]

-----------------------------------------------------------------------------
(* IOBuffer: mem is the memory of the caller.  A page aligned buffer is      *)
(* mapped, so that m_buffer is that memory; any other is copied by VMCopy,   *)
(* which may fail.                                                           *)
setMessage(kind, mem) ==
  [mapped |-> kind = "aligned", fault |-> kind = "fault", mem |-> mem, buf |-> Fill(Len(mem), Junk), size |-> Len(mem), count |-> 0]
ioRead(io, n, off) ==
  [ok |-> ~io.fault, bytes |-> Cut(io.mem, off + 1, off + n), io |-> [io EXCEPT !.count = 0]]
\* What is written past the caller's buffer is lost in the memory after it.
ioWrite(io, bytes, off) ==
  [ok |-> ~io.fault, io |-> [io EXCEPT !.count = 0, !.mem = IF io.fault THEN @ ELSE Over(@, off, bytes)]]
bufferedRead(io) ==
  LET r == ioRead(io, io.size, 0) IN
  IF io.mapped THEN [io EXCEPT !.count = io.size]
  ELSE IF r.ok THEN [r.io EXCEPT !.buf = r.bytes, !.count = io.size] ELSE r.io
bufferedWrite(io, bytes) ==
  LET num == IF io.count + Len(bytes) < io.size THEN Len(bytes) ELSE io.size - io.count
      put(s) == Over(s, io.count, Cut(bytes, 1, num))
  IN [io EXCEPT !.mem = IF io.mapped THEN put(@) ELSE @, !.buf = IF io.mapped THEN @ ELSE put(@), !.count = @ + num]
flushWrite(io) ==
  IF io.mapped THEN [io EXCEPT !.count = 0] ELSE ioWrite(io, Cut(io.buf, 1, io.count), 0).io
At(io, i) == IF io.mapped THEN io.mem[i + 1] ELSE io.buf[i + 1]

-----------------------------------------------------------------------------
(* The File classes: [ok, size, io] of a read, [ok, size, s] of a write.     *)
PseudoRead(s, io, n, off) ==
  LET size == Len(s.pseudo)
      bytes == IF size - off > n THEN n ELSE size - off
      w == ioWrite(io, Cut(s.pseudo, off + 1, off + bytes), 0)
  IN IF off >= size THEN [ok |-> TRUE, size |-> 0, io |-> io] ELSE [ok |-> w.ok, size |-> bytes, io |-> w.io]

\* The mutant: the old data is not copied to the new buffer.
Grown_empty(s, n) == [i \in 1 .. n |-> IF i <= ZeroBytes THEN 0 ELSE Junk]
Grown(s, n) == [i \in 1 .. n |-> IF i <= Len(s) THEN s[i] ELSE IF i <= ZeroBytes THEN 0 ELSE Junk]
PseudoWrite(s, io, n, off) ==
  LET buffer == IF Len(s.pseudo) < n + off THEN Grown(s.pseudo, n + off) ELSE s.pseudo
      r == ioRead(io, n, 0)
  IN [ok |-> r.ok, size |-> n, s |-> [s EXCEPT !.pseudo = IF r.ok THEN Over(buffer, off, r.bytes) ELSE buffer]]

LevelRead(s, io, n, off) ==
  IF off >= 2 THEN [ok |-> TRUE, size |-> 0, io |-> io]
  ELSE [ok |-> TRUE, size |-> 2, io |-> ioWrite(io, <<Digit(s.level), Newline>>, 0).io]
\* tmp is not initialised when the read fails: any level.
LevelWrite(s, io, n, off) ==
  LET r == ioRead(io, 1, 0) IN
  IF off > 1 THEN {[ok |-> TRUE, size |-> 0, s |-> s]}
  ELSE {[ok |-> TRUE, size |-> n, s |-> [s EXCEPT !.level = l]] : l \in IF r.ok /\ n > 0 THEN {r.bytes[1] - Digit(0)} ELSE 0 .. 2}

\* A character device (server/serial): what has arrived, at most n of it.
DeviceRead(s, io, n, off) ==
  LET bytes == Cut(s.input, 1, n)
  IN [ok |-> TRUE, size |-> Len(bytes), io |-> bufferedWrite(io, bytes)]
DeviceWrite(s, io, n, off) ==
  [ok |-> TRUE, size |-> n, s |-> [s EXCEPT !.output = @ \o [i \in 1 .. n |-> At(io, i - 1)]]]

\* Directory::read: whole Dirents from the first one on, whatever the offset.
DirectoryRead(s, io, n, off) ==
  LET bytes == Cut(Dirents, 1, n)
      w == ioWrite(io, bytes, 0)
  IN [ok |-> TRUE, size |-> Len(bytes), io |-> w.io]

-----------------------------------------------------------------------------
(* inodeHandler, and the readFile / writeFile that send the request: the     *)
(* position moves by the size of the answer.  Refused is NotSupported.       *)
Refused(s, fd) == {[s |-> s, fd |-> fd, ret |-> -1, mem |-> <<>>]}
Waits(s, fd, n) == fd.inode = "device" /\ (s.input = <<>> \/ n = 0)
readFile(s, fd, n, kind) ==
  LET io == setMessage(kind, Fill(n, Junk))
      r == CASE fd.inode = "pseudo" -> PseudoRead(s, io, n, fd.position)
             [] fd.inode = "level" -> LevelRead(s, io, n, fd.position)
             [] fd.inode = "device" -> DeviceRead(s, io, n, fd.position)
             [] fd.inode = "directory" -> DirectoryRead(s, io, n, fd.position)
      done == IF r.ok /\ r.io.count # 0 THEN flushWrite(r.io) ELSE r.io
      after == IF fd.inode = "device" THEN [s EXCEPT !.input = Cut(@, r.size + 1, Len(@))] ELSE s
  IN IF ~fd.open THEN Refused(s, fd)
     ELSE {[s |-> after, fd |-> [fd EXCEPT !.position = IF r.ok THEN @ + r.size ELSE @], ret |-> IF r.ok THEN r.size ELSE -1, mem |-> done.mem]}
writeFile(s, fd, bytes, kind) ==
  LET n == Len(bytes)
      io == bufferedRead(setMessage(kind, bytes))
      results == CASE fd.inode = "pseudo" -> {PseudoWrite(s, io, n, fd.position)}
                   [] fd.inode = "level" -> LevelWrite(s, io, n, fd.position)
                   [] fd.inode = "device" -> {DeviceWrite(s, io, n, fd.position)}
  IN IF ~fd.open \/ fd.inode = "directory" THEN Refused(s, fd)
     ELSE {[s |-> w.s, fd |-> [fd EXCEPT !.position = IF w.ok THEN @ + w.size ELSE @], ret |-> IF w.ok THEN w.size ELSE -1, mem |-> bytes] : w \in results}

-----------------------------------------------------------------------------
(* The description of write(): bytes go to the position, what lies between   *)
(* the end of the file and the position reads as zero.                       *)
Hole == 0
Reference(ref, off, bytes) ==
  IF bytes = <<>> THEN ref
  ELSE [i \in 1 .. (IF Len(ref) > off + Len(bytes) THEN Len(ref) ELSE off + Len(bytes)) |->
         IF i > off /\ i <= off + Len(bytes) THEN bytes[i - off] ELSE IF i <= Len(ref) THEN ref[i] ELSE Hole]

Closed == [open |-> FALSE, position |-> 0, inode |-> "none"]
NoCall == [op |-> "none", n |-> 0, ret |-> 0, mem |-> <<>>, want |-> <<>>]
NoJob == [kind |-> "none", fd |-> Closed, left |-> 0, out |-> <<>>, ret |-> 0, clean |-> TRUE]
(* Which file both processes use, and which program the other one runs, is   *)
(* chosen at the start: one file and one run of a program at a time.         *)
Files_Init == \E file \in Files : fl = [file |-> file, pseudo |-> <<>>, level |-> 1, input |-> <<3, 4>>, output |-> <<>>, ref |-> <<>>, holes |-> FALSE, failed |-> FALSE,
              fds |-> [f \in 1 .. MaxFd |-> Closed], last |-> NoCall, job |-> NoJob]

\* FileDescriptor::openEntry: the first entry that is not open.
open(inode) ==
  LET vacant == {f \in 1 .. MaxFd : ~fl.fds[f].open}
      first == CHOOSE f \in vacant : \A g \in vacant : f <= g
  IN fl' = IF vacant = {} THEN [fl EXCEPT !.last = [NoCall EXCEPT !.op = "open", !.ret = -1]]
           ELSE [fl EXCEPT !.fds[first] = [open |-> TRUE, position |-> 0, inode |-> inode], !.last = [NoCall EXCEPT !.op = "open", !.ret = first]]
close(f) == fl' = [fl EXCEPT !.fds[f].open = FALSE, !.last = [NoCall EXCEPT !.op = "close"]]

\* whence is not looked at, and 0 is returned.
lseek(f, offset, whence) ==
  LET fd == fl.fds[f]
      from == CASE whence = "SEEK_SET" -> 0 [] whence = "SEEK_CUR" -> fd.position [] OTHER -> Len(fl.ref)
  IN /\ fd.open /\ fd.inode = "pseudo" /\ from + offset <= MaxSize
     /\ fl' = [fl EXCEPT !.fds[f].position = offset, !.last = [NoCall EXCEPT !.op = "lseek", !.n = offset, !.want = <<from + offset>>]]

read(f, n, kind) ==
  LET fd == fl.fds[f] IN
  /\ fd.open /\ ~Waits(fl, fd, n) /\ fd.position <= MaxSize
  /\ \E r \in readFile(fl, fd, n, kind) :
       fl' = [r.s EXCEPT !.fds[f] = r.fd,
                         !.last = [op |-> fd.inode, n |-> n, ret |-> r.ret, mem |-> r.mem, want |-> IF fd.inode = "pseudo" THEN Cut(fl.ref, fd.position + 1, fd.position + n) ELSE <<>>]]

\* What one process writes makes the other's reading unclean.
Wrote(s, fd, bytes, ret) ==
  IF fd.inode # "pseudo" THEN s
  ELSE [s EXCEPT !.ref = IF ret = -1 THEN @ ELSE Reference(@, fd.position, bytes), !.job.clean = FALSE,
                 !.failed = @ \/ ret = -1, !.holes = @ \/ fd.position > Len(fl.ref)]
write(f, bytes, kind) ==
  LET fd == fl.fds[f] IN
  /\ fd.open /\ fd.position + Len(bytes) <= MaxSize /\ Len(fl.output) + Len(bytes) <= MaxSize
  /\ \E r \in writeFile(fl, fd, bytes, kind) :
       fl' = [Wrote(r.s, fd, bytes, r.ret) EXCEPT !.fds[f] = r.fd, !.last = [NoCall EXCEPT !.op = "write", !.n = Len(bytes), !.ret = r.ret]]

-----------------------------------------------------------------------------
(* The other process: Cat::cat reads until a read returns 0 or fails; fread  *)
(* and fwrite go on while each item is transferred whole; opendir reads all  *)
(* the entries with one call.  The descriptor is opened when it starts.      *)
Opened(inode) == [open |-> TRUE, position |-> 0, inode |-> inode]
start(kind, inode, left) ==
  /\ fl.job.kind = "none" /\ fl.file = inode
  /\ fl' = [fl EXCEPT !.last = NoCall, !.job = [NoJob EXCEPT !.kind = kind, !.fd = Opened(inode), !.left = left]]
Finish(s, ret) == [s EXCEPT !.job.kind = "done", !.job.ret = ret, !.job.fd = [@ EXCEPT !.open = FALSE], !.last = NoCall]

cat ==
  /\ fl.job.kind = "cat"
  /\ \E r \in readFile(fl, fl.job.fd, CatBuffer, "copied") :
       fl' = IF r.ret = -1 \/ r.ret = 0 THEN Finish(r.s, r.ret)
             ELSE [r.s EXCEPT !.job.fd = r.fd, !.job.out = @ \o Cut(r.mem, 1, r.ret), !.last = NoCall]

ItemSize == 2
fread ==
  /\ fl.job.kind = "fread"
  /\ \E r \in readFile(fl, fl.job.fd, ItemSize, "copied") :
       LET next == [r.s EXCEPT !.job.fd = r.fd, !.job.left = @ - 1, !.job.ret = @ + 1, !.job.out = @ \o r.mem, !.last = NoCall]
       IN fl' = IF fl.job.left = 0 THEN Finish(fl, fl.job.ret)
                ELSE IF r.ret # ItemSize THEN Finish([r.s EXCEPT !.job.fd = r.fd], fl.job.ret) ELSE next
fwrite ==
  /\ fl.job.kind = "fwrite"
  /\ fl.job.left > 0 => fl.job.fd.position + ItemSize <= MaxSize
  /\ \E r \in writeFile(fl, fl.job.fd, Fill(ItemSize, 2), "copied") :
       LET done == Wrote(r.s, fl.job.fd, Fill(ItemSize, 2), r.ret)
           next == [done EXCEPT !.job.fd = r.fd, !.job.left = @ - 1, !.job.ret = @ + 1, !.last = NoCall]
       IN fl' = IF fl.job.left = 0 THEN Finish(fl, fl.job.ret) ELSE IF r.ret # ItemSize THEN Finish(done, fl.job.ret) ELSE next

\* types[] of opendir turns a FileType into the DT_ value of the same name.
Types == <<"DT_REG", "DT_DIR", "DT_BLK", "DT_CHR", "DT_LNK", "DT_FIFO", "DT_SOCK">>
opendir ==
  /\ fl.job.kind = "opendir" /\ fl.job.left = 0
  /\ \E r \in readFile(fl, fl.job.fd, DirentMax, "copied") :
       fl' = IF r.ret = -1 THEN Finish(r.s, -1)
             ELSE [r.s EXCEPT !.job.fd = r.fd, !.job.left = r.ret, !.job.ret = r.ret, !.last = NoCall,
                              !.job.out = [i \in 1 .. r.ret |-> [name |-> r.mem[i].name, type |-> Types[r.mem[i].type + 1]]]]
closedir == fl.job.kind = "opendir" /\ fl.job.left > 0 /\ fl' = Finish(fl, fl.job.ret)

(* Nothing is claimed once a write has failed or left a hole; the model stops *)
(* there and at the end of the program.                                      *)
Files_Next ==
  /\ ~fl.failed /\ ~fl.holes /\ fl.job.kind # "done"
  /\ \/ open(fl.file)
     \/ \E f \in 1 .. MaxFd :
          \/ close(f)
          \/ \E offset \in Offsets, whence \in {"SEEK_SET", "SEEK_CUR", "SEEK_END"} : lseek(f, offset, whence)
          \/ \E n \in Sizes, kind \in {"aligned", "copied", "fault"} : read(f, n, kind) \/ write(f, Fill(n, 1), kind)
     \/ \E inode \in {"pseudo", "level"}, kind \in {"cat", "fread", "fwrite"} : start(kind, inode, 2)
     \/ start("opendir", "directory", 0)
     \/ cat \/ fread \/ fwrite \/ opendir \/ closedir

-----------------------------------------------------------------------------
(* A read of a regular file returns what was written there by any process,   *)
(* and as much of it as was asked for and is there.                          *)
ReadsBack ==
  fl.last.op = "pseudo" /\ fl.last.ret # -1 =>
    fl.last.ret = Len(fl.last.want) /\ Cut(fl.last.mem, 1, fl.last.ret) = fl.last.want

(* cat prints the whole file, and fread its whole items, when nobody writes  *)
(* the file in the meantime; they always end on a regular file.              *)
WholeFile ==
  fl.job.kind = "done" /\ fl.job.fd.inode = "pseudo" /\ fl.job.clean =>
    IsPrefix(fl.job.out, fl.ref) /\ (fl.job.ret = 0 /\ fl.job.out # <<>> => fl.job.out = fl.ref)

(* opendir has the entries of the directory in their order, with the type of *)
(* each, as far as it has room.                                              *)
TypeNames == <<"RegularFile", "DirectoryFile", "BlockDeviceFile", "CharacterDeviceFile", "SymlinkFile", "FIFOFile", "SocketFile">>
SameType(t, d) == <<TypeNames[t + 1], d>> \in {<<"RegularFile", "DT_REG">>, <<"DirectoryFile", "DT_DIR">>, <<"BlockDeviceFile", "DT_BLK">>,
  <<"CharacterDeviceFile", "DT_CHR">>, <<"SymlinkFile", "DT_LNK">>, <<"FIFOFile", "DT_FIFO">>, <<"SocketFile", "DT_SOCK">>}
EntriesListed ==
  fl.job.kind = "opendir" /\ fl.job.left > 0 =>
    /\ Len(fl.job.out) = IF Len(Dirents) < DirentMax THEN Len(Dirents) ELSE DirentMax
    /\ \A i \in DOMAIN fl.job.out : fl.job.out[i].name = Dirents[i].name /\ SameType(Dirents[i].type, fl.job.out[i].type)

(* No read returns more bytes than it was asked for (the log level file      *)
(* always returns two).                                                      *)
AtMostAsked == fl.last.op \in Files => fl.last.ret <= fl.last.n

(* lseek moves the position as whence says.                                  *)
SeeksAsAsked == fl.last.op = "lseek" => <<fl.last.n>> = fl.last.want

(* A write that fails leaves the file as it was (the file has already grown).*)
FailedWriteKeeps == ~fl.holes => fl.pseudo = fl.ref

(* What lies between the end of a file and a write after it reads as zero.   *)
HolesZero == ~fl.failed => fl.pseudo = fl.ref

-------------------------------------------------------------------------------
(***************************************************************************)
(* File system paths as programs write them: FileSystemPath, chdir and     *)
(* getcwd, the prefix that FileSystemClient gives a relative path, and     *)
(* basename and dirname.  A path is a sequence of characters.              *)
(***************************************************************************)
CONSTANTS Letters,       \* the characters other than "/" and "."
          MaxLength,     \* the length of a path a program gives
          Directories,   \* the directories that exist, as component sequences
          MaxCwd         \* bound on the length of the current directory
VARIABLE pa

Slash == "/"
Dot == "."
None == <<"none">>
Inputs == UNION {[1 .. n -> Letters \cup {Slash, Dot}] : n \in 1 .. MaxLength}

-----------------------------------------------------------------------------
(* String::split on the separator: the parts that are not empty.             *)
RECURSIVE SplitFrom(_, _)
SplitFrom(s, part) ==
  LET done == IF part = <<>> THEN <<>> ELSE <<part>> IN
  IF s = <<>> THEN done
  ELSE IF Head(s) = Slash THEN done \o SplitFrom(Tail(s), <<>>)
  ELSE SplitFrom(Tail(s), Append(part, Head(s)))
split(s) == SplitFrom(s, <<>>)

RECURSIVE Join(_)
Join(parts) == IF parts = <<>> THEN <<>> ELSE <<Slash>> \o Head(parts) \o Join(Tail(parts))

(* FileSystemPath: the last part is the base; the parent is the others, and  *)
(* is empty for a path of one part.                                          *)
base(p) == IF split(p) = <<>> THEN <<>> ELSE Last(split(p))
Paths_parent(p) == IF Len(split(p)) < 2 THEN <<>> ELSE Join(Front(split(p)))

(* strrchr(path, '/')                                                        *)
LastSlash(p) == IF \E i \in DOMAIN p : p[i] = Slash THEN CHOOSE i \in DOMAIN p : p[i] = Slash /\ \A j \in i + 1 .. Len(p) : p[j] # Slash ELSE 0
basename(p) == IF LastSlash(p) = 0 THEN None ELSE SubSeq(p, LastSlash(p) + 1, Len(p))
dirname(p) == IF p = <<>> THEN <<Dot>> ELSE IF LastSlash(p) = 0 THEN p ELSE SubSeq(p, 1, LastSlash(p) - 1)

(* FileSystemClient::request, findMount: the current directory, then the     *)
(* path.                                                                     *)
fullpath(cwd, p) == IF Head(p) = Slash THEN p ELSE cwd \o p

-----------------------------------------------------------------------------
(* The file systems: "." and ".." are entries of every directory.            *)
RECURSIVE Paths_Walk(_, _)
Paths_Walk(at, parts) ==
  IF parts = <<>> THEN at
  ELSE LET c == Head(parts) IN
       IF c = <<Dot>> THEN Paths_Walk(at, Tail(parts))
       ELSE IF c = <<Dot, Dot>> THEN Paths_Walk(IF at = <<>> THEN at ELSE Front(at), Tail(parts))
       ELSE IF Append(at, c) \in Directories THEN Paths_Walk(Append(at, c), Tail(parts)) ELSE None
Resolve(p) == Paths_Walk(<<>>, split(p))

(* chdir, relative: a part that begins with "." is left out; one whose       *)
(* second character is "." too removes every part that equals the last one   *)
(* appended (List::remove), which stays the last one.                        *)
DotDot(c) == Len(c) > 1 /\ c[2] = Dot
RECURSIVE Process(_, _, _)
Process(parts, lst, last) ==
  IF parts = <<>> THEN lst
  ELSE LET c == Head(parts) IN
       IF c[1] # Dot THEN Process(Tail(parts), Append(lst, c), c)
       ELSE IF DotDot(c) /\ last # <<>> THEN Process(Tail(parts), SelectSeq(lst, LAMBDA x : x # last), last)
       ELSE Process(Tail(parts), lst, last)
Target(cwd, p) ==
  LET built == Join(Process(split(cwd \o <<Slash>> \o p), <<>>, <<>>))
  IN IF Head(p) = Slash THEN p ELSE IF built = <<>> THEN <<Slash>> ELSE built

Paths_Init == pa = [cwd |-> <<Slash>>, op |-> "none", path |-> <<>>, ok |-> TRUE, before |-> <<Slash>>]

\* The String of the current directory is assigned when stat finds a directory.
chdir(p) ==
  LET path == Target(pa.cwd, p)
      ok == Resolve(path) # None
  IN /\ pa.op = "none" /\ Len(path) <= MaxCwd
     /\ pa' = [cwd |-> IF ok THEN path ELSE pa.cwd, op |-> "chdir", path |-> p, ok |-> ok, before |-> pa.cwd]
request(p) == pa.op = "none" /\ pa' = [pa EXCEPT !.op = "request", !.path = p, !.before = pa.cwd, !.ok = TRUE]

Return == pa.op # "none" /\ pa' = [pa EXCEPT !.op = "none", !.path = <<>>, !.before = pa.cwd, !.ok = TRUE]

Paths_Next == Return \/ \E p \in Inputs : chdir(p) \/ request(p)

-----------------------------------------------------------------------------
(* The current directory is a directory that exists, whatever chdir was      *)
(* given.                                                                    *)
CwdIsDirectory == Head(pa.cwd) = Slash /\ Resolve(pa.cwd) # None

(* What chdir means: the directory that the path names, from the current one.*)
Meant(cwd, p) == IF Head(p) = Slash THEN Resolve(p) ELSE LET at == Resolve(cwd) IN IF at = None THEN None ELSE Paths_Walk(at, split(p))
Plain(p) == \A i \in DOMAIN split(p) : split(p)[i][1] # Dot
OneUp(cwd, p) == split(p) = << <<Dot, Dot>> >> /\ Plain(cwd) /\ IsInjective(split(cwd))
Reaches(s) == s.ok = (Meant(s.before, s.path) # None) /\ (s.ok => Resolve(s.cwd) = Meant(s.before, s.path))

(* chdir reaches the directory meant by an absolute path, by a relative path *)
(* of plain names, and by ".." from a directory whose names are all          *)
(* different.                                                                *)
ChdirReaches ==
  pa.op = "chdir" /\ (Head(pa.path) = Slash \/ (Plain(pa.path) /\ Plain(pa.before)) \/ OneUp(pa.before, pa.path)) => Reaches(pa)

(* The parent and the base of a path together have its parts; so have        *)
(* dirname and basename of a path that ends in a name.                       *)
PartsOfPath ==
  LET p == pa.path IN
  /\ split(p) # <<>> => split(Paths_parent(p)) \o <<base(p)>> = split(p)
  /\ Paths_parent(p) # <<>> => Head(Paths_parent(p)) = Slash
  /\ LastSlash(p) # 0 /\ Last(p) # Slash => basename(p) = base(p) /\ split(dirname(p)) \o <<basename(p)>> = split(p)

(* chdir reaches the directory meant, whatever the path ("../.." goes up     *)
(* once).                                                                    *)
EveryChdirReaches == pa.op = "chdir" => Reaches(pa)

(* A relative path is searched from the current directory (which is put      *)
(* before it without a "/").                                                 *)
RelativeInCwd ==
  pa.op = "request" /\ Head(pa.path) # Slash /\ Plain(pa.path) => split(fullpath(pa.cwd, pa.path)) = split(pa.cwd) \o split(pa.path)

(* getcwd has no "." or ".." in it.                                          *)
CwdPlain == \A i \in DOMAIN split(pa.cwd) : split(pa.cwd)[i] \notin {<<Dot>>, <<Dot, Dot>>}

(* basename returns the last component (NULL when there is no "/").          *)
BaseNameGiven == split(pa.path) # <<>> => basename(pa.path) # None
===============================================================================
