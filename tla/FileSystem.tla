----------------------------- MODULE FileSystem -----------------------------
(***************************************************************************)
(* File system servers that mount below each other, programs that use      *)
(* them, and the server that restarts them: lib/libfs/FileSystemServer.cpp *)
(* and FileSystemClient.cpp, server/filesystem/tmp, server/recovery.       *)
(*                                                                         *)
(* A path is the sequence of its names.  A file is known by its inode and, *)
(* as history, by the number of files its server had made before it; what  *)
(* a file contains is left out.  Programs make directories where they make *)
(* files below (Directories), and no name is a prefix of another, so that  *)
(* to compare names is to compare characters, which is what the code does. *)
(*                                                                         *)
(* A server reads a request from its channel in one step and handles it in *)
(* another, so that it may be stopped in between; channels keep unread     *)
(* requests over a restart, see MemoryChannel and Connections.  A server   *)
(* is restarted when it has mounted, not while it waits for its mount.     *)
(***************************************************************************)
EXTENDS Integers, Sequences, SequencesExt, FiniteSets

CONSTANTS
  Clients,         \* programs
  Servers,         \* file system servers other than the root file system
  Root,            \* ROOTFS_PID
  Recovery,        \* the recovery server
  MountPath,       \* m_mountPath of each of the Servers
  Paths,           \* the paths that programs use
  Directories,     \* those of them that they create as a directory
  Program,         \* the path of the servers' program files
  MaxMounts,       \* FileSystemServer::MaximumFileSystemMounts
  MaxClientMounts, \* FileSystemClient::MaximumFileSystemMounts
  MaxMade,         \* bound: files that a server makes between restarts
  Restartable,     \* the servers that are restarted
  MaxRestarts,     \* bound: restarts of a server
  None             \* no descriptor, no process

Mountable == Servers \union {Root}
Callers   == Clients \union Servers \union {Recovery}

ASSUME FileSystemAssumption ==
  /\ Root \notin Servers /\ Restartable \subseteq Servers
  /\ MountPath \in [Servers -> Seq(STRING) \ {<<>>}]
  /\ \A p \in Paths, q \in Paths :
       IsStrictPrefix(p, q) => p \in Directories
  /\ Len(Program) = 2 /\ \A s \in Servers : ~IsPrefix(MountPath[s], Program)
  /\ {MaxMounts, MaxClientMounts} \subseteq Nat \ {0}

VARIABLES
  mounts,    \* m_mounts of the root file system, without the vacant entries
  table,     \* FileSystemClient::m_mounts of each process, likewise
  fs,        \* the file cache and the inode map of each server
  status,    \* what each server does
  restarts,  \* how often each server was restarted
  call,      \* the request of each process
  fd,        \* the file descriptor of each program
  target     \* the process that the recovery server is restarting

vars == <<mounts, table, fs, status, restarts, call, fd, target>>

-----------------------------------------------------------------------------
(* The file cache of a server *)

(* A Directory object with inode 1 is the root of every tree. *)
Empty ==
  [files  |-> [p \in {<<>>} |-> [inode |-> 1, serial |-> 0, names |-> {}]],
   inodes |-> [i \in {1} |-> 0],
   next   |-> 2,
   made   |-> 0]

children(f, path) == {p \in DOMAIN f.files \ {<<>>} : Front(p) = path}

Without(g, x) == [y \in DOMAIN g \ {x} |-> g[y]]

With(g, x, v) == [y \in DOMAIN g \union {x} |-> IF y = x THEN v ELSE g[y]]

(* Mutant: the lowest inode that is not in use. *)
getNextInode_reused(f) ==
  CHOOSE i \in 3 .. Cardinality(DOMAIN f.inodes) + 3 :
    /\ i \notin DOMAIN f.inodes
    /\ \A j \in 3 .. i - 1 : j \in DOMAIN f.inodes

getNextInode(f) ==
  CHOOSE i \in f.next + 1 .. f.next + 1 + Cardinality(DOMAIN f.inodes) :
    /\ i \notin DOMAIN f.inodes
    /\ \A j \in f.next + 1 .. i - 1 : j \in DOMAIN f.inodes

(* The file object exists, whether or not it can be registered. *)
createFile(f) == [f EXCEPT !.next = getNextInode(f), !.made = @ + 1]

(* Adds the file that createFile() made to the cache, the inode map and its
   parent directory. *)
registerFile(f, path) ==
  LET file  == [inode |-> f.next, serial |-> f.made, names |-> {}]
      files == [f.files EXCEPT ![Front(path)].names = @ \union {Last(path)}]
  IN  IF Front(path) \notin DOMAIN f.files
        THEN [fs |-> f, result |-> "IOError"]
        ELSE [fs     |-> [f EXCEPT !.files  = With(files, path, file),
                                   !.inodes = With(@, f.next, f.made)],
              result |-> "Success"]

(* Mutant: a directory that has files is removed as well. *)
unregisterFile_forced(f, path) ==
  LET files == [f.files EXCEPT ![Front(path)].names = @ \ {Last(path)}]
  IN  IF path = <<>>
        THEN [fs |-> f, result |-> "PermissionDenied"]
        ELSE [fs     |-> [f EXCEPT !.files  = Without(files, path),
                                   !.inodes = Without(@, f.files[path].inode)],
              result |-> "Success"]

(* The root directory always has the entries "." and "..". *)
unregisterFile(f, path) ==
  LET files == [f.files EXCEPT ![Front(path)].names = @ \ {Last(path)}]
  IN  IF path = <<>> \/ children(f, path) # {}
        THEN [fs |-> f, result |-> "PermissionDenied"]
        ELSE [fs     |-> [f EXCEPT !.files  = Without(files, path),
                                   !.inodes = Without(@, f.files[path].inode)],
              result |-> "Success"]

-----------------------------------------------------------------------------
(* Mount tables *)

(* Mutant: the entry need not match. *)
longestMatch_any(tab, path) ==
  LET longer(i, j) == Len(tab[i].path) > Len(tab[j].path)
  IN  IF tab = <<>>
        THEN 0
        ELSE CHOOSE i \in DOMAIN tab :
               \A j \in DOMAIN tab \ {i} :
                 longer(i, j) \/ (~longer(j, i) /\ i < j)

(* The longest entry that is a prefix of path, the first one if there are
   several, 0 if there is none. *)
longestMatch(tab, path) ==
  LET matching     == {i \in DOMAIN tab : IsPrefix(tab[i].path, path)}
      longer(i, j) == Len(tab[i].path) > Len(tab[j].path)
  IN  IF matching = {}
        THEN 0
        ELSE CHOOSE i \in matching :
               \A j \in matching \ {i} :
                 longer(i, j) \/ (~longer(j, i) /\ i < j)

findMount(p, path) ==
  LET i == longestMatch(table[p], path)
  IN  IF i = 0 THEN Root ELSE table[p][i].pid

-----------------------------------------------------------------------------
(* Requests.  A request is sent (in the channel of the server), taken (being
   handled), waiting (in m_requests), replied or, after a restart of the server
   that had taken it, lost. *)

NoCall == [pc |-> "idle", action |-> None, path |-> <<>>, to |-> None,
           inode |-> 0, file |-> None, result |-> None,
           pid |-> None, pathMountLength |-> 0]

Request(p, action, path, to) ==
  /\ call[p].pc = "idle"
  /\ call' = [call EXCEPT ![p] = [NoCall EXCEPT !.pc = "sent",
                !.action = action, !.path = path, !.to = to]]

sendResponse(p, result) ==
  call' = [call EXCEPT ![p].pc = "replied", ![p].result = result]

(* Programs *)

CreateFile(c) ==
  /\ \A s \in Servers : fs[s].made < MaxMade
  /\ \E path \in Paths : Request(c, "CreateFile", path, findMount(c, path))
  /\ UNCHANGED <<mounts, table, fs, status, restarts, fd, target>>

DeleteFile(c) ==
  /\ \E path \in Paths : Request(c, "DeleteFile", path, findMount(c, path))
  /\ UNCHANGED <<mounts, table, fs, status, restarts, fd, target>>

OpenFile(c) ==
  /\ \E path \in Paths : Request(c, "StatFile", path, findMount(c, path))
  /\ UNCHANGED <<mounts, table, fs, status, restarts, fd, target>>

(* readFile() and writeFile() *)
AccessFile(c) ==
  /\ fd[c] # None
  /\ call[c].pc = "idle"
  /\ call' = [call EXCEPT ![c] = [NoCall EXCEPT !.pc = "sent",
                !.action = "ReadFile", !.to = fd[c].pid, !.inode = fd[c].inode]]
  /\ UNCHANGED <<mounts, table, fs, status, restarts, fd, target>>

CloseFile(c) ==
  /\ call[c].pc = "idle"
  /\ fd[c] # None
  /\ fd' = [fd EXCEPT ![c] = None]
  /\ UNCHANGED <<mounts, table, fs, status, restarts, call, target>>

WaitFileSystem(c) ==
  /\ \E s \in Servers : Request(c, "WaitFileSystem", MountPath[s], Root)
  /\ UNCHANGED <<mounts, table, fs, status, restarts, fd, target>>

GetFileSystems(c) ==
  /\ Request(c, "GetFileSystems", <<>>, Root)
  /\ UNCHANGED <<mounts, table, fs, status, restarts, fd, target>>

(* The request is sent again to the process that the root file system named,
   which the table gets as a new entry if it has room. *)
Redirect(p) ==
  /\ call[p].pc = "replied" /\ call[p].result = "RedirectRequest"
  /\ LET entry == [path |-> SubSeq(call[p].path, 1, call[p].pathMountLength),
                   pid  |-> call[p].pid]
     IN  table' = [table EXCEPT ![p] =
                     IF Len(@) < MaxClientMounts THEN Append(@, entry) ELSE @]
  /\ call' = [call EXCEPT ![p] = [NoCall EXCEPT !.pc = "sent",
                !.action = call[p].action, !.path = call[p].path,
                !.to = call[p].pid]]
  /\ UNCHANGED <<mounts, fs, status, restarts, fd, target>>

(* A call returns to the program; openFile() takes the descriptor, if it is
   vacant. *)
Return(c) ==
  /\ call[c].pc = "replied" /\ call[c].result # "RedirectRequest"
  /\ fd' = IF /\ call[c].action = "StatFile" /\ call[c].result = "Success"
              /\ fd[c] = None
             THEN [fd EXCEPT ![c] = [pid |-> call[c].to, inode |-> call[c].inode,
                                     file |-> call[c].file]]
             ELSE fd
  /\ call' = [call EXCEPT ![c] = NoCall]
  /\ UNCHANGED <<mounts, table, fs, status, restarts, target>>

-----------------------------------------------------------------------------
(* Servers *)

(* ChannelServer::readChannels() *)
ReadChannel(s, p) ==
  /\ status[s] = "run"
  /\ call[p].pc = "sent" /\ call[p].to = s
  /\ \A q \in Callers : ~(call[q].pc = "taken" /\ call[q].to = s)
  /\ call' = [call EXCEPT ![p].pc = "taken"]
  /\ UNCHANGED <<mounts, table, fs, status, restarts, fd, target>>

Handles(s, p, actions) ==
  /\ status[s] = "run"
  /\ call[p].pc = "taken" /\ call[p].to = s
  /\ call[p].action \in actions


(* The table with p mounted: in the entry it has already, or in a new one. *)
mounted(p) ==
  LET old == {i \in DOMAIN mounts : mounts[i].path = MountPath[p]}
  IN  IF old = {}
        THEN Append(mounts, [path |-> MountPath[p], pid |-> p])
        ELSE [mounts EXCEPT ![CHOOSE i \in old : TRUE].pid = p]

mountHandler(p) ==
  /\ Handles(Root, p, {"MountFileSystem"})
  /\ IF Len(mounted(p)) <= MaxMounts
       THEN mounts' = mounted(p) /\ sendResponse(p, "Success")
       ELSE UNCHANGED mounts /\ sendResponse(p, "IOError")
  /\ UNCHANGED <<table, fs, status, restarts, fd, target>>

(* The table is copied over that of the caller, as far as it fits. *)
getFileSystemsHandler(p) ==
  /\ Handles(Root, p, {"GetFileSystems"})
  /\ table' = [table EXCEPT ![p] =
       SubSeq(mounts, 1, IF Len(mounts) < MaxClientMounts
                           THEN Len(mounts) ELSE MaxClientMounts)]
  /\ sendResponse(p, "Success")
  /\ UNCHANGED <<mounts, fs, status, restarts, fd, target>>

(* Mutant: no response when the file is gone. *)
inodeHandler_silent(s, p) ==
  /\ Handles(s, p, {"ReadFile"})
  /\ IF call[p].inode \in DOMAIN fs[s].inodes
       THEN sendResponse(p, "Success")
       ELSE call' = [call EXCEPT ![p].pc = "waiting"]
  /\ UNCHANGED <<mounts, table, fs, status, restarts, fd, target>>

(* readFile() and writeFile() of a file that is there succeed. *)
inodeHandler(s, p) ==
  /\ Handles(s, p, {"ReadFile"})
  /\ sendResponse(p, IF call[p].inode \in DOMAIN fs[s].inodes
                       THEN "Success" ELSE "NotFound")
  /\ UNCHANGED <<mounts, table, fs, status, restarts, fd, target>>

(* WaitFileSystem has its answer when the path is mounted, other requests are
   sent on. *)
redirectRequest(p) ==
  LET i == longestMatch(mounts, call[p].path)
  IN  /\ i # 0
      /\ call' = [call EXCEPT ![p].pc = "replied",
           ![p].result = IF call[p].action = "WaitFileSystem"
                           THEN "Success" ELSE "RedirectRequest",
           ![p].pid = mounts[i].pid,
           ![p].pathMountLength = Len(mounts[i].path)]

PathActions == {"CreateFile", "DeleteFile", "StatFile", "WaitFileSystem"}

(* m_mountPath is cut off without a look at it.  The root file system cannot
   create files. *)
RelativePath(s, path) ==
  IF s = Root THEN path ELSE SubSeq(path, Len(MountPath[s]) + 1, Len(path))

performRequest(s, p) ==
  LET path    == RelativePath(s, call[p].path)
      found   == path \in DOMAIN fs[s].files
      created == registerFile(createFile(fs[s]), path)
      removed == unregisterFile(fs[s], path)
      file    == fs[s].files[path]
  IN  \/ /\ call[p].action = "CreateFile" /\ (found \/ s = Root)
         /\ sendResponse(p, IF found THEN "AlreadyExists" ELSE "IOError")
         /\ UNCHANGED fs
      \/ /\ call[p].action = "CreateFile" /\ ~found /\ s # Root
         /\ fs' = [fs EXCEPT ![s] = created.fs]
         /\ sendResponse(p, created.result)
      \/ /\ call[p].action \in {"DeleteFile", "StatFile"} /\ ~found
         /\ sendResponse(p, "NotFound")
         /\ UNCHANGED fs
      \/ /\ call[p].action = "DeleteFile" /\ found
         /\ fs' = [fs EXCEPT ![s] = removed.fs]
         /\ sendResponse(p, removed.result)
      \/ /\ call[p].action = "StatFile" /\ found
         /\ call' = [call EXCEPT ![p].pc = "replied", ![p].result = "Success",
              ![p].inode = file.inode, ![p].file = <<restarts[s], file.serial>>]
         /\ UNCHANGED fs
      \/ /\ call[p].action = "WaitFileSystem"
         /\ call' = [call EXCEPT ![p].pc = "waiting"]
         /\ UNCHANGED fs

(* processRequest() of a request that has just been read *)
pathHandler(s, p) ==
  /\ Handles(s, p, PathActions)
  /\ IF s = Root /\ longestMatch(mounts, call[p].path) # 0
       THEN redirectRequest(p) /\ UNCHANGED fs
       ELSE performRequest(s, p)
  /\ UNCHANGED <<mounts, table, status, restarts, fd, target>>

(* The handler of the request that was read *)
HandleRequest(s) ==
  \E p \in Callers :
    \/ inodeHandler(s, p)
    \/ pathHandler(s, p)
    \/ s = Root /\ mountHandler(p)
    \/ s = Root /\ getFileSystemsHandler(p)

(* retryRequests() of the root file system answers a request that waits. *)
retryRequest(p) ==
  /\ status[Root] = "run"
  /\ \A q \in Callers : ~(call[q].pc = "taken" /\ call[q].to = Root)
  /\ call[p].pc = "waiting"
  /\ redirectRequest(p)
  /\ UNCHANGED <<mounts, table, fs, status, restarts, fd, target>>

(* main() makes an empty file system and asks the root file system to mount
   it. *)
Mount(s) ==
  /\ status[s] = "down"
  /\ Request(s, "MountFileSystem", MountPath[s], Root)
  /\ status' = [status EXCEPT ![s] = "mounting"]
  /\ UNCHANGED <<mounts, table, fs, restarts, fd, target>>

(* mount() asserts that the request succeeded. *)
Mounted(s) ==
  /\ status[s] = "mounting" /\ call[s].pc = "replied"
  /\ status' = [status EXCEPT ![s] =
                  IF call[s].result = "Success" THEN "run" ELSE "failed"]
  /\ call' = [call EXCEPT ![s] = NoCall]
  /\ UNCHANGED <<mounts, table, fs, restarts, fd, target>>

-----------------------------------------------------------------------------
(* Recovery *)

(* The process is stopped, then its program is looked up.  openFile() and
   readFile() of the program, which follow, go to the same server. *)
RestartProcess(s) ==
  /\ target = None /\ s \in Restartable
  /\ status[s] \in {"run", "stopped"} /\ restarts[s] < MaxRestarts
  /\ target' = s
  /\ status' = [status EXCEPT ![s] = "stopped"]
  /\ Request(Recovery, "StatFile", Program, findMount(Recovery, Program))
  /\ UNCHANGED <<mounts, table, fs, restarts, fd>>

(* The memory of the program is replaced and the process resumed.  What it had
   read from its channels is gone. *)
ReloadProgram ==
  /\ call[Recovery].pc = "replied" /\ call[Recovery].result = "Success"
  /\ fs' = [fs EXCEPT ![target] = Empty]
  /\ status' = [status EXCEPT ![target] = "down"]
  /\ restarts' = [restarts EXCEPT ![target] = @ + 1]
  /\ call' = [p \in Callers |->
       CASE p = Recovery -> NoCall
         [] call[p].to = target /\ call[p].pc = "taken"
              -> [call[p] EXCEPT !.pc = "lost"]
         [] OTHER -> call[p]]
  /\ target' = None
  /\ UNCHANGED <<mounts, table, fd>>

(* An error after the Stop: the process stays stopped. *)
ReloadFails ==
  /\ call[Recovery].pc = "replied" /\ call[Recovery].result # "RedirectRequest"
  /\ call' = [call EXCEPT ![Recovery] = NoCall]
  /\ target' = None
  /\ UNCHANGED <<mounts, table, fs, status, restarts, fd>>

-----------------------------------------------------------------------------
(* The directory of the programs, and in it the program of the servers *)
RootTree ==
  registerFile(createFile(registerFile(createFile(Empty), Front(Program)).fs),
               Program).fs

Init ==
  /\ mounts = <<>>
  /\ table = [p \in Callers |-> <<>>]
  /\ fs = [s \in Mountable |->
             IF s = Root THEN RootTree ELSE Empty]
  /\ status = [s \in Mountable |-> IF s = Root THEN "run" ELSE "down"]
  /\ restarts = [s \in Mountable |-> 0]
  /\ call = [p \in Callers |-> NoCall]
  /\ fd = [c \in Clients |-> None]
  /\ target = None

Next ==
  \/ \E c \in Clients :
       \/ CreateFile(c) \/ DeleteFile(c) \/ OpenFile(c)
       \/ AccessFile(c) \/ CloseFile(c)
       \/ WaitFileSystem(c) \/ GetFileSystems(c)
       \/ Return(c) \/ retryRequest(c)
  \/ \E p \in Clients \union {Recovery} : Redirect(p)
  \/ \E s \in Mountable : HandleRequest(s) \/ \E p \in Callers : ReadChannel(s, p)
  \/ \E s \in Servers : Mount(s) \/ Mounted(s) \/ RestartProcess(s)
  \/ ReloadProgram
  \/ ReloadFails

Spec == Init /\ [][Next]_vars

(* Every process is scheduled: a server reads and handles requests, programs and
   the recovery server go on when they have an answer.  The root file system
   reads all of its channels in turn and then retries what waits, so a request
   of a program or of the recovery server is not overtaken for ever. *)
Fairness ==
  /\ \A c \in Clients :
       /\ WF_vars(Redirect(c) \/ Return(c))
       /\ SF_vars(retryRequest(c))
  /\ \A p \in Clients \union {Recovery} : SF_vars(ReadChannel(Root, p))
  /\ \A s \in Servers, c \in Clients : WF_vars(ReadChannel(s, c))
  /\ \A s \in Servers : WF_vars(ReadChannel(Root, s))
  /\ \A s \in Servers : WF_vars(Mount(s) \/ Mounted(s))
  /\ \A s \in Mountable : WF_vars(HandleRequest(s))
  /\ WF_vars(Redirect(Recovery) \/ ReloadProgram \/ ReloadFails)

-----------------------------------------------------------------------------
(* The four records that a server keeps of a file agree after any sequence of
   requests and restarts: the inode map holds exactly the files of the cache,
   each under its own inode; the parent of a file is in the cache; a directory
   lists exactly the files below it (registerFile, clearFileCache). *)
TreeConsistent ==
  \A s \in Mountable :
    LET f == fs[s] IN
    /\ DOMAIN f.inodes = {f.files[p].inode : p \in DOMAIN f.files}
    /\ \A p \in DOMAIN f.files :
         /\ f.inodes[f.files[p].inode] = f.files[p].serial
         /\ p # <<>> => Front(p) \in DOMAIN f.files
         /\ f.files[p].names = {Last(q) : q \in children(f, p)}

(* A descriptor names its file by process and inode only.  As long as the server
   was not restarted, what it reaches by them is the file that was opened, or
   nothing when that one was deleted, whatever was created since
   (getNextInode). *)
DescriptorReachesItsFile ==
  \A c \in Clients :
    LET d == fd[c] IN
    /\ d # None
    /\ d.file[1] = restarts[d.pid]
    /\ d.inode \in DOMAIN fs[d.pid].inodes
    => fs[d.pid].inodes[d.inode] = d.file[2]

(* A server cuts the length of its mount path off the path of a request without
   comparing it (processRequest).  No request reaches it by a table, old or new,
   whose path does not begin with that mount path. *)
RoutedUnderMount ==
  \A p \in Callers :
    call[p].to \in Servers /\ call[p].action \in PathActions
      => IsPrefix(MountPath[call[p].to], call[p].path)

(* The assertion of FileSystemServer::mount(): with room for every server in the
   table a mount never fails, however often servers are restarted. *)
MountSucceeds == \A s \in Servers : status[s] # "failed"

(* A call comes back, unless its server is stopped or was restarted after it had
   read the request. *)
CallReturns ==
  \A c \in Clients :
    (call[c].pc = "sent" /\ call[c].action # "WaitFileSystem") ~>
      \/ call[c].pc \in {"idle", "lost"}
      \/ call[c].to \in Servers /\ status[call[c].to] = "stopped"

(* A program that waits for a file system goes on when it is mounted. *)
WaitFileSystemReturns ==
  \A c \in Clients :
    (call[c].pc = "waiting" /\ longestMatch(mounts, call[c].path) # 0) ~>
      call[c].pc = "idle"

(* A restart ends: the recovery server never waits for the process that it has
   stopped. *)
RestartEnds == target # None ~> target = None


(* A descriptor reaches the file it was opened on, in a tree of files that  *)
(* stays consistent (FileSystemServer.cpp, FileDescriptor.cpp).             *)
FileReached == TreeConsistent /\ DescriptorReachesItsFile

=============================================================================
