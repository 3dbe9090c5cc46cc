--------------------------------- MODULE Host ---------------------------------
(***************************************************************************)
(* The programs of the repository built for the host (lib/libarch/host).   *)
(* There is no kernel: a trap becomes a call of hostApiHandler, and        *)
(* HostShareManager emulates memory shares.  The pages two processes share *)
(* are a POSIX shared memory file named after the unordered pair of their  *)
(* identifiers; the creator sends SIGUSR1 to the other process, whose      *)
(* handler maps the file and writes a ShareCreated event to its own        *)
(* "kernel" channel.  A second file marks a process as ready for signals.  *)
(*                                                                         *)
(* Standard signals are not queued: while one is pending another one is    *)
(* dropped, with the identifier of its sender.  The body of a handler is   *)
(* one step; it may fall between any two steps of the code it interrupts.  *)
(***************************************************************************)
EXTENDS Naturals, Sequences, FiniteSets
CONSTANTS Processes,    \* identifiers, from 1; 0 is KERNEL_PID
          Creators,     \* the ones whose programs connect to another one
          MaxCreates,   \* calls of createShare by a program
          MaxObjects    \* shared memory files made under one name
VARIABLE hs
KERNEL_PID == 0
None == 99

(* getChannelName: the lower identifier first, whoever asks. *)
getChannelName(p, q) == IF p < q THEN <<p, q>> ELSE <<q, p>>
Names == {getChannelName(p, q) : p \in Processes, q \in Processes \cup {KERNEL_PID}}
NoShare == [obj |-> 0, mapped |-> FALSE]

(* One record for the file system of shared memory files, the ready files  *)
(* and the processes.  A name maps to the number of its file, 0 if absent. *)
Init ==
  hs = [shm |-> [n \in Names |-> 0], made |-> [n \in Names |-> 0], sized |-> {}, ready |-> {},
        pc |-> [p \in Processes |-> "start"], handler |-> {}, target |-> [p \in Processes |-> KERNEL_PID],
        fd |-> [p \in Processes |-> 0], m_shares |-> [p \in Processes |-> [q \in Processes \cup {KERNEL_PID} |-> NoShare]],
        pending |-> [p \in Processes |-> None], events |-> [p \in Processes |-> {}],
        told |-> {}, creates |-> [p \in Processes |-> 0], left |-> {}, killed |-> {},
        heap |-> 0, trap |-> [op |-> "none", result |-> "Success", freed |-> FALSE]]

Gone == {"exited", "crashed"}
Leaving == {"clean", "unready", "destroy", "last"}
At(p, where) == hs.pc[p] = where
Goto(p, where) == [hs.pc EXCEPT ![p] = where]
(* shm_open(name, O_CREAT): the file of that name, a new one if absent. *)
Opened(n) == IF hs.shm[n] = 0 THEN hs.made[n] + 1 ELSE hs.shm[n]

(* initialize: the two handlers, then the kernel channel, then ready. *)
InstallHandlers(p) ==
  /\ At(p, "start") /\ hs.trap.op = "none"
  /\ hs' = [hs EXCEPT !.handler = @ \cup {p}, !.pc = Goto(p, "handlers")]
KernelChannel(p) ==
  LET n == getChannelName(p, KERNEL_PID) IN
    /\ At(p, "handlers")
    /\ hs' = [hs EXCEPT !.shm[n] = Opened(n), !.made[n] = 1, !.sized = @ \cup {<<n, Opened(n)>>},
                        !.m_shares[p][KERNEL_PID] = [obj |-> Opened(n), mapped |-> TRUE], !.pc = Goto(p, "mapped")]
SetReady(p) ==
  /\ At(p, "mapped")
  /\ hs' = [hs EXCEPT !.ready = @ \cup {p}, !.pc = Goto(p, "idle")]

(* createShare with initialize and notify: shm_open ... *)
Open(p, q) ==
  LET n == getChannelName(p, q) IN
    /\ hs.trap.op = "none"
    /\ At(p, "idle") /\ p \in Creators /\ q # p /\ hs.creates[p] < MaxCreates
    /\ Opened(n) <= MaxObjects
    /\ hs' = [hs EXCEPT !.shm[n] = Opened(n), !.made[n] = IF @ < Opened(n) THEN Opened(n) ELSE @,
                        !.fd[p] = Opened(n), !.target[p] = q, !.creates[p] = @ + 1, !.pc = Goto(p, "opened")]
(* ... ftruncate, mmap and memset, the copy in m_shares ... *)
Truncate(p) ==
  /\ At(p, "opened")
  /\ hs' = [hs EXCEPT !.sized = @ \cup {<<getChannelName(p, hs.target[p]), hs.fd[p]>>}, !.pc = Goto(p, "sized")]
Insert(p) ==
  /\ At(p, "sized")
  /\ hs' = [hs EXCEPT !.m_shares[p][hs.target[p]] = [obj |-> hs.fd[p], mapped |-> TRUE], !.pc = Goto(p, "inserted")]
(* ... and the wait for the ready file of the other process.  The last     *)
(* look decides: a process that is not ready makes the call fail.          *)
IsReady_always(p) ==
  /\ At(p, "inserted")
  /\ hs' = [hs EXCEPT !.pc = Goto(p, "kill")]
IsReady(p) ==
  /\ At(p, "inserted")
  /\ hs' = [hs EXCEPT !.pc = Goto(p, IF hs.target[p] \in hs.ready THEN "kill" ELSE "idle")]
(* kill: a signal for a process without a handler ends it; one that finds  *)
(* another one pending is dropped; one for a process that is gone fails.   *)
Kill(p) ==
  LET q == hs.target[p]
      n == getChannelName(p, q) IN
    /\ At(p, "kill")
    /\ hs' = IF hs.pc[q] \in Gone
             THEN [hs EXCEPT !.m_shares[p][q].mapped = FALSE, !.shm[n] = 0, !.pc = Goto(p, "idle")]
             ELSE IF q \notin hs.handler
                  THEN [hs EXCEPT !.killed = @ \cup {q}, !.pc = [Goto(p, "idle") EXCEPT ![q] = "crashed"]]
                  ELSE [hs EXCEPT !.pending[q] = IF @ = None THEN p ELSE @, !.told = @ \cup {<<p, q>>},
                                  !.pc = Goto(p, "idle")]

(* signal_sharecreated, notifyShareCreated: createShare without initialize *)
(* and notify maps what the name now stands for, and the event announces   *)
(* it on the kernel channel.                                               *)
ShareCreated(p) ==
  LET q == hs.pending[p]
      n == getChannelName(p, q) IN
    /\ q # None /\ hs.pc[p] \notin Gone
    /\ Opened(n) <= MaxObjects
    /\ hs' = [hs EXCEPT !.shm[n] = Opened(n), !.made[n] = IF @ < Opened(n) THEN Opened(n) ELSE @,
                        !.m_shares[p][q] = [obj |-> Opened(n), mapped |-> TRUE],
                        !.events[p] = @ \cup {<<q, Opened(n)>>}, !.pending[p] = None]

(* signal_terminate: terminate, then exit, whose destructor terminates     *)
(* once more.  A program that returns from main does the latter only.      *)
Terminate(p) ==
  /\ p \in hs.handler /\ hs.pc[p] \notin Gone \cup Leaving
  /\ hs' = [hs EXCEPT !.pc = Goto(p, "clean"), !.left = @ \cup {p}]
Exit(p) ==
  /\ At(p, "idle")
  /\ hs' = [hs EXCEPT !.pc = Goto(p, "destroy"), !.left = @ \cup {p}]
(* terminate: every share's file is unlinked and the table emptied ... *)
Unlinked(p) == {getChannelName(p, q) : q \in {r \in Processes \cup {KERNEL_PID} : hs.m_shares[p][r] # NoShare}}
Clean(p) ==
  /\ hs.pc[p] \in {"clean", "destroy"}
  /\ hs' = [hs EXCEPT !.shm = [n \in Names |-> IF n \in Unlinked(p) THEN 0 ELSE @[n]],
                      !.m_shares[p] = [q \in Processes \cup {KERNEL_PID} |-> NoShare],
                      !.pc = Goto(p, IF At(p, "clean") THEN "unready" ELSE "last")]
(* ... and setReady(false). *)
Unready(p) ==
  /\ hs.pc[p] \in {"unready", "last"}
  /\ hs' = [hs EXCEPT !.ready = @ \ {p}, !.pending[p] = IF At(p, "last") THEN None ELSE @,
                      !.pc = Goto(p, IF At(p, "unready") THEN "destroy" ELSE "exited")]
(* A process killed from outside leaves its files, the ready file as well. *)
Crash(p) ==
  /\ hs.pc[p] \notin Gone /\ p \in hs.ready /\ p = 1
  /\ hs' = [hs EXCEPT !.pc = Goto(p, "crashed"), !.pending[p] = None, !.left = @ \cup {p}]

(* The other traps of a program: hostVMCtlHandler, hostVMCopyHandler,      *)
(* hostVMShareHandler, hostPrivExecHandler and hostProcessCtlHandler, by   *)
(* what they return, in a program that makes no connection.                *)
readShare(p, q) == IF hs.m_shares[p][q] = NoShare THEN "NotFound" ELSE "Success"
hostVMCtlHandler(op, virt, phys) ==
  IF op \in {"UnMap", "LookupVirtual", "MapContiguous"} THEN "Success" ELSE "InvalidArgument"
hostVMCopyHandler(p, q, op) ==
  IF q = p /\ op \in {"Read", "Write"} THEN "Success" ELSE "IOError"
hostVMShareHandler(p, q, op) ==
  CASE op = "Read" -> readShare(p, q)
    [] OTHER -> "InvalidArgument"
hostProcessCtlHandler(op) == IF op \in {"GetPID", "EnterSleep", "InfoTimer"} THEN "Success" ELSE "InvalidArgument"
hostPrivExecHandler(op) == "InvalidArgument"
Trap(p) ==
  /\ At(p, "idle") /\ p = 1 /\ \A q \in Processes \ {p} : At(q, "start")
  /\ \/ \E phys \in {0, 1} :
          hs' = [hs EXCEPT !.heap = IF phys = 0 /\ @ = 0 THEN @ + 1 ELSE @,
                           !.trap = [op |-> "MapContiguous", result |-> hostVMCtlHandler("MapContiguous", 0, phys), freed |-> FALSE]]
     \/ hs' = [hs EXCEPT !.heap = 0,
                         !.trap = [op |-> "Release", result |-> hostVMCtlHandler("Release", hs.heap, 0), freed |-> hs.heap > 0]]
     \/ \E q \in Processes, op \in {"Read", "Write", "ReadPhys"} :
          hs' = [hs EXCEPT !.trap = [op |-> "VMCopy", result |-> hostVMCopyHandler(p, q, op), freed |-> FALSE]]
     \/ \E q \in Processes, op \in {"Read", "Delete"} :
          hs' = [hs EXCEPT !.trap = [op |-> "VMShare", result |-> hostVMShareHandler(p, q, op), freed |-> FALSE]]
     \/ \E op \in {"EnterSleep", "Spawn"} :
          hs' = [hs EXCEPT !.trap = [op |-> "ProcessCtl", result |-> hostProcessCtlHandler(op), freed |-> FALSE]]
     \/ hs' = [hs EXCEPT !.trap = [op |-> "WriteConsole", result |-> hostPrivExecHandler("WriteConsole"), freed |-> FALSE]]

Next ==
  \E p \in Processes :
    \/ InstallHandlers(p)
    \/ KernelChannel(p)
    \/ SetReady(p)
    \/ \E q \in Processes : Open(p, q)
    \/ Truncate(p)
    \/ Insert(p)
    \/ IsReady(p)
    \/ Kill(p)
    \/ ShareCreated(p)
    \/ Terminate(p)
    \/ Exit(p)
    \/ Clean(p)
    \/ Unready(p)
    \/ Crash(p)
    \/ Trap(p)

-----------------------------------------------------------------------------
(* A process is never ended by the notification: the ready file is made    *)
(* after the handler of SIGUSR1 is installed, and createShare looks for it.*)
SignalsHandled == hs.killed = {}

(* A ShareCreated event names pages that exist: the creator gave the file  *)
(* its size before it sent the signal, unless one of the two has ended or  *)
(* begun to, and the name was taken away.                                  *)
AnnouncedUsable ==
  \A p \in Processes : \A e \in hs.events[p] :
    p \notin hs.left /\ e[1] \notin hs.left => <<getChannelName(p, e[1]), e[2]>> \in hs.sized

(* Two processes that hold a share of each other map the same pages, while *)
(* neither has begun to terminate, however their calls overlapped.         *)
SamePages ==
  \A p, q \in Processes \ hs.left :
    p # q /\ hs.m_shares[p][q].mapped /\ hs.m_shares[q][p].mapped
      => hs.m_shares[p][q].obj = hs.m_shares[q][p].obj

(* "Signal the remote process to raise kernel event here, if needed": every*)
(* process that was signalled learns of the share.                         *)
EveryShareAnnounced ==
  \A c \in hs.told : hs.pc[c[2]] \in Gone \cup Leaving \/ hs.pending[c[2]] = c[1] \/ \E e \in hs.events[c[2]] : e[1] = c[1]

(* "On terminate, we must cleanup all shares": when every process has      *)
(* terminated no file is left.                                             *)
AllCleaned == (\A p \in Processes : At(p, "exited")) => \A n \in Names : hs.shm[n] = 0

(* "@return Result code": memory that was released is reported so. *)
ReleaseReported == hs.trap.op = "Release" /\ hs.trap.freed => hs.trap.result = "Success"

(* A share a process can still read from its table is mapped. *)
ReadSharesMapped == \A p \in Processes : \A q \in Processes : hs.m_shares[p][q] # NoShare => hs.m_shares[p][q].mapped
=============================================================================
