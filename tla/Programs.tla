------------------------------- MODULE Programs -------------------------------
(* The shell, the start of the system, and the programs of bin. *)
EXTENDS Sequences, FiniteSets, Integers, SequencesExt

(***************************************************************************)
(* The command shell, the ApplicationLauncher it starts programs with and  *)
(* the calls below it: forkexec, waitpid, kill and the kernel's process    *)
(* table, whose identifiers are indexes that are given out again.          *)
(* A line is a sequence of words and "sp"; programs exit on their own, and *)
(* other processes start programs at any moment.                           *)
(***************************************************************************)

CONSTANTS Scripts,      \* sequences of lines
          Shell_Files,  \* paths that hold a program
          Shell_Pids,   \* slots of the process table
          Codes,        \* exit codes
          MaxArgv,      \* MAX_ARGV
          MaxOthers,    \* programs other processes start
          Shell_MaxKeys, LineMax
VARIABLE sh

Builtins == {"cd", "exit", "stdio", "write", "help", "time"}
MinimumParams == [cd |-> 1, exit |-> 0, stdio |-> 2, write |-> 2, help |-> 0, time |-> 1]
Fds == 0 .. 4
Unset == 99             \* an int that was never assigned

Shell_Init ==
  /\ sh \in [mode : {"script", "interactive", "launcher"}, pc : {"idle"}, lines : Scripts, rest : {<<>>}, argv : {<<>>},
          background : {FALSE}, timed : {FALSE}, pid : {0}, child : {0}, foreground : {FALSE}, status : {Unset}, returned : {Unset},
          procs : {[p \in Shell_Pids |-> 0]}, exits : {<<>>}, waiting : {0}, others : {0},
          fds : {[f \in Fds |-> IF f <= 2 THEN "tty" ELSE ""]}, failed : {FALSE}, cwd : {"/"},
          keys : {<<>>}, line : {<<>>}, total : {0}, launched : {"none"}, waited : {"none"}]
  /\ sh.mode /= "script" => sh.lines = CHOOSE l \in Scripts : TRUE

(* The kernel: ProcessCtl on the process table. *)
Shell_Free == {p \in Shell_Pids : sh.procs[p] = 0}
Lowest(S) == CHOOSE x \in S : \A y \in S : x <= y
Serial == Len(sh.exits) + 1
Shell_Started(s, p) == [s EXCEPT !.procs[p] = Len(s.exits) + 1, !.exits = Append(@, Unset)]
(* A process that ends leaves the table, and who waits for its identifier    *)
(* is given its exit code.                                                    *)
Shell_Ended(p, code) ==
  [sh EXCEPT !.exits[sh.procs[p]] = code, !.procs[p] = 0,
             !.status = IF sh.waiting = p THEN code ELSE @,
             !.pc = IF sh.waiting = p THEN "waited" ELSE @,
             !.waiting = IF sh.waiting = p THEN 0 ELSE @]
ProcessExits == \E p \in Shell_Pids, code \in Codes : sh.procs[p] /= 0 /\ sh' = Shell_Ended(p, code)
OtherStarts == /\ sh.mode /= "interactive" /\ sh.others < MaxOthers /\ Shell_Free /= {}
               /\ sh' = [Shell_Started(sh, Lowest(Shell_Free)) EXCEPT !.others = @ + 1]

openFile(s, file) == LET free == {f \in Fds : s.fds[f] = ""} IN IF free = {} THEN s ELSE [s EXCEPT !.fds[Lowest(free)] = file]
closeFile(s, f) == [s EXCEPT !.fds[f] = ""]

(* forkexec: where it fails decides what has been given back by then. *)
FailPoints == {"open", "map", "read", "lz4", "map2", "spawn", "none"}
Shell_forkexec(path, fail, s) ==
  CASE path \notin Shell_Files \/ fail = "open" -> s
    [] fail = "map"  -> [openFile(s, path) EXCEPT !.failed = TRUE]
    [] fail \in {"read", "lz4", "map2", "spawn"} -> s
    [] OTHER -> [Shell_Started(s, Lowest(Shell_Free)) EXCEPT !.pid = Lowest(Shell_Free), !.child = Serial]
CanFail(path) == IF path \notin Shell_Files THEN {"none"} ELSE IF Shell_Free = {} THEN FailPoints \ {"none"} ELSE FailPoints
Runs(path, fail) == path \in Shell_Files /\ fail = "none"

(* waitpid: an identifier that is not in the table is NotFound, and then     *)
(* nothing is stored in the status.                                           *)
waitpid_polls(p) == sh' = [sh EXCEPT !.pc = "waited"]
waitpid(p) ==
  sh' = IF sh.procs[p] = 0 THEN [sh EXCEPT !.pc = "waited"] ELSE [sh EXCEPT !.pc = "waiting", !.waiting = p]

return(s, code) == [s EXCEPT !.pc = "idle", !.returned = code, !.argv = <<>>, !.timed = FALSE]

(* Shell::exec: every line of the script is executed; empty ones do nothing. *)
execLine ==
  /\ sh.mode = "script" /\ sh.pc = "idle" /\ sh.lines /= <<>>
  /\ sh' = [sh EXCEPT !.lines = Tail(@), !.rest = Head(sh.lines), !.argv = <<>>, !.background = FALSE,
                      !.pc = IF Head(sh.lines) = <<>> THEN "idle" ELSE "parse",
                      !.foreground = FALSE, !.child = 0, !.status = Unset, !.returned = Unset]

Skip(line) == LET words == {k \in 1..Len(line) : line[k] /= "sp"}
              IN  IF words = {} THEN <<>> ELSE SubSeq(line, Lowest(words), Len(line))
(* parse: one word of the line. *)
parse ==
  /\ sh.pc = "parse"
  /\ LET rest == Skip(sh.rest)
     IN  sh' = IF Len(sh.argv) = MaxArgv \/ sh.rest = <<>> THEN [sh EXCEPT !.pc = "execute"]
               ELSE IF rest /= <<>> /\ Head(rest) = "&" THEN [sh EXCEPT !.background = TRUE, !.pc = "execute"]
               ELSE [sh EXCEPT !.argv = Append(@, IF rest = <<>> THEN "" ELSE Head(rest)),
                               !.rest = SubSeq(rest, 3, Len(rest))]

runProgram(path, fail, s) == Shell_forkexec(path, fail, s)
(* executeInput: comments, programs and the commands of the shell itself. *)
Shell_Command == sh.argv[1]
Params == Len(sh.argv) - 1
AsFile == [s \in Shell_Files \cup {"prog", "none", ""} |-> IF s \in {"prog", "none", ""} THEN "/bin/" \o s ELSE s]
executeProgram ==
  /\ sh.pc = "execute" /\ sh.argv /= <<>> /\ Shell_Command \notin Builtins /\ Shell_Command /= "#"
  /\ \E f1 \in CanFail(Shell_Command) : \E f2 \in CanFail(AsFile[Shell_Command]) :
       LET s1 == runProgram(Shell_Command, f1, sh)
           s2 == IF Runs(Shell_Command, f1) \/ AsFile[Shell_Command] = Shell_Command THEN s1 ELSE runProgram(AsFile[Shell_Command], f2, s1)
       IN  sh' = IF s2.child = 0 THEN return(s2, 1)
                 ELSE IF sh.background THEN return(s2, 0)
                 ELSE [s2 EXCEPT !.foreground = TRUE, !.pc = "wait"]
Wait == sh.mode = "script" /\ sh.pc = "wait" /\ waitpid(sh.pid)
Waited == sh.mode = "script" /\ sh.pc = "waited" /\ sh' = return(sh, sh.status)

(* The commands of the shell. *)
stdio(input, output) ==
  LET closed == closeFile(closeFile(closeFile(sh, 0), 1), 2)
      in     == IF input THEN openFile(closed, sh.argv[2]) ELSE closed
  IN  IF output THEN openFile(openFile(in, sh.argv[3]), sh.argv[3]) ELSE in
write(ok) == LET s == openFile(sh, sh.argv[2])
             IN  IF s = sh THEN return(sh, 1)
                 ELSE IF ok THEN return(sh, 0) ELSE return([s EXCEPT !.failed = TRUE], 1)
time == sh' = [sh EXCEPT !.argv = Tail(@), !.background = FALSE, !.timed = TRUE]
cd(ok) == sh' = return([sh EXCEPT !.cwd = IF ok THEN sh.argv[2] ELSE @], IF ok THEN 0 ELSE 1)
help == sh' = return(sh, 0)
Shell_exit == sh' = [sh EXCEPT !.pc = "gone"]
execute == \/ Shell_Command = "time" /\ time
           \/ Shell_Command = "cd" /\ \E ok \in BOOLEAN : cd(ok)
           \/ Shell_Command = "stdio" /\ \E i, o \in BOOLEAN : sh' = return(stdio(i, o), 0)
           \/ Shell_Command = "write" /\ \E ok \in BOOLEAN : sh' = write(ok)
           \/ Shell_Command = "help" /\ help
           \/ Shell_Command = "exit" /\ Shell_exit
executeCommand ==
  /\ sh.pc = "execute" /\ sh.argv /= <<>> /\ (Shell_Command \in Builtins \/ Shell_Command = "#")
  /\ IF Shell_Command = "#" THEN sh' = return(sh, 0)
     ELSE IF Params < MinimumParams[Shell_Command] THEN sh' = return(sh, 1)
     ELSE execute

(* getInput: one character of the line that is typed. *)
getInput ==
  /\ sh.mode = "interactive" /\ sh.pc = "idle" /\ Len(sh.keys) < Shell_MaxKeys
  /\ \E key \in {"a", "b", "backspace", "enter"} :
       LET stored == [sh.line EXCEPT ![sh.total + 1] = key]
           buffer == IF Len(sh.line) > sh.total THEN stored ELSE Append(sh.line, key)
           total  == IF key = "backspace" THEN IF sh.total > 0 THEN sh.total - 1 ELSE 0 ELSE sh.total + 1
       IN  sh' = [sh EXCEPT !.keys = Append(@, key), !.line = buffer,
                            !.total = IF key = "enter" THEN @ ELSE total,
                            !.pc = IF key = "enter" \/ total = LineMax THEN "typed" ELSE @]
prompt == sh.mode = "interactive" /\ sh.pc = "typed" /\ sh' = [sh EXCEPT !.pc = "idle", !.keys = <<>>, !.total = 0]

(* ApplicationLauncher: exec(), then terminate() and wait() in any order. *)
Shell_exec == /\ sh.mode = "launcher" /\ sh.pc = "idle" /\ sh.launched = "none"
        /\ \E path \in Shell_Files \cup {"none"} : \E f \in CanFail(path) :
             sh' = [Shell_forkexec(path, f, sh) EXCEPT !.launched = IF Runs(path, f) THEN "Success" ELSE "IOError", !.pc = "ready"]
kill(pid) == sh' = IF sh.procs[pid] = 0 THEN sh ELSE Shell_Ended(pid, 1)
terminate == sh.mode = "launcher" /\ sh.pc = "ready" /\ sh.pid /= 0 /\ kill(sh.pid)
wait == /\ sh.mode = "launcher" /\ sh.pc = "ready" /\ sh.waited = "none"
        /\ IF sh.pid = 0 THEN sh' = [sh EXCEPT !.waited = "InvalidArgument"] ELSE waitpid(sh.pid)
waitDone == /\ sh.mode = "launcher" /\ sh.pc = "waited"
            /\ sh' = [sh EXCEPT !.pc = "ready", !.waited = IF sh.status = Unset THEN "NotFound" ELSE "Success"]

Shell_Next == \/ ProcessExits \/ OtherStarts \/ execLine \/ parse \/ executeProgram \/ Wait \/ Waited
        \/ executeCommand \/ getInput \/ prompt \/ Shell_exec \/ terminate \/ wait \/ waitDone

-----------------------------------------------------------------------------
(* A program that was not started in the background has ended when the shell  *)
(* goes on, and a launcher's wait() answers only then, even though the        *)
(* identifier it waits for may by now be another process's.                   *)
ForegroundEnded ==
  /\ sh.mode = "script" /\ sh.pc = "idle" /\ sh.foreground => sh.exits[sh.child] /= Unset
  /\ sh.waited \in {"Success", "NotFound"} => sh.exits[sh.child] /= Unset

(* The files that forkexec and the shell's commands open are closed again,     *)
(* unless mapping the program's image or a write failed.                        *)
FilesClosed == ~ sh.failed => \A f \in Fds \ 0..2 : sh.fds[f] = ""

(* The line the shell executes is what was typed, with every backspace        *)
(* taking away the character before it.                                       *)
LineAsTyped ==
  sh.pc = "typed" =>
    LET edit[k \in 0..Len(sh.keys)] ==
          IF k = 0 THEN <<>>
          ELSE CASE sh.keys[k] = "backspace" -> SubSeq(edit[k - 1], 1, Len(edit[k - 1]) - 1)
                 [] sh.keys[k] = "enter" -> edit[k - 1]
                 [] OTHER -> Append(edit[k - 1], sh.keys[k])
    IN  SubSeq(sh.line, 1, sh.total) = edit[Len(sh.keys)]

(* "The wait() and waitpid() functions shall obtain status information        *)
(* pertaining to one of the caller's child processes": what the shell reports *)
(* for a program in the foreground is that program's exit code.               *)
StatusOfChild == sh.mode = "script" /\ sh.pc = "idle" /\ sh.foreground => sh.returned = sh.exits[sh.child]

-------------------------------------------------------------------------------
(***************************************************************************)
(* How the programs of a system come up, and how they are listed meanwhile *)
(* (bin/init, bin/sh, bin/mount, bin/sysinfo, bin/ps, bin/netctl): init    *)
(* runs the script of the board in a shell, which starts a server in the   *)
(* background and waits for its mount before it goes on.  Servers end at   *)
(* any time and their PIDs are used again, while a program goes over the   *)
(* mounts or the PIDs.                                                     *)
(***************************************************************************)
CONSTANTS Services,   \* the servers of the script with their mounts, in its order
          SystemStart_Pids,       \* 1 .. the number of processes
          Cores,      \* cores that the CoreServer of core 0 starts
          Networks,   \* the mounts under /network/
          MaxFaults   \* servers that end and requests that fail in a behaviour
VARIABLE ss

SystemStart_Command(do, name, path) == [do |-> do, name |-> name, path |-> path]
Prompt == <<SystemStart_Command("sysinfo", "sysinfo", ""), SystemStart_Command("background", "login", ""), SystemStart_Command("foreground", "login", "")>>
(* init.sh of a board: its servers, each waited for, then the prompts.       *)
Script ==
  [k \in 1 .. 2 * Len(Services) |->
     LET s == Services[(k + 1) \div 2] IN
       IF k % 2 = 1 THEN SystemStart_Command("server", s.name, s.path) ELSE SystemStart_Command("wait", "mount", s.path)] \o Prompt

Off == [kind |-> "off", at |-> 1, snap |-> <<>>, rows |-> <<>>, buffer |-> "", since |-> {}]
(* The kernel starts init, PID 1, on every core; the CoreServer runs on.    *)
SystemStart_Init ==
  \E core \in {0, 1} :
    ss = [core |-> core, procs |-> [p \in SystemStart_Pids |-> IF p = 1 THEN "init" ELSE ""], had |-> [p \in SystemStart_Pids |-> IF p = 1 THEN {"init"} ELSE {}],
          shell |-> 0, line |-> 1, child |-> 0, mounts |-> <<>>, untried |-> Cores, booted |-> {}, failed |-> {},
          faults |-> 0, lister |-> Off, listed |-> FALSE]

SystemStart_Free == {p \in SystemStart_Pids : ss.procs[p] = ""}
NextPid == CHOOSE p \in SystemStart_Free : \A q \in SystemStart_Free : p <= q
SystemStart_Started(s, pid, name) == [s EXCEPT !.procs[pid] = name, !.had[pid] = @ \cup {name}]
Mounts == {ss.mounts[i].path : i \in DOMAIN ss.mounts}
(* A process ends: it is in no list that is being made from here on.        *)
SystemStart_Ended(s, pid) == [s EXCEPT !.procs[pid] = "", !.lister.since = @ \ {pid}]

(* Init: only core 0 has a shell; init ends with it.                        *)
main == ss.core # 0 /\ ss.procs[1] = "init" /\ ss' = SystemStart_Ended(ss, 1)
SystemStart_exec ==
  /\ ss.core = 0 /\ ss.procs[1] = "init" /\ ss.shell = 0 /\ SystemStart_Free # {}
  /\ ss' = [SystemStart_Started(ss, NextPid, "sh") EXCEPT !.shell = NextPid]
SystemStart_exit == ss.shell # 0 /\ ss.procs[1] = "init" /\ ss.procs[ss.shell] # "sh" /\ ss' = SystemStart_Ended(ss, 1)

(* Shell::executeInput, one line of the script: a program in the background *)
(* is left to itself, another is waited for; what a line ends with, or that *)
(* no process was left to run it, does not matter to the next.              *)
executeInput ==
  /\ ss.shell # 0 /\ ss.procs[ss.shell] = "sh" /\ ss.child = 0 /\ ss.line <= Len(Script)
  /\ LET l == Script[ss.line] IN
       ss' = IF SystemStart_Free = {} THEN [ss EXCEPT !.line = @ + 1, !.failed = @ \cup {l.path, l.name}]
             ELSE LET s == SystemStart_Started(ss, NextPid, l.name) IN
               IF l.do \in {"server", "background"} THEN [s EXCEPT !.line = @ + 1] ELSE [s EXCEPT !.child = NextPid]
(* The program in the foreground ends: waitpid returns to the shell.        *)
Return(s) == [SystemStart_Ended(s, s.child) EXCEPT !.child = 0, !.line = @ + 1]
InFront(do) == ss.child # 0 /\ Script[ss.line].do = do
(* Mount::waitForMount: the file system server of the root answers when the *)
(* path is mounted; the program exits with an error if the request fails.   *)
waitForMount(path) == path \in Mounts
MountWait == InFront("wait") /\ waitForMount(Script[ss.line].path) /\ ss' = Return(ss)
RequestFails ==
  /\ InFront("wait") \/ InFront("sysinfo")
  /\ ss.faults < MaxFaults
  /\ ss' = [Return(ss) EXCEPT !.faults = @ + 1, !.failed = @ \cup {Script[ss.line].path, Script[ss.line].name}]
(* SysInfo asks the CoreServer for its cores, which answers when bootAll is *)
(* over; bootAll goes on to the next core when one does not boot.           *)
bootAll ==
  /\ ss.core = 0 /\ ss.untried # {}
  /\ LET c == CHOOSE x \in ss.untried : \A y \in ss.untried : x <= y IN
       \/ ss' = [ss EXCEPT !.untried = @ \ {c}, !.booted = @ \cup {c}]
       \/ ss.faults < MaxFaults /\ ss' = [ss EXCEPT !.untried = @ \ {c}, !.faults = @ + 1]
sysinfo == InFront("sysinfo") /\ ss.untried = {} /\ ss' = Return(ss)
(* A user logs out of the last prompt; the shell is at the end of its script. *)
logout == InFront("foreground") /\ ss' = Return(ss)
endScript == ss.shell # 0 /\ ss.procs[ss.shell] = "sh" /\ ss.line > Len(Script) /\ ss' = SystemStart_Ended(ss, ss.shell)

(* A server mounts its path at the end of its start, and may end before or  *)
(* after it has; the file system server of the root keeps the mount.        *)
IsServer(p) == \E i \in DOMAIN Services : Services[i].name = ss.procs[p]
PathOf(p) == (CHOOSE s \in ToSet(Services) : s.name = ss.procs[p]).path
mount(p) ==
  /\ IsServer(p) /\ PathOf(p) \notin Mounts
  /\ ss' = [ss EXCEPT !.mounts = Append(@, [path |-> PathOf(p), pid |-> p, server |-> ss.procs[p]])]
ServerEnds(p) == IsServer(p) /\ ss.faults < MaxFaults /\ ss' = [SystemStart_Ended(ss, p) EXCEPT !.faults = @ + 1]

(* A program of a user begins to list: mount and netctl with the mounts of  *)
(* that moment (getFileSystems), ps with PID 0 and no snapshot.             *)
Begin(kind) ==
  /\ ss.shell # 0 /\ ~ ss.listed
  /\ ss' = [ss EXCEPT !.listed = TRUE,
              !.lister = [Off EXCEPT !.kind = kind, !.snap = IF kind = "ps" THEN <<>> ELSE ss.mounts, !.since = {p \in SystemStart_Pids : ss.procs[p] # ""}]]
SystemStart_Listing(kind) == ss.lister.kind = kind
Row(row) == [ss EXCEPT !.lister.rows = Append(@, row), !.lister.at = @ + 1]
(* Mount::listMounts: the command of a mount is read from its process.      *)
CommandOf_kept(pid) == IF ss.procs[pid] = "" THEN ss.lister.buffer ELSE ss.procs[pid]
CommandOf(pid) == IF ss.procs[pid] = "" THEN "???" ELSE ss.procs[pid]
listMounts ==
  LET l == ss.lister IN
    /\ SystemStart_Listing("mount") /\ l.at <= Len(l.snap)
    /\ LET cmd == CommandOf(l.snap[l.at].pid) IN
         ss' = [Row([path |-> l.snap[l.at].path, cmd |-> cmd]) EXCEPT !.lister.buffer = cmd]
(* NetCtl::exec and showDevice: two files of a device are read, which fails *)
(* without its server; a PID that is used again never answers (external).   *)
Answered(m) == ss.procs[m.pid] \in {m.server, ""}
Read(m) == ss.procs[m.pid] = m.server
netctl ==
  LET l == ss.lister IN
    /\ SystemStart_Listing("netctl") /\ l.at <= Len(l.snap)
    /\ LET m == l.snap[l.at] IN
         IF m.path \notin Networks THEN ss' = [ss EXCEPT !.lister.at = @ + 1]
         ELSE /\ Answered(m)
              /\ ss' = IF l.buffer = ""
                       THEN [ss EXCEPT !.lister.buffer = IF Read(m) THEN "ipv4" ELSE "none"]
                       ELSE [Row([path |-> m.path, ipv4 |-> l.buffer = "ipv4", ether |-> Read(m)]) EXCEPT !.lister.buffer = ""]
(* ProcessList::exec goes over all PIDs.                                    *)
LastPid == CHOOSE p \in SystemStart_Pids : \A q \in SystemStart_Pids : q <= p
processList ==
  LET at == ss.lister.at IN
    /\ SystemStart_Listing("ps") /\ at <= LastPid
    /\ ss' = IF ss.procs[at] = "" THEN [ss EXCEPT !.lister.at = @ + 1] ELSE Row([pid |-> at, cmd |-> ss.procs[at]])
(* The list is written out.                                                *)
Listed == ~ SystemStart_Listing("off") /\ ss.lister.at > (IF SystemStart_Listing("ps") THEN LastPid ELSE Len(ss.lister.snap)) /\ ss' = [ss EXCEPT !.lister = Off]

SystemStart_Next ==
  \/ main \/ SystemStart_exec \/ SystemStart_exit \/ executeInput \/ MountWait \/ RequestFails \/ bootAll \/ sysinfo \/ logout \/ endScript
  \/ \E p \in SystemStart_Pids : mount(p) \/ ServerEnds(p)
  \/ \E kind \in {"mount", "netctl", "ps"} : Begin(kind)
  \/ listMounts \/ netctl \/ processList \/ Listed

(* What the script is past is there: every path that it waited for is      *)
(* mounted, and the CoreServer has gone over all cores, unless the request *)
(* itself failed; so a server finds those that are started before it.      *)
StartsInOrder ==
  \A l \in 1 .. ss.line - 1 :
    /\ Script[l].do = "wait" => Script[l].path \in Mounts \cup ss.failed
    /\ Script[l].do = "sysinfo" => ss.untried = {} \/ "sysinfo" \in ss.failed
(* Init outlives its shell and the shell the program it waits for; on      *)
(* another core there is neither (Init::exec, main).                       *)
InitWaits ==
  /\ ss.core # 0 => \A p \in SystemStart_Pids : ss.procs[p] \in {"", "init"}
  /\ ss.shell # 0 /\ ss.procs[ss.shell] = "sh" => ss.procs[1] = "init"
  /\ ss.child # 0 => ss.procs[ss.shell] = "sh" /\ ss.procs[ss.child] = Script[ss.line].name
(* The list of mounts has the mounts of one moment in their order; a       *)
(* command in it is one that the PID of that mount had, and the server's   *)
(* own as long as that runs, however servers end and PIDs are used again.  *)
MountsListed ==
  SystemStart_Listing("mount") =>
                \A k \in DOMAIN ss.lister.rows :
                  LET m == ss.lister.snap[k]
                      row == ss.lister.rows[k] IN
                    /\ row.path = m.path
                    /\ row.cmd \in ss.had[m.pid] \cup {"???"}
                    /\ m.pid \in ss.lister.since /\ ss.procs[m.pid] = m.server => row.cmd = m.server
(* A network device is shown once, with both addresses while its server is *)
(* there; a process that runs during all of ps is in its list.             *)
DevicesShown ==
  SystemStart_Listing("netctl") =>
                \A k \in DOMAIN ss.lister.rows :
                  /\ \A j \in DOMAIN ss.lister.rows : ss.lister.rows[j].path = ss.lister.rows[k].path => j = k
                  /\ \A i \in DOMAIN ss.lister.snap : LET m == ss.lister.snap[i] IN
                       m.path = ss.lister.rows[k].path /\ m.pid \in ss.lister.since /\ ss.procs[m.pid] = m.server => ss.lister.rows[k].ipv4 /\ ss.lister.rows[k].ether
ProcessesListed ==
  SystemStart_Listing("ps") /\ ss.lister.at > LastPid =>
                \A p \in ss.lister.since : [pid |-> p, cmd |-> ss.procs[p]] \in ToSet(ss.lister.rows)
(* config/intel/pc/init.sh:33: "This ensures we wait until all cores are   *)
(* booted by the CoreServer."  bootAll drops the result of bootCore, so    *)
(* the prompt may be there without a core.                                 *)
AllCoresBooted == ss.line > 2 * Len(Services) + 1 /\ "sysinfo" \notin ss.failed => ss.booted = Cores

-------------------------------------------------------------------------------
(***************************************************************************)
(* Small programs of bin: ls, stat, touch, rm, decomp and sysctl, which do *)
(* something for each of their arguments, login, and mknod, shutdown and   *)
(* sleep; and the log (lib/libstd/Log.cpp) that all programs write to.     *)
(* Another process creates and removes files between any two steps.  A     *)
(* behaviour is one run of one program.                                    *)
(***************************************************************************)
CONSTANTS Names,        \* files of the directory "d", in directory order
          Arguments,    \* argument lists
          LineSize,     \* login's line buffer, less its end
          LogBufferSize,
          MaxChanges, Commands_MaxKeys, MaxText
VARIABLE cm

Commands_Files == {Names[i] : i \in DOMAIN Names}
Chars == {"a", "nl", "bs"}
NoLs == [dents |-> <<>>, out |-> <<>>, opened |-> <<>>, dirs |-> 0]
NoDecomp == [input |-> "none", fds |-> 0]
NoLogin == [fds |-> <<>>, input |-> FALSE, output |-> FALSE, line |-> <<>>, typed |-> <<>>, keys |-> 0, cell |-> [i \in 1 .. LineSize + 1 |-> "zero"], missed |-> FALSE]
NoLog == [buffer |-> <<>>, written |-> <<>>, given |-> <<>>, rest |-> <<>>, appends |-> 0, newline |-> FALSE]
Idle == [cmd |-> "none", args |-> <<>>, i |-> 1, at |-> "exec", ret |-> "Success", results |-> <<>>, files |-> [n \in Commands_Files |-> "none"], changes |-> 0,
         done |-> <<>>, ls |-> NoLs, decomp |-> NoDecomp, login |-> NoLogin, log |-> NoLog, option |-> "none", effect |-> "none"]

Commands_Init ==
  \/ \E cmd \in {"ls", "stat", "touch", "rm", "decomp", "sysctl"}, args \in Arguments, z \in {"none", "reg"} :
       cm = [Idle EXCEPT !.cmd = cmd, !.args = args, !.files = [n \in Commands_Files |-> IF n = "z" THEN z ELSE IF n = "z.lz4" THEN "packed" ELSE "reg"]]
  \/ cm = [Idle EXCEPT !.cmd = "login", !.at = "open"]
  \/ cm = [Idle EXCEPT !.cmd = "log"]
  \/ \E cmd \in {"mknod", "shutdown", "sleep"}, option \in {"none", "c", "b", "-r", "-p", "0", "1"} : cm = [Idle EXCEPT !.cmd = cmd, !.option = option]

(* Another process. *)
Change ==
  \E n \in Commands_Files :
    /\ cm.cmd \in {"ls", "decomp"} /\ cm.at # "done" /\ cm.changes < MaxChanges
    /\ cm' = [cm EXCEPT !.files[n] = IF @ = "none" THEN "reg" ELSE "none", !.changes = @ + 1]

Is(cmd, at) == cm.cmd = cmd /\ cm.at = at
Argument == cm.args[cm.i]
Exists(n) == n = "d" \/ (n \in Commands_Files /\ cm.files[n] # "none")
(* The loop over the arguments: it goes on after a failure and returns the  *)
(* last one (ls, stat, touch, decomp), or ends with it (rm, sysctl).        *)
Next_argument_forgets(s, r, stops) ==
  LET t == [s EXCEPT !.results = Append(@, r), !.ret = r, !.i = @ + 1] IN
    [t EXCEPT !.at = IF s.i = Len(s.args) \/ (stops /\ r # "Success") THEN "done" ELSE "exec"]
Next_argument(s, r, stops) ==
  LET t == [s EXCEPT !.results = Append(@, r), !.ret = IF r # "Success" THEN r ELSE @, !.i = @ + 1] IN
    [t EXCEPT !.at = IF s.i = Len(s.args) \/ (stops /\ r # "Success") THEN "done" ELSE "exec"]

(* An argument's result, as the other arguments' loop takes it. *)
After(s, r, stops) == Next_argument(s, r, stops)
stat == Is("stat", "exec") /\ cm' = After(cm, IF Exists(Argument) THEN "Success" ELSE "IOError", FALSE)
touch ==
  /\ Is("touch", "exec")
  /\ cm' = IF Exists(Argument) \/ Argument \notin Commands_Files THEN After(cm, "IOError", FALSE)
           ELSE After([cm EXCEPT !.files[Argument] = "reg", !.done = Append(@, Argument)], "Success", FALSE)
rm ==
  /\ Is("rm", "exec")
  /\ cm' = IF ~ Exists(Argument) \/ Argument \notin Commands_Files THEN After(cm, "IOError", TRUE)
           ELSE After([cm EXCEPT !.files[Argument] = "none", !.done = Append(@, Argument)], "Success", TRUE)
(* sysctl: the kernel or the recovery server may refuse. *)
sysctl ==
  /\ Is("sysctl", "exec")
  /\ \/ cm' = After([cm EXCEPT !.done = Append(@, Argument)], "Success", TRUE)
     \/ cm' = After(cm, "IOError", TRUE)

(* ls: printFiles of a file, or of what is in the directory when it is      *)
(* opened; every entry is looked up again when its turn comes.              *)
Commands_Listing == SelectSeq(Names, LAMBDA n : cm.files[n] # "none")
printFiles ==
  /\ Is("ls", "exec")
  /\ cm' = IF ~ Exists(Argument) THEN After(cm, "IOError", FALSE)
           ELSE IF Argument = "d" THEN [cm EXCEPT !.ls.dents = Commands_Listing, !.ls.opened = Commands_Listing, !.ls.out = <<>>, !.ls.dirs = @ + 1, !.at = "readdir"]
           ELSE [cm EXCEPT !.ls.dents = <<Argument>>, !.ls.opened = <<Argument>>, !.ls.out = <<>>, !.at = "file"]
closedir(s, r) == After([s EXCEPT !.ls.dirs = @ - 1, !.ls.dents = <<>>], r, FALSE)
printSingleFile ==
  /\ Is("ls", "readdir") /\ cm.ls.dents # <<>>
  /\ cm' = IF Exists(Head(cm.ls.dents)) THEN [cm EXCEPT !.ls.out = Append(@, Head(cm.ls.dents)), !.ls.dents = Tail(@)]
           ELSE closedir(cm, "IOError")
readdir_end == Is("ls", "readdir") /\ cm.ls.dents = <<>> /\ cm' = closedir(cm, "Success")
printFile ==
  /\ Is("ls", "file")
  /\ cm' = IF Exists(Argument) THEN After([cm EXCEPT !.ls.out = <<Argument>>, !.ls.dents = <<>>], "Success", FALSE)
           ELSE After([cm EXCEPT !.ls.dents = <<>>], "IOError", FALSE)

(* decomp: the name must end in .lz4; BufferedFile reads the input ...      *)
decompressFile ==
  /\ Is("decomp", "exec")
  /\ cm' = IF Argument # "z.lz4" THEN After(cm, "InvalidArgument", FALSE)
           ELSE IF ~ Exists(Argument) THEN After(cm, "IOError", FALSE)
           ELSE [cm EXCEPT !.at = "read"]
BufferedFile_read ==
  /\ Is("decomp", "read")
  /\ cm' = IF ~ Exists(Argument) THEN After(cm, "IOError", FALSE)
           ELSE [cm EXCEPT !.decomp.input = cm.files[Argument], !.at = "decompress"]
(* ... which is decompressed and written to a file that must exist.         *)
Lz4_read ==
  /\ Is("decomp", "decompress")
  /\ cm' = IF cm.decomp.input # "packed" THEN After([cm EXCEPT !.decomp.input = "none"], "IOError", FALSE) ELSE [cm EXCEPT !.at = "write"]
BufferedFile_write ==
  /\ Is("decomp", "write")
  /\ cm' = IF ~ Exists("z") THEN After([cm EXCEPT !.decomp.input = "none"], "IOError", FALSE)
           ELSE After([cm EXCEPT !.files["z"] = "unpacked", !.decomp.input = "none", !.done = Append(@, "z")], "Success", FALSE)

(* login: the three standard files, from the beginning until all are open.  *)
Appear == cm.cmd = "login" /\ cm.at = "open" /\ \/ cm' = [cm EXCEPT !.login.input = ~ @, !.changes = @ + 1]
                                                \/ cm' = [cm EXCEPT !.login.output = ~ @, !.changes = @ + 1]
LoginOpen ==
  LET l == cm.login  n == Len(l.fds) IN
    /\ Is("login", "open")
    /\ IF n = 3 THEN cm' = [cm EXCEPT !.at = "line"]
       ELSE cm' = [cm EXCEPT !.login.fds = IF n = 0 THEN (IF l.input THEN <<"INPUT">> ELSE <<>>) ELSE IF l.output THEN Append(@, "OUTPUT") ELSE <<>>]
(* getUsername: a character is read into the next cell of the line; when it *)
(* cannot be read the cell is taken as it is.                               *)
Place == Len(cm.login.line) + 1
Typed(typed, c) == IF c = "bs" THEN (IF typed = <<>> THEN typed ELSE SubSeq(typed, 1, Len(typed) - 1)) ELSE Append(typed, c)
Entered(c) == c = "nl" \/ Len(cm.login.line) = LineSize
Process(c) ==
  LET l == cm.login IN
    IF Entered(c) THEN [cm EXCEPT !.at = IF l.line = <<>> THEN "line" ELSE "shell"]
    ELSE [cm EXCEPT !.login.line = Typed(@, c), !.login.cell[Place] = c]
getUsername ==
  /\ Is("login", "line") /\ cm.login.keys < Commands_MaxKeys
  /\ \/ \E c \in Chars : cm' = [Process(c) EXCEPT !.login.keys = @ + 1, !.login.typed = IF Entered(c) THEN @ ELSE Typed(@, c)]
     \/ cm' = [Process(cm.login.cell[Place]) EXCEPT !.login.keys = @ + 1, !.login.missed = TRUE]
(* The shell runs, or does not start; then the prompt again. *)
Commands_forkexec == Is("login", "shell") /\ cm' = [cm EXCEPT !.at = "line", !.login.line = <<>>, !.login.typed = <<>>]

(* mknod, shutdown and sleep. *)
mknod == Is("mknod", "exec") /\ cm.option \in {"c", "b"} /\ cm' = [cm EXCEPT !.effect = "character", !.at = "done"]
shutdown ==
  /\ Is("shutdown", "exec") /\ cm.option \in {"none", "-r", "-p"}
  /\ cm' = [cm EXCEPT !.at = "done", !.effect = IF cm.option = "none" THEN "ShutdownSystem" ELSE IF cm.option = "-r" THEN "RebootSystem" ELSE "none"]
sleep ==
  /\ Is("sleep", "exec") /\ cm.option \in {"0", "1"}
  /\ cm' = [cm EXCEPT !.at = "done", !.effect = IF cm.option = "0" THEN "none" ELSE "slept", !.ret = IF cm.option = "0" THEN "InvalidArgument" ELSE "Success"]

(* Log::append: a full buffer is written out, and so is one that ends in a  *)
(* newline once the whole text is in it.                                    *)
flush(l, force) ==
  IF l.buffer # <<>> /\ (force \/ l.buffer[Len(l.buffer)] = "nl") THEN [l EXCEPT !.written = @ \o l.buffer, !.buffer = <<>>] ELSE l
Log_call ==
  \E n \in 1 .. MaxText, nl \in BOOLEAN :
    LET l == cm.log  text == [i \in 1 .. n |-> IF i = n /\ nl THEN "nl" ELSE "a"] IN
      /\ cm.cmd = "log" /\ l.rest = <<>> /\ l.appends < MaxChanges
      /\ cm' = [cm EXCEPT !.log.rest = text, !.log.given = @ \o text, !.log.appends = @ + 1]
append ==
  LET l == cm.log
      t == IF Len(l.buffer) < LogBufferSize - 1 THEN [l EXCEPT !.buffer = Append(@, Head(l.rest)), !.rest = Tail(@)] ELSE flush(l, TRUE) IN
    /\ cm.cmd = "log" /\ l.rest # <<>>
    /\ cm' = [cm EXCEPT !.log = IF t.rest = <<>> THEN flush(t, FALSE) ELSE t]

Commands_Next ==
  \/ Change
  \/ stat
  \/ touch
  \/ rm
  \/ sysctl
  \/ printFiles
  \/ printSingleFile
  \/ readdir_end
  \/ printFile
  \/ decompressFile
  \/ BufferedFile_read
  \/ Lz4_read
  \/ BufferedFile_write
  \/ cm.changes < MaxChanges /\ Appear
  \/ LoginOpen
  \/ getUsername
  \/ Commands_forkexec
  \/ mknod
  \/ shutdown
  \/ sleep
  \/ Log_call
  \/ append

-----------------------------------------------------------------------------
(* A program ends with success exactly if each of its arguments was served; *)
(* rm and sysctl serve no argument after one that failed.                   *)
EveryResult ==
  cm.at = "done" /\ cm.args # <<>> =>
    /\ (cm.ret = "Success") = (Len(cm.results) = Len(cm.args) /\ \A i \in DOMAIN cm.results : cm.results[i] = "Success")
    /\ cm.cmd \in {"rm", "sysctl"} => \A i \in DOMAIN cm.results : i < Len(cm.results) => cm.results[i] = "Success"
    /\ cm.cmd \notin {"rm", "sysctl"} => Len(cm.results) = Len(cm.args)

(* ls prints what the directory held when it was opened, in order, all of   *)
(* it if it reports success, whatever was created or removed meanwhile; it  *)
(* leaves no directory open.                                                *)
ListingRight ==
  cm.cmd = "ls" /\ cm.at \in {"exec", "done"} /\ cm.results # <<>> =>
    /\ cm.ls.dirs = 0
    /\ cm.results[Len(cm.results)] = "Success" => cm.ls.out = cm.ls.opened
    /\ cm.ls.out = SubSeq(cm.ls.opened, 1, Len(cm.ls.out))

(* When login asks for a name its three standard files are the right ones,  *)
(* however the devices came and went; the name fits, and is what was typed, *)
(* less what was erased.                                                    *)
LoginRight ==
  cm.cmd = "login" /\ cm.at # "open" =>
    /\ cm.login.fds = <<"INPUT", "OUTPUT", "OUTPUT">>
    /\ Len(cm.login.line) <= LineSize
    /\ ~ cm.login.missed => cm.login.line = cm.login.typed

(* What the log has written and holds is what it was given, in order; its   *)
(* buffer has room for the end, and nothing stays in it after a newline.    *)
LogComplete ==
  LET l == cm.log IN
    /\ (l.written \o l.buffer) \o l.rest = l.given
    /\ Len(l.buffer) <= LogBufferSize - 1
    /\ l.rest = <<>> /\ l.given # <<>> /\ l.given[Len(l.given)] = "nl" => l.buffer = <<>>

(* "Write to output file": a packed file that stays is unpacked. *)
EveryUnpacked == cm.cmd = "decomp" /\ cm.at = "done" /\ cm.changes = 0 /\ cm.args = <<"z.lz4">> => cm.ret = "Success"
(* "List files on the filesystem": all but the removed ones. *)
EveryOtherListed ==
  cm.cmd = "ls" /\ cm.at = "done" /\ cm.args = <<"d">> =>
    \A i \in DOMAIN cm.ls.opened : cm.files[cm.ls.opened[i]] # "none" => \E j \in DOMAIN cm.ls.out : cm.ls.out[j] = cm.ls.opened[i]
(* "Power off the system (the default)" *)
PowersOff == cm.cmd = "shutdown" /\ cm.at = "done" /\ cm.option = "-p" => cm.effect = "ShutdownSystem"
(* "Type of file to create (c=char,b=block)" *)
NodeType == cm.cmd = "mknod" /\ cm.at = "done" /\ cm.option = "b" => cm.effect = "block"
(* "Read a character": the name has only characters that were read. *)
OnlyTyped == cm.cmd = "login" => cm.login.line = cm.login.typed
===============================================================================
