----------------------------- MODULE Applications -----------------------------
(* What programs are linked with: arguments of lib/libapp, the test runner of lib/libtest. *)
EXTENDS Sequences, FiniteSets, Integers, SequencesExt

(***************************************************************************)
(* libapp: how a program's command line is parsed (ArgumentParser,         *)
(* ArgumentContainer) and how Application::run goes from there to exec().  *)
(* A command-line word is split at '=' into parts; "dash" says how many    *)
(* dashes its first part starts with, "letters" the letters behind a       *)
(* single one.                                                             *)
(***************************************************************************)

CONSTANTS Words,        \* the command-line words that may be given
          MaxArgs       \* at most this many of them
VARIABLE app

(* What the constructors of some of the programs register. *)
Program == [ls    |-> [flags |-> <<[id |-> "l", name |-> "long"], [id |-> "a", name |-> "all"]>>, counts |-> <<0>>],
            img   |-> [flags |-> <<[id |-> "p", name |-> "prefix"]>>, counts |-> <<1, 1>>],
            uname |-> [flags |-> <<[id |-> "a", name |-> "all"]>>, counts |-> <<>>],
            dhcpc |-> [flags |-> <<>>, counts |-> <<1>>]]
BaseFlags == <<[id |-> "h", name |-> "help"], [id |-> "v", name |-> "version"], [id |-> "d", name |-> "debug"]>>

Overwrite(f, keys, v) == [k \in DOMAIN f \cup keys |-> IF k \in keys THEN v ELSE f[k]]
LastOf(s) == s[Len(s)]
Contents(s) == {s[i] : i \in 1..Len(s)}

Arguments_Init == app \in [pc : {"register"}, prog : DOMAIN Program, argv : UNION {[1..n -> Words] : n \in 0..MaxArgs},
                 flags : {<<>>}, flagsId : {<<>>}, positionals : {<<>>}, i : {1}, pos : {0},
                 outFlags : {<<>>}, outPos : {<<>>}, result : {"none"}, shown : {{}}, debug : {FALSE},
                 executed : {FALSE}, exit : {"none"}]

registerFlag(a, f) == [a EXCEPT !.flags = Overwrite(@, {f.name}, f), !.flagsId = Overwrite(@, {f.id}, f)]
registerFlags(a, fs) ==
  LET reg[k \in 0..Len(fs)] == IF k = 0 THEN a ELSE registerFlag(reg[k - 1], fs[k]) IN reg[Len(fs)]
(* Only the last positional may have count zero: AlreadyExists otherwise. *)
registerPositional(ps, count) ==
  IF ps /= <<>> /\ LastOf(ps) = 0 THEN ps ELSE Append(ps, count)
registerPositionals(counts) ==
  LET reg[k \in 0..Len(counts)] == IF k = 0 THEN <<>> ELSE registerPositional(reg[k - 1], counts[k]) IN reg[Len(counts)]

(* The constructor of Application, then the one of the program. *)
Construct ==
  /\ app.pc = "register"
  /\ app' = [registerFlags(app, BaseFlags \o Program[app.prog].flags) EXCEPT
               !.positionals = registerPositionals(Program[app.prog].counts), !.pc = "parse"]

(* A flag is looked up by its name first, then by its identifier. *)
Lookup(key) == IF key \in DOMAIN app.flags THEN {app.flags[key]}
               ELSE IF key \in DOMAIN app.flagsId THEN {app.flagsId[key]} ELSE {}
Value(word) == LastOf(word.parts)

Arguments_Finish(r) == app' = [app EXCEPT !.result = r, !.pc = "run"]
addFlags(names, word) == [app EXCEPT !.outFlags = Overwrite(@, names, Value(word)), !.i = @ + 1]

parseLong(word) ==
  LET found == Lookup(word.parts[1])
  IN  IF found = {} THEN Arguments_Finish("InvalidArgument") ELSE app' = addFlags({f.name : f \in found}, word)

(* The letters before an unknown one have been added when it is refused. *)
parseShort(word) ==
  LET bad   == {k \in 1..Len(word.letters) : Lookup(word.letters[k]) = {}}
      names == {f.name : f \in UNION {Lookup(word.letters[k]) : k \in {k \in 1..Len(word.letters) : \A b \in bad : k < b}}}
  IN  app' = IF bad = {} THEN addFlags(names, word)
             ELSE [addFlags(names, word) EXCEPT !.result = "InvalidArgument", !.pc = "run"]

(* Without positionals, or with all of them taken, the word is refused. *)
parsePositional(word) ==
  IF app.pos >= Len(app.positionals) THEN Arguments_Finish("InvalidArgument")
  ELSE LET repeats == app.positionals[app.pos + 1] = 0
           arg     == [name |-> IF repeats THEN word.parts[1] ELSE "POSITIONAL", value |-> Value(word)]
       IN  app' = [app EXCEPT !.outPos = Append(@, arg), !.pos = IF repeats THEN @ ELSE @ + 1, !.i = @ + 1]

Required_all == Len(app.positionals)
Required == Cardinality({k \in 1..Len(app.positionals) : \A j \in 1..k : app.positionals[j] /= 0})

parse ==
  /\ app.pc = "parse"
  /\ IF app.i > Len(app.argv)
     THEN Arguments_Finish(IF Len(app.outPos) >= Required THEN "Success" ELSE "NotFound")
     ELSE LET word == app.argv[app.i]
          IN  CASE word.dash = 2 -> parseLong(word)
                [] word.dash = 1 -> parseShort(word)
                [] OTHER -> parsePositional(word)

(* ArgumentContainer::get searches the flags, then the positionals. *)
get(name) == name \in DOMAIN app.outFlags \/ \E k \in 1..Len(app.outPos) : app.outPos[k].name = name

getUsage == [positionals |-> app.positionals, flags |-> app.flags]
usage(status) == app' = [app EXCEPT !.shown = {getUsage}, !.exit = status, !.pc = "done"]

(* run(): the checks, then initialize() and exec() of the program. *)
run ==
  /\ app.pc = "run"
  /\ IF app.result /= "Success" \/ get("help") THEN usage("ExitFailure")
     ELSE IF get("version") THEN app' = [app EXCEPT !.exit = "ExitSuccess", !.pc = "done"]
     ELSE \E r \in {"Success", "ShowUsage", "Failed"} : \E e \in BOOLEAN :
            app' = [app EXCEPT !.debug = get("debug"), !.pc = "done",
                               !.shown = IF r = "ShowUsage" THEN {getUsage} ELSE {},
                               !.executed = (r = "Success"),
                               !.exit = IF r = "Success" /\ e THEN "ExitSuccess" ELSE "ExitFailure"]

Arguments_Next == Construct \/ parse \/ run

-----------------------------------------------------------------------------
(* What the command line says, without going through it word by word. *)
Given == app.argv
Registered(key) == LET fs == Contents(BaseFlags \o Program[app.prog].flags)
                   IN  IF \E f \in fs : f.name = key THEN {key} ELSE {f.name : f \in {f \in fs : f.id = key}}
Named(word) == CASE word.dash = 2 -> Registered(word.parts[1])
                 [] word.dash = 1 -> UNION {Registered(l) : l \in Contents(word.letters)}
                 [] OTHER -> {}
Plain == SelectSeq(Given, LAMBDA w : w.dash = 0)
Counts == Program[app.prog].counts
Fits == /\ \A w \in Contents(Given) : /\ (w.dash = 2 => Registered(w.parts[1]) /= {})
                                      /\ (w.dash = 1 => \A l \in Contents(w.letters) : Registered(l) /= {})
        /\ IF 0 \in Contents(Counts) THEN Len(Plain) >= Len(Counts) - 1 ELSE Len(Plain) = Len(Counts)

(* ArgumentParser::parse succeeds exactly on the command lines that name     *)
(* registered flags and give every required positional; a flag then has the  *)
(* value of its last occurrence and the positionals the values of the plain  *)
(* words, in order.                                                          *)
ParsedAsGiven ==
  app.pc \in {"run", "done"} =>
    /\ (app.result = "Success") <=> Fits
    /\ app.result = "Success" =>
         /\ DOMAIN app.outFlags = UNION {Named(w) : w \in Contents(Given)}
         /\ \A n \in DOMAIN app.outFlags :
              \E k \in 1..Len(Given) : /\ n \in Named(Given[k]) /\ app.outFlags[n] = Value(Given[k])
                                       /\ \A j \in k+1..Len(Given) : n \notin Named(Given[j])
         /\ [k \in 1..Len(app.outPos) |-> app.outPos[k].value] = [k \in 1..Len(Plain) |-> Value(Plain[k])]

(* Application::run reaches exec() only with a command line that fits, and    *)
(* never when help or the version was asked for.                              *)
ExecutesWhatFits ==
  app.executed => Fits /\ ~ \E w \in Contents(Given) : Named(w) \cap {"help", "version"} /= {}

(* "If the help argument is given, show the usage" (Application::run): a       *)
(* fitting command line without the flag is not answered with the usage        *)
(* before the program is initialised.                                          *)
UsageOnAsking ==
  app.pc = "done" /\ Fits /\ get("help") => \E w \in Contents(Given) : "help" \in Named(w)

-------------------------------------------------------------------------------
(***************************************************************************)
(* The test framework (lib/libtest): generated test data, and a run of     *)
(* test programs.  The runner in the test directory starts every program   *)
(* DirectoryScanner found and waits for it; each program runs its own test *)
(* cases with the same kind of reporter.  A behaviour is one job.          *)
(***************************************************************************)
CONSTANTS Randoms,    \* what random() may return
          Lengths,    \* <<minimum, maximum>> lengths of strings
          MaxCount,   \* values asked for in one call
          MaxCalls,
          Programs    \* test programs: the results of their test cases, in order
VARIABLE tl

Results == {"Success", "Failure", "Skipped"}
NoData == [kind |-> "none", min |-> 0, max |-> 1, values |-> <<>>, at |-> "idle", offset |-> 0, count |-> 0, i |-> 0, before |-> <<>>, calls |-> 0, asked |-> 0,
           fault |-> FALSE]
NoChars == [min |-> 0, max |-> 1, i |-> 0, count |-> 0, value |-> <<>>, values |-> <<>>, lengths |-> <<>>]
Counters == [ok |-> 0, fail |-> 0, skip |-> 0]
NoRun == [reporter |-> "none", tests |-> <<>>, at |-> "done", index |-> 1, case |-> 1, outer |-> Counters, inner |-> Counters, status |-> 0,
          waiting |-> FALSE, started |-> TRUE, missed |-> FALSE, tap |-> <<>>, depth |-> 0, iterations |-> 0, judged |-> <<>>]

(* TestInt::random puts in one value, whatever the count. *)
Clamp(d, value) == IF value < d.min THEN d.min ELSE value
random ==
  \E count \in 1 .. MaxCount, r \in Randoms :
    LET d == tl.data IN
      /\ d.kind # "none" /\ d.at = "idle" /\ d.calls < MaxCalls /\ ~ d.fault
      /\ tl' = [tl EXCEPT !.data.values = Append(@, Clamp(d, r % d.max)), !.data.calls = @ + 1, !.data.asked = @ + count,
                          !.data.count = 0, !.data.before = Append(d.values, Clamp(d, r % d.max))]
(* TestInt::unique: values in a row, each then swapped with another.        *)
unique ==
  \E count \in 1 .. MaxCount :
    LET d == tl.data IN
      /\ d.kind # "none" /\ d.at = "idle" /\ d.calls < MaxCalls /\ ~ d.fault
      /\ tl' = [tl EXCEPT !.data.values = @ \o [i \in 1 .. count |-> (i - 1) + d.min], !.data.before = d.values, !.data.offset = Len(d.values),
                          !.data.i = Len(d.values), !.data.count = count, !.data.at = "swap", !.data.calls = @ + 1, !.data.asked = @ + count]
(* int takes the remainder and then one off, uint one off the divisor.      *)
Index(d, r) ==
  LET idx == IF d.kind = "int" THEN (r % d.count) - 1 ELSE r % (d.count - 1) IN IF idx < d.offset THEN d.offset ELSE idx
Swapped_lost(s, i, j) == [s EXCEPT ![i + 1] = s[j + 1]]
Swapped(s, i, j) == [s EXCEPT ![i + 1] = s[j + 1], ![j + 1] = s[i + 1]]
Swap ==
  \E r \in Randoms :
    LET d == tl.data IN
      /\ d.at = "swap"
      /\ tl' = IF d.kind = "uint" /\ d.count = 1 THEN [tl EXCEPT !.data.fault = TRUE, !.data.at = "idle"]
               ELSE IF d.i = d.count + d.offset THEN [tl EXCEPT !.data.at = "idle"]
               ELSE [tl EXCEPT !.data.values = Swapped(@, d.i, Index(d, r)), !.data.i = @ + 1]

(* TestChar::unique: the buffer gets one more character, or, when all are   *)
(* set, the next character of the alphabet at the following place.          *)
length(c) == IF c.i + 1 < c.max THEN c.i + 1 ELSE c.max
Filled(c) == [c.value EXCEPT ![(c.i % c.max) + 1] = (c.i \div c.max) + 32]
unique_char ==
  LET c == tl.chars IN
    /\ c.i < c.count
    /\ tl' = [tl EXCEPT !.chars.value = Filled(c), !.chars.values = Append(@, Filled(c)), !.chars.lengths = Append(@, length(c)), !.chars.i = @ + 1]

(* TestReporter::collect *)
collect(counters, result) ==
  CASE result = "Success" -> [counters EXCEPT !.ok = @ + 1]
    [] result = "Failure" -> [counters EXCEPT !.fail = @ + 1]
    [] result = "Skipped" -> [counters EXCEPT !.skip = @ + 1]
Total(counters) == counters.ok + counters.fail + counters.skip

(* Elements the XML reporter opens at the beginning and closes at the end:  *)
(* in the multi line mode of the outer runner it writes comments, and one   *)
(* end tag.                                                                 *)
XML_reportBegin(r, multiline) == IF r.reporter = "xml" /\ ~ multiline THEN 2 ELSE 0
XML_reportFinish(r, multiline) == IF r.reporter # "xml" THEN 0 ELSE IF multiline THEN 1 ELSE 2
(* The TAP reporter's number for a test case. *)
TAP_reportAfter(r) == IF r.reporter = "tap" THEN Append(r.tap, r.case) ELSE r.tap
Begin == tl.run.at = "begin" /\ tl' = [tl EXCEPT !.run.at = "prepare", !.run.index = 1]
(* ExternalTest::run starts the program; without it it waits for process -1. *)
forkexec ==
  LET r == tl.run IN
    /\ r.at = "prepare" /\ r.index \in DOMAIN r.tests
    /\ \/ tl' = [tl EXCEPT !.run.at = "running", !.run.case = 1, !.run.inner = Counters, !.run.tap = <<>>, !.run.waiting = FALSE,
                           !.run.started = TRUE, !.run.missed = FALSE, !.run.depth = @ + XML_reportBegin(r, FALSE)]
       \/ tl' = [tl EXCEPT !.run.at = "ended", !.run.started = FALSE, !.run.missed = TRUE, !.run.waiting = TRUE]
waitpid == tl.run.at = "running" /\ ~ tl.run.waiting /\ tl' = [tl EXCEPT !.run.waiting = TRUE]
(* TestRunner::run in the program: a test case ... *)
runCase ==
  LET r == tl.run IN
    /\ r.at = "running" /\ r.case <= Len(r.tests[r.index])
    /\ tl' = [tl EXCEPT !.run.inner = collect(@, r.tests[r.index][r.case]), !.run.case = @ + 1,
                        !.run.tap = TAP_reportAfter(r)]
(* ... and the end of the program, with the failures as its status.  It is  *)
(* lost on a runner that does not wait yet.                                 *)
TestLib_Finish ==
  LET r == tl.run IN
    /\ r.at = "running" /\ r.case > Len(r.tests[r.index])
    /\ tl' = [tl EXCEPT !.run.at = "ended", !.run.status = r.inner.fail, !.run.missed = ~ r.waiting,
                        !.run.depth = @ - XML_reportFinish(r, FALSE)]
(* The outer runner collects: a status that was not given has any value.    *)
Status(r) == IF r.missed THEN {0, 1} ELSE {r.status}
Judge ==
  LET r == tl.run IN
    /\ r.at = "ended"
    /\ \E status \in Status(r) :
         LET result == IF status = 0 THEN "Success" ELSE "Failure" IN
           tl' = [tl EXCEPT !.run.outer = collect(@, result), !.run.index = @ + 1, !.run.at = "prepare",
                            !.run.judged = Append(@, [result |-> result, missed |-> r.missed, started |-> r.started, fails |-> r.inner.fail])]
FinishAll ==
  LET r == tl.run IN
    /\ r.at = "prepare" /\ r.index \notin DOMAIN r.tests
    /\ tl' = [tl EXCEPT !.run.depth = @ - XML_reportFinish(r, TRUE), !.run.iterations = @ - 1,
                        !.run.at = IF r.outer.fail = 0 /\ r.iterations > 1 THEN "begin" ELSE "done"]

TestLib_Init ==
  \/ \E kind \in {"int", "uint"}, min \in 0 .. 1 :
       tl = [data |-> [NoData EXCEPT !.kind = kind, !.min = min, !.max = 3], chars |-> NoChars, run |-> NoRun]
  \/ \E l \in Lengths, count \in 1 .. 2 * MaxCount :
       tl = [data |-> NoData, run |-> NoRun, chars |-> [NoChars EXCEPT !.min = l[1], !.max = l[2], !.count = count, !.value = [i \in 1 .. l[2] |-> 0]]]
  \/ \E reporter \in {"stdout", "tap", "xml"}, tests \in SeqOf(Programs, 2), n \in 1 .. 2 :
       tl = [data |-> NoData, chars |-> NoChars,
             run |-> [NoRun EXCEPT !.reporter = reporter, !.tests = tests, !.at = "begin", !.iterations = n]]

TestLib_Next ==
  \/ random
  \/ unique
  \/ Swap
  \/ unique_char
  \/ Begin
  \/ forkexec
  \/ waitpid
  \/ runCase
  \/ TestLib_Finish
  \/ Judge
  \/ FinishAll

-----------------------------------------------------------------------------
(* unique: whatever random() returned, the values it put in are a           *)
(* rearrangement of count values from the minimum, and the earlier values   *)
(* are where they were; random keeps within the limits.                     *)
UniqueShuffled ==
  LET d == tl.data  last == SubSeq(d.values, d.offset + 1, d.offset + d.count) IN
    d.kind # "none" /\ d.at = "idle" /\ ~ d.fault =>
      IF d.count > 0 THEN /\ {last[i] : i \in 1 .. d.count} = d.min .. (d.min + d.count) - 1
                          /\ SubSeq(d.values, 1, d.offset) = d.before
      ELSE \A i \in DOMAIN d.values : i = Len(d.values) => d.values[i] \in d.min .. d.max - 1

(* The strings of unique differ, and each has the length noted for it.      *)
StringsDiffer ==
  LET c == tl.chars IN
    /\ \A i, j \in DOMAIN c.values : i # j => c.values[i] # c.values[j]
    /\ \A i \in DOMAIN c.values : Cardinality({k \in 1 .. c.max : c.values[i][k] # 0}) = c.lengths[i]

(* Every test program is counted once in every iteration, the runner ends   *)
(* with the number that failed, and a program that was waited for in time   *)
(* failed exactly if one of its test cases did.                             *)
TotalsRight ==
  LET r == tl.run IN
    /\ Total(r.outer) = Len(r.judged) /\ r.outer.fail = Cardinality({i \in DOMAIN r.judged : r.judged[i].result = "Failure"})
    /\ \A i \in DOMAIN r.judged : ~ r.judged[i].missed => (r.judged[i].result = "Failure") = (r.judged[i].fails > 0)
    /\ r.at = "begin" => r.outer.fail = 0

(* A program's TAP lines are numbered as its plan announced. *)
TapPlan == tl.run.reporter = "tap" /\ tl.run.at = "ended" /\ tl.run.started => tl.run.tap = [i \in 1 .. Len(tl.run.tests[tl.run.index]) |-> i]

(* "count Number or values to generate" *)
AsManyAsAsked == tl.data.at = "idle" /\ ~ tl.data.fault => Len(tl.data.values) = tl.data.asked
(* "Get unique random test value(s)": one is also a number of values. *)
UniqueDefined == ~ tl.data.fault
(* "min Minimum length of the character strings" *)
MinimumLength == \A i \in DOMAIN tl.chars.lengths : tl.chars.lengths[i] >= tl.chars.min
(* "Zero on success or number of failed tests on failure": a failure is seen. *)
FailureSeen == \A i \in DOMAIN tl.run.judged : tl.run.judged[i].fails > 0 \/ ~ tl.run.judged[i].started => tl.run.judged[i].result = "Failure"
(* The XML report closes as many elements as it opens. *)
XmlBalanced == tl.run.depth >= 0
===============================================================================
