---------------------------- MODULE MCFileSystem ----------------------------
(* Instances of FileSystem for TLC. *)
EXTENDS FileSystem, TLC

(* /t and, below it, /t/n *)
TwoMounts == [s \in Servers |-> IF s = "tmp" THEN <<"t">> ELSE <<"t", "n">>]

TwoPaths == {<<"t", "d">>, <<"t", "d", "x">>, <<"t", "n", "x">>}

TwoDirectories == {<<"t", "d">>}

ServerProgram == <<"server", "tmp">>

FairSpec == Spec /\ Fairness
=============================================================================
