--------------------------- MODULE MCPackageBuild ---------------------------
(* Values of the constants of PackageBuild for model checking.             *)
EXTENDS PackageBuild, TLC

CONSTANTS a, b, c   \* packages

Quiet  == [notexit |-> FALSE, force |-> FALSE]
Lenient == [notexit |-> TRUE, force |-> FALSE]
Forced == [notexit |-> FALSE, force |-> TRUE]

(* The environments of a run.                                              *)
PlainOnly   == {Quiet}
NotForced   == {Quiet, Lenient}
AllOptions  == {Quiet, Lenient, Forced}

(* Kinds of the packages.                                                  *)
TwoArchives   == a :> "tar" @@ b :> "tar"
ArchiveAndGit == a :> "tar" @@ b :> "git"
BinaryAndPips == a :> "bin" @@ b :> "pip" @@ c :> "req"

(* Names: each its own, or b's file name beginning like a's.               *)
OwnNames   == [p \in Pkgs |-> {p}]
SharedName == a :> {a} @@ b :> {a, b}

(* How the runs of other targets may end.                                  *)
AnyOther == {o \in [brk : BOOLEAN, err : BOOLEAN, env : Trees] : o.err => o.env = "none"}

(* Lists: one for good, or several the user edits one into another: plain, *)
(* with a region switched off, with an entry skipped and an early end.     *)
Both     == {<<a, b>>}
Switched == {<<a, b, c>>, <<"#JUMP", a, c, "#STOP", b>>, <<"#SKIP", b, "#END", a>>}
=============================================================================
