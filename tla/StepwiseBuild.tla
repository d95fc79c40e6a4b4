--------------------------- MODULE StepwiseBuild ---------------------------
(***************************************************************************)
(* What the step by step build of the testing tree promises: a source      *)
(* directory goes through the build steps one after the other, never skips *)
(* one and never repeats one that is done, and uninstalling a package      *)
(* takes its directories back to the start.                                *)
(***************************************************************************)
EXTENDS Naturals

CONSTANTS Source,  \* the unpacked source directories
          Name,    \* the package a source directory belongs to
          Last     \* the number of build steps

VARIABLE progress  \* the steps that are done, by source directory

Init == progress = [d \in Source |-> 0]

Advance(d) == /\ progress[d] < Last
              /\ progress' = [progress EXCEPT ![d] = @ + 1]

Undo(n) == progress' = [d \in Source |-> IF Name[d] = n THEN 0 ELSE progress[d]]

Next == \/ \E d \in Source : Advance(d)
        \/ \E n \in {Name[d] : d \in Source} : Undo(n)

Spec == Init /\ [][Next]_progress
=============================================================================
