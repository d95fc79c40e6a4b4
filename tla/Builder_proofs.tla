--------------------------- MODULE Builder_proofs ---------------------------
(***************************************************************************)
(* The two builders of packages. PackageBuild, for every set of packages,  *)
(* every list and every environment: type correctness, the .start protocol, *)
(* and what a buildok file and the file buildenv mean. BuildFromSource, for *)
(* every set of source directories: type correctness, what the .done files *)
(* stand for, and that they implement the step by step build of            *)
(* StepwiseBuild.                                                          *)
(***************************************************************************)
EXTENDS PackageBuild, BuildFromSource, TLAPS

-----------------------------------------------------------------------------
(* BuildFromSource.                                                        *)

USE DEF Step, Last, Install, Configure, Idle, Doing, Uninstalling, history

LEMMA StepsInitType == StepsInit => StepsTypeOK
  BY Packages DEF StepsInit, StepsTypeOK, Phases

LEMMA StepsNextType == StepsTypeOK /\ [StepsNext]_stepsVars => StepsTypeOK'
  <1> SUFFICES ASSUME StepsTypeOK, [StepsNext]_stepsVars PROVE StepsTypeOK'
    OBVIOUS
  <1> USE Packages DEF StepsTypeOK, Phases
  <1>1. ASSUME NEW d \in Source, StartBuild(d) PROVE StepsTypeOK'
    BY <1>1 DEF StartBuild
  <1>2. ASSUME NEW d \in Source, RemoveDone(d) PROVE StepsTypeOK'
    BY <1>2 DEF RemoveDone
  <1>3. ASSUME NEW n \in Names, StartUninstall(n) PROVE StepsTypeOK'
    BY <1>3 DEF StartUninstall
  <1>4. CASE TestBuilt  BY <1>4 DEF TestBuilt
  <1>5. CASE SkipStep  BY <1>5 DEF SkipStep
  <1>6. CASE RunScript  BY <1>6 DEF RunScript
  <1>7. CASE ScriptSucceeds  BY <1>7 DEF ScriptSucceeds
  <1>8. CASE ScriptFails  BY <1>8 DEF ScriptFails
  <1>9. CASE TouchDone
    <2>1. run.src \in Source /\ run.step \in Step
      BY <1>9 DEF TouchDone
    <2>2. (done \in [Source -> SUBSET Step])'
      BY <1>9, <2>1 DEF TouchDone
    <2>3. (run \in [at : Phases, src : Source \cup Names \cup {Nobody}, step : Step])'
      <3>1. CASE run.step = Last
        BY <1>9, <3>1 DEF TouchDone
      <3>2. CASE run.step # Last
        <4>1. run.step + 1 \in Step
          BY <2>1, <3>2
        <4> HIDE DEF Step
        <4> QED BY <1>9, <3>2, <4>1 DEF TouchDone
      <3> QED BY <3>1, <3>2
    <2>4. run'.src \in Source \/ run'.at = "idle"
      BY <1>9, <2>1 DEF TouchDone
    <2> QED BY <1>9, <2>2, <2>3, <2>4 DEF TouchDone
  <1>10. CASE RemoveFiles  BY <1>10 DEF RemoveFiles
  <1>11. CASE RemovePackage  BY <1>11 DEF RemovePackage
  <1>12. CASE UninstallEnds  BY <1>12 DEF UninstallEnds, Of
  <1>13. CASE Killed  BY <1>13 DEF Killed
  <1>14. CASE UNCHANGED stepsVars  BY <1>14 DEF stepsVars
  <1> QED
    BY <1>1, <1>2, <1>3, <1>4, <1>5, <1>6, <1>7, <1>8, <1>9, <1>10, <1>11,
       <1>12, <1>13, <1>14 DEF StepsNext

\* The .done files, the staged packages and the state of the shell keep to
\* their values, through builds, failures, uninstallations and kills.
THEOREM StepsTypeCorrect == StepsSpec => []StepsTypeOK
  BY StepsInitType, StepsNextType, PTL DEF StepsSpec

-----------------------------------------------------------------------------
(* What the .done files of a directory stand for.  The steps with a .done  *)
(* file are the first ones, the step at hand is the one after them, and    *)
(* each stands for work that is there, except while uninstall_package has  *)
(* removed the files and not yet the .done files, and after it was killed  *)
(* or its pattern did not match the directory.                             *)

Building == {"step", "script", "touch"}
Undone(d) == run.at \in {"package", "markers"} /\ Name[d] = run.src

FirstSteps ==
  \A d \in Source : ~Removing(d) /\ Sound(d) => \E k \in 0..Last : done[d] = 1..k

StepAtHand ==
  /\ run.at = "archive" => run.step = 1
  /\ run.at \in Building => 1..(run.step - 1) \subseteq done[run.src]
  /\ run.at \in {"script", "touch"} => run.step \notin done[run.src]
  /\ run.at = "touch" => run.step \in work[run.src] \/ Tolerated(run.src, run.step)

WorkIsDone ==
  \A d \in Source : Sound(d) =>
    \A s \in done[d] : s \in work[d] \/ Tolerated(d, s) \/ Undone(d)

DoneInv == StepsTypeOK /\ FirstSteps /\ StepAtHand /\ WorkIsDone

LEMMA InitMark == StepsInit => DoneInv
  <1> SUFFICES ASSUME StepsInit PROVE DoneInv
    OBVIOUS
  <1>1. StepsTypeOK  BY StepsInitType
  <1>2. FirstSteps
    <2> SUFFICES ASSUME NEW d \in Source PROVE \E k \in 0..Last : done[d] = 1..k
      BY DEF FirstSteps
    <2>1. done[d] = 1..0  BY DEF StepsInit
    <2> QED BY <2>1
  <1>3. StepAtHand  BY DEF StepsInit, StepAtHand, Building
  <1>4. WorkIsDone  BY DEF StepsInit, WorkIsDone
  <1> QED BY <1>1, <1>2, <1>3, <1>4 DEF DoneInv

LEMMA NextFirstSteps == DoneInv /\ [StepsNext]_stepsVars => FirstSteps'
  <1> SUFFICES ASSUME DoneInv, [StepsNext]_stepsVars,
                      NEW d \in Source, ~Removing(d)', Sound(d)'
               PROVE  \E k \in 0..Last : done'[d] = 1..k
    BY DEF FirstSteps
  <1> USE DEF DoneInv, FirstSteps, Removing, Sound
  <1> DEFINE Same == done' = done /\ ~Removing(d) /\ Sound(d)
  <1>k. Same => \E k \in 0..Last : done'[d] = 1..k
    OBVIOUS
  <1>1. ASSUME NEW e \in Source, StartBuild(e) PROVE Same
    BY <1>1 DEF StartBuild
  <1>2. ASSUME NEW e \in Source, RemoveDone(e) PROVE \E k \in 0..Last : done'[d] = 1..k
    <2>1. ~Removing(d) /\ Sound(d) /\ d # e
      BY <1>2 DEF RemoveDone, Glob, Of
    <2>2. done'[d] = done[d]
      BY <1>2, <2>1 DEF RemoveDone, StepsTypeOK
    <2> QED BY <2>1, <2>2
  <1>3. ASSUME NEW n \in Names, StartUninstall(n) PROVE Same
    BY <1>3 DEF StartUninstall
  <1>4. CASE TestBuilt  BY <1>4, <1>k DEF TestBuilt
  <1>5. CASE SkipStep  BY <1>5, <1>k DEF SkipStep
  <1>6. CASE RunScript  BY <1>6, <1>k DEF RunScript
  <1>7. CASE ScriptSucceeds  BY <1>7, <1>k DEF ScriptSucceeds
  <1>8. CASE ScriptFails  BY <1>8, <1>k DEF ScriptFails
  <1>9. CASE TouchDone
    <2>1. CASE run.src = d
      <3>1. PICK k \in 0..Last : done[d] = 1..k
        BY <1>9, <2>1 DEF TouchDone
      <3>2. run.step = k + 1 /\ run.step \in 1..6
        <4>1. /\ run.step \in 1..6 /\ 1..(run.step - 1) \subseteq done[d]
              /\ run.step \notin done[d]
          BY <1>9, <2>1 DEF TouchDone, StepAtHand, Building, StepsTypeOK
        <4> HIDE DEF DoneInv, FirstSteps, Removing, Sound
        <4>2. k < run.step
          BY <3>1, <4>1
        <4>3. ~(k < run.step - 1)
          <5> SUFFICES ASSUME k < run.step - 1 PROVE FALSE
            OBVIOUS
          <5>1. k + 1 \in 1..(run.step - 1) /\ k + 1 \notin 1..k
            BY <4>1
          <5> QED BY <5>1, <3>1, <4>1
        <4> QED BY <4>1, <4>2, <4>3
      <3>3. done'[d] = 1..k \cup {run.step}
        BY <1>9, <2>1, <3>1 DEF TouchDone, StepsTypeOK
      <3> QED BY <3>2, <3>3
    <2>2. CASE run.src # d
      <3>1. done'[d] = done[d] /\ ~Removing(d) /\ Sound(d)
        BY <1>9, <2>2 DEF TouchDone, StepsTypeOK
      <3> QED BY <3>1
    <2> QED BY <2>1, <2>2
  <1>10. CASE RemoveFiles  BY <1>10, <1>k DEF RemoveFiles
  <1>11. CASE RemovePackage  BY <1>11, <1>k DEF RemovePackage, StepsTypeOK
  <1>12. CASE UninstallEnds
    <2>1. CASE Name[d] = run.src
      <3>1. done'[d] = 1..0
        BY <1>12, <2>1 DEF UninstallEnds, Of
      <3> QED BY <3>1
    <2>2. CASE Name[d] # run.src
      BY <1>12, <2>2, <1>k DEF UninstallEnds
    <2> QED BY <2>1, <2>2
  <1>13. CASE Killed  BY <1>13, <1>k DEF Killed
  <1>14. CASE UNCHANGED stepsVars  BY <1>14, <1>k DEF stepsVars
  <1> QED
    BY <1>k, <1>1, <1>2, <1>3, <1>4, <1>5, <1>6, <1>7, <1>8, <1>9, <1>10, <1>11,
       <1>12, <1>13, <1>14 DEF StepsNext

LEMMA NextStepAtHand == DoneInv /\ [StepsNext]_stepsVars => StepAtHand'
  <1> SUFFICES ASSUME DoneInv, [StepsNext]_stepsVars PROVE StepAtHand'
    OBVIOUS
  <1> USE DEF DoneInv, StepAtHand, Building, StepsTypeOK
  <1>1. ASSUME NEW d \in Source, StartBuild(d) PROVE StepAtHand'
    BY <1>1 DEF StartBuild
  <1>2. ASSUME NEW d \in Source, RemoveDone(d) PROVE StepAtHand'
    BY <1>2 DEF RemoveDone
  <1>3. ASSUME NEW n \in Names, StartUninstall(n) PROVE StepAtHand'
    BY <1>3 DEF StartUninstall
  <1>4. CASE TestBuilt  BY <1>4 DEF TestBuilt
  <1>5. CASE SkipStep  BY <1>5 DEF SkipStep
  <1>6. CASE RunScript  BY <1>6 DEF RunScript
  <1>7. CASE ScriptSucceeds  BY <1>7 DEF ScriptSucceeds
  <1>8. CASE ScriptFails  BY <1>8 DEF ScriptFails
  <1>9. CASE TouchDone
    <2>1. CASE run.step = Last
      BY <1>9, <2>1 DEF TouchDone
    <2>2. CASE run.step # Last
      <3>1. run'.at = "step" /\ run'.src = run.src /\ run'.step = run.step + 1
        BY <1>9, <2>2 DEF TouchDone
      <3>2. run.src \in Source /\ run.step \in 1..6
        BY <1>9 DEF TouchDone
      <3>3. done'[run.src] = done[run.src] \cup {run.step}
        BY <1>9, <3>2 DEF TouchDone
      <3>4. 1..(run'.step - 1) \subseteq done'[run'.src]
        BY <1>9, <3>1, <3>2, <3>3 DEF TouchDone
      <3> QED BY <3>1, <3>4
    <2> QED BY <2>1, <2>2
  <1>10. CASE RemoveFiles  BY <1>10 DEF RemoveFiles
  <1>11. CASE RemovePackage  BY <1>11 DEF RemovePackage
  <1>12. CASE UninstallEnds  BY <1>12 DEF UninstallEnds
  <1>13. CASE Killed  BY <1>13 DEF Killed
  <1>14. CASE UNCHANGED stepsVars  BY <1>14 DEF stepsVars
  <1> QED
    BY <1>1, <1>2, <1>3, <1>4, <1>5, <1>6, <1>7, <1>8, <1>9, <1>10, <1>11,
       <1>12, <1>13, <1>14 DEF StepsNext

LEMMA NextWorkIsDone == DoneInv /\ [StepsNext]_stepsVars => WorkIsDone'
  <1> SUFFICES ASSUME DoneInv, [StepsNext]_stepsVars,
                      NEW d \in Source, Sound(d)', NEW s \in done'[d]
               PROVE  s \in work'[d] \/ Tolerated(d, s) \/ Undone(d)'
    BY DEF WorkIsDone, Tolerated
  <1> USE DEF DoneInv, WorkIsDone, Undone, StepsTypeOK, Sound
  <1> DEFINE Goal == s \in work'[d] \/ Tolerated(d, s) \/ Undone(d)'
  <1>1. ASSUME NEW e \in Source, StartBuild(e) PROVE Goal
    BY <1>1 DEF StartBuild
  <1>2. ASSUME NEW e \in Source, RemoveDone(e) PROVE Goal
    BY <1>2 DEF RemoveDone
  <1>3. ASSUME NEW n \in Names, StartUninstall(n) PROVE Goal
    BY <1>3 DEF StartUninstall
  <1>4. CASE TestBuilt  BY <1>4 DEF TestBuilt
  <1>5. CASE SkipStep  BY <1>5 DEF SkipStep
  <1>6. CASE RunScript  BY <1>6 DEF RunScript
  <1>7. CASE ScriptSucceeds  BY <1>7 DEF ScriptSucceeds
  <1>8. CASE ScriptFails  BY <1>8 DEF ScriptFails
  <1>9. CASE TouchDone  BY <1>9 DEF TouchDone, StepAtHand
  <1>10. CASE RemoveFiles  BY <1>10 DEF RemoveFiles, Of
  <1>11. CASE RemovePackage  BY <1>11 DEF RemovePackage, Of
  <1>12. CASE UninstallEnds  BY <1>12 DEF UninstallEnds, Of
  <1>13. CASE Killed  BY <1>13 DEF Killed
  <1>14. CASE UNCHANGED stepsVars  BY <1>14 DEF stepsVars
  <1> QED
    BY <1>1, <1>2, <1>3, <1>4, <1>5, <1>6, <1>7, <1>8, <1>9, <1>10, <1>11,
       <1>12, <1>13, <1>14 DEF StepsNext

LEMMA NextMark == DoneInv /\ [StepsNext]_stepsVars => DoneInv'
  BY StepsNextType, NextFirstSteps, NextStepAtHand, NextWorkIsDone DEF DoneInv

LEMMA AlwaysMark == StepsSpec => []DoneInv
  <1>1. DoneInv /\ [StepsNext]_stepsVars => DoneInv'
    BY NextMark
  <1> QED BY <1>1, InitMark, PTL DEF StepsSpec

\* A directory of which build_archive says "Buildt" is installed, unless an
\* uninstall_package of its own package was killed half-way or its pattern
\* did not match the directory.
THEOREM BuildtIsTrue == StepsSpec => []BuildtIsInstalled
  <1>1. DoneInv => BuildtIsInstalled
    <2> SUFFICES ASSUME DoneInv, run.at = "archive", Sound(run.src), Last \in done[run.src]
                 PROVE  Install \in work[run.src]
      BY DEF BuildtIsInstalled
    <2>1. run.src \in Source /\ ~Removing(run.src) /\ ~Undone(run.src)
      BY DEF DoneInv, StepsTypeOK, Removing, Undone
    <2>2. PICK k \in 0..Last : done[run.src] = 1..k
      BY <2>1 DEF DoneInv, FirstSteps
    <2>3. Install \in done[run.src]
      BY <2>2
    <2> QED BY <2>1, <2>3 DEF DoneInv, WorkIsDone, Tolerated
  <1> QED BY <1>1, AlwaysMark, PTL

\* No step of a build runs before the earlier ones have done their work,
\* however often the build failed or was stopped before; exempt are, as in
\* BuildtIsTrue, directories whose .done files an uninstallation has left.
THEOREM StepsInOrder == StepsSpec => []EarlierStepsAreDone
  <1>1. DoneInv => EarlierStepsAreDone
    <2> SUFFICES ASSUME DoneInv, run.at = "script", Sound(run.src),
                        NEW s \in 1..(run.step - 1)
                 PROVE  s \in work[run.src] \/ Tolerated(run.src, s)
      BY DEF EarlierStepsAreDone
    <2>1. run.src \in Source /\ s \in done[run.src]
      BY DEF DoneInv, StepsTypeOK, StepAtHand, Building
    <2> QED BY <2>1 DEF DoneInv, WorkIsDone, Undone
  <1> QED BY <1>1, AlwaysMark, PTL

-----------------------------------------------------------------------------
(* The .done files implement the step by step build.                       *)

LEMMA LeadingOfFirst == ASSUME NEW k \in 0..Last, NEW S, S = 1..k PROVE Leading(S) = k
  <1> DEFINE P(j) == 1..j \subseteq S /\ j + 1 \notin S
  <1>1. P(k)
    OBVIOUS
  <1>2. ASSUME NEW j \in 0..Last, P(j) PROVE j = k
    <2>1. ~(j < k)
      <3> SUFFICES ASSUME j < k PROVE FALSE
        OBVIOUS
      <3>1. j + 1 \in 1..k
        OBVIOUS
      <3> QED BY <3>1, <1>2
    <2>2. ~(k < j)
      <3> SUFFICES ASSUME k < j PROVE FALSE
        OBVIOUS
      <3>1. k + 1 \in 1..j /\ k + 1 \notin 1..k
        OBVIOUS
      <3> QED BY <3>1, <1>2
    <2> QED BY <2>1, <2>2
  <1> HIDE DEF P
  <1>3. k = CHOOSE j \in 0..Last : P(j)
    BY <1>1, <1>2
  <1> QED BY <1>3 DEF Leading, P

LEMMA InitProgress == StepsInit => Abstract!Init
  <1> SUFFICES ASSUME StepsInit PROVE Progress = [d \in Source |-> 0]
    BY DEF Abstract!Init
  <1> SUFFICES ASSUME NEW d \in Source
               PROVE  ~Undefined(d) /\ Leading(done[d]) = 0
    BY DEF Progress
  <1>1. done[d] = 1..0
    BY DEF StepsInit
  <1>2. Leading(done[d]) = 0
    BY <1>1, LeadingOfFirst
  <1> QED BY <1>2 DEF StepsInit, Undefined, Removing, Sound

\* A step that changes neither the .done files nor what is being removed is
\* not seen by the abstract build.
LEMMA Unseen ==
  ASSUME \A d \in Source : done'[d] = done[d] /\ Undefined(d)' = Undefined(d)
  PROVE  Progress' = Progress
  BY Zenon DEF Progress

LEMMA NextProgress == DoneInv /\ [StepsNext]_stepsVars => [Abstract!Next]_Progress
  <1> SUFFICES ASSUME DoneInv, [StepsNext]_stepsVars
               PROVE  Progress' = Progress \/ Abstract!Next
    OBVIOUS
  <1> USE DEF Undefined, Removing, Sound
  <1> DEFINE Stays == \A d \in Source : done'[d] = done[d] /\ Undefined(d)' = Undefined(d)
  <1>u. Stays => Progress' = Progress
    BY Unseen
  <1> HIDE DEF Stays
  <1>1. ASSUME NEW e \in Source, StartBuild(e) PROVE Stays
    BY <1>1 DEF StartBuild, Stays
  <1>2. ASSUME NEW e \in Source, RemoveDone(e) PROVE Progress' = Progress
    <2>1. ASSUME NEW d \in Source, ~Removing(d) PROVE done'[d] = done[d]
      BY <1>2, <2>1 DEF RemoveDone, Glob, Of, DoneInv, StepsTypeOK
    <2>2. run' = run /\ history' = history
      BY <1>2 DEF RemoveDone
    <2> QED BY <2>1, <2>2 DEF Progress
  <1>3. ASSUME NEW n \in Names, StartUninstall(n) PROVE Stays
    BY <1>3 DEF StartUninstall, Stays
  <1>4. ASSUME TestBuilt PROVE Stays
    BY <1>4 DEF TestBuilt, Stays, DoneInv, StepsTypeOK
  <1>5. ASSUME SkipStep PROVE Stays
    BY <1>5 DEF SkipStep, Stays, DoneInv, StepsTypeOK
  <1>6. ASSUME RunScript PROVE Stays
    BY <1>6 DEF RunScript, Stays, DoneInv, StepsTypeOK
  <1>7. ASSUME ScriptSucceeds PROVE Stays
    BY <1>7 DEF ScriptSucceeds, Stays, DoneInv, StepsTypeOK
  <1>8. ASSUME ScriptFails PROVE Stays
    BY <1>8 DEF ScriptFails, Stays, DoneInv, StepsTypeOK
  <1>9. CASE TouchDone
    <2>0. /\ run.at = "touch" /\ run'.at # "markers" /\ history' = history
          /\ run.src \in Source /\ run.step \in 1..6
      BY <1>9 DEF TouchDone, DoneInv, StepsTypeOK
    <2>1. CASE Sound(run.src)
      <3> DEFINE e == run.src
      <3>0. ~Removing(e)
        BY <2>0
      <3>1. PICK k \in 0..Last : done[e] = 1..k
        BY <2>0, <3>0, <2>1 DEF DoneInv, FirstSteps
      <3>2. run.step = k + 1 /\ k < Last
        <4>1. /\ 1..(run.step - 1) \subseteq done[e]
              /\ run.step \notin done[e]
          BY <2>0, <2>1 DEF DoneInv, StepAtHand, Building
        <4>2. k < run.step
          BY <2>0, <3>1, <4>1
        <4>3. ~(k < run.step - 1)
          <5> SUFFICES ASSUME k < run.step - 1 PROVE FALSE
            OBVIOUS
          <5>1. k + 1 \in 1..(run.step - 1) /\ k + 1 \notin 1..k
            BY <2>0
          <5> QED BY <5>1, <3>1, <4>1
        <4> QED BY <2>0, <4>2, <4>3
      <3>3. done'[e] = 1..(k + 1) /\ \A d \in Source : d # e => done'[d] = done[d]
        BY <1>9, <2>0, <3>1, <3>2 DEF TouchDone, DoneInv, StepsTypeOK
      <3>4. Leading(done[e]) = k /\ Leading(done'[e]) = k + 1
        <4>1. Leading(done[e]) = k
          BY <3>1, LeadingOfFirst
        <4>2. k + 1 \in 0..Last
          BY <3>2
        <4>3. Leading(done'[e]) = k + 1
          BY <3>3, <4>2, LeadingOfFirst
        <4> QED BY <4>1, <4>3
      <3>5. Progress[e] = k
        BY <2>0, <2>1, <3>4 DEF Progress
      <3>6. Progress' = [Progress EXCEPT ![e] = @ + 1]
        <4> SUFFICES ASSUME NEW d \in Source
                     PROVE  Progress'[d] = [Progress EXCEPT ![e] = @ + 1][d]
          BY DEF Progress
        <4>1. CASE d = e
          BY <2>0, <2>1, <3>4, <3>5, <4>1 DEF Progress
        <4>2. CASE d # e
          BY <2>0, <3>3, <4>2 DEF Progress
        <4> QED BY <4>1, <4>2
      <3> QED BY <2>0, <3>2, <3>5, <3>6 DEF Abstract!Next, Abstract!Advance
    <2>2. CASE ~Sound(run.src)
      <3>1. ASSUME NEW d \in Source, d # run.src PROVE done'[d] = done[d]
        BY <1>9, <2>0, <3>1 DEF TouchDone, DoneInv, StepsTypeOK
      <3> QED BY <2>0, <2>2, <3>1 DEF Progress
    <2> QED BY <2>1, <2>2
  <1>10. ASSUME RemoveFiles PROVE Stays
    BY <1>10 DEF RemoveFiles, Stays, DoneInv, StepsTypeOK
  <1>11. CASE RemovePackage
    <2> DEFINE n == run.src
    <2>1. /\ run.at = "package" /\ run'.at = "markers" /\ run'.src = n /\ history' = history
          /\ \A d \in Source : done'[d] = done[d]
      BY <1>11 DEF RemovePackage, DoneInv, StepsTypeOK
    <2>2. Progress' = [d \in Source |-> IF Name[d] = n THEN 0 ELSE Progress[d]]
      BY <2>1 DEF Progress
    <2>3. CASE \E d \in Source : Name[d] = n
      BY <2>2, <2>3 DEF Abstract!Next, Abstract!Undo
    <2>4. CASE ~\E d \in Source : Name[d] = n
      BY <2>2, <2>4 DEF Progress
    <2> QED BY <2>3, <2>4
  <1>12. CASE UninstallEnds
    <2>1. /\ run.at = "markers" /\ run'.at = "idle" /\ done' = done
          /\ tornNames' = tornNames \ {run.src}
      BY <1>12 DEF UninstallEnds
    <2>2. ASSUME NEW d \in Source, Removing(d), d \notin outlived' PROVE Leading(done[d]) = 0
      <3>1. done[d] = 1..0
        BY <1>12, <2>2 DEF UninstallEnds, Of
      <3> QED BY <3>1, LeadingOfFirst
    <2>3. ASSUME NEW d \in Source, ~Removing(d) PROVE Undefined(d)' = Undefined(d)
      BY <1>12, <2>1, <2>3 DEF UninstallEnds, Of
    <2> QED BY <2>1, <2>2, <2>3 DEF Progress
  <1>13. CASE Killed
    <2> DEFINE n == run.src
    <2>0. done' = done /\ run'.at = "idle"
      BY <1>13 DEF Killed
    <2>1. CASE run.at \notin Uninstalling \/ ~\E d \in Source : Name[d] = n
      <3>1. Stays
        BY <1>13, <2>0, <2>1 DEF Killed, Stays
      <3> QED BY <3>1, <1>u
    <2>2. CASE run.at \in Uninstalling /\ \E d \in Source : Name[d] = n
      <3>1. tornNames' = tornNames \cup {n} /\ outlived' = outlived
        BY <1>13, <2>2 DEF Killed
      <3>2. Progress' = [d \in Source |-> IF Name[d] = n THEN 0 ELSE Progress[d]]
        BY <2>0, <3>1 DEF Progress
      <3> QED BY <2>2, <3>2 DEF Abstract!Next, Abstract!Undo
    <2> QED BY <2>1, <2>2
  <1>14. ASSUME UNCHANGED stepsVars PROVE Stays
    BY <1>14 DEF stepsVars, Stays
  <1> QED
    BY <1>u, <1>1, <1>2, <1>3, <1>4, <1>5, <1>6, <1>7, <1>8, <1>9, <1>10, <1>11,
       <1>12, <1>13, <1>14 DEF StepsNext

\* Across failures, kills and uninstalls the .done files take every directory
\* through the steps one by one (build_from_source 7-19).
THEOREM ImplementsStepwise == StepsSpec => BuildsStepwise
  <1>1. DoneInv /\ [StepsNext]_stepsVars => [Abstract!Next]_Progress
    BY NextProgress
  <1> QED BY <1>1, InitProgress, AlwaysMark, PTL DEF StepsSpec, BuildsStepwise, Abstract!Spec

HIDE DEF Step, Last, Install, Configure, Idle, Doing, Uninstalling, history

-----------------------------------------------------------------------------
(* PackageBuild.                                                           *)

(* The ways a step of the script can end, and the values it writes.        *)
USE DEF Trees, Tarballs, Outcomes, Steps, Removals, PackageSteps
USE DEF Goto, Continue, Dispose, Exit, AtEntry, AtPackage, AtArchive, cur,
        netVars, treeVars, makeVars, runVars

-----------------------------------------------------------------------------
(* Type correctness: the disk, the flags and the state of the run apart.   *)

LEMMA InitType == Init => TypeOK
  <1> SUFFICES ASSUME Init PROVE TypeOK
    OBVIOUS
  <1>1. FilesOK  BY DEF Init, FilesOK, AllNone
  <1>2. FlagsOK  BY Zenon DEF Init, FlagsOK
  <1>3. RunOK
    <2>1. opts \in [notexit : BOOLEAN, force : BOOLEAN]
      BY DEF Init, NoOptions
    <2>2. outcome \in [Pkgs -> Outcomes]
      BY DEF Init, NoOutcome
    <2> QED BY <2>1, <2>2 DEF Init, RunOK
  <1> QED BY <1>1, <1>2, <1>3 DEF TypeOK

LEMMA ExitRun == RunOK /\ Exit /\ torn' \subseteq Pkgs => RunOK'
  <1> SUFFICES ASSUME RunOK, Exit, torn' \subseteq Pkgs PROVE RunOK'
    OBVIOUS
  <1>1. (opts \in [notexit : BOOLEAN, force : BOOLEAN])'
    BY DEF NoOptions
  <1>2. (outcome \in [Pkgs -> Outcomes])'
    BY DEF NoOutcome
  <1> QED BY <1>1, <1>2 DEF RunOK

(* The files.                                                               *)
LEMMA LoopFiles == TypeOK /\ Loop => FilesOK'
  <1> SUFFICES ASSUME TypeOK, Loop PROVE FilesOK'
    OBVIOUS
  <1> USE DEF TypeOK, FilesOK, RunOK
  <1>1. CASE Jump  BY <1>1 DEF Jump
  <1>2. CASE Stop  BY <1>2 DEF Stop
  <1>3. CASE PassOver  BY <1>3 DEF PassOver
  <1>4. CASE EndMark  BY <1>4 DEF EndMark
  <1>5. CASE LoopEnd  BY <1>5 DEF LoopEnd
  <1>6. CASE SkipByMarker  BY <1>6 DEF SkipByMarker
  <1> QED BY <1>1, <1>2, <1>3, <1>4, <1>5, <1>6 DEF Loop

LEMMA ReposFiles == TypeOK /\ Repos => FilesOK'
  <1> SUFFICES ASSUME TypeOK, Repos PROVE FilesOK'
    OBVIOUS
  <1> USE DEF TypeOK, FilesOK, RunOK
  <1>1. CASE GitSkip  BY <1>1 DEF GitSkip
  <1>2. CASE GitEnter  BY <1>2 DEF GitEnter
  <1>3. CASE GitCloned  BY <1>3 DEF GitCloned
  <1>4. CASE PipInstall  BY <1>4 DEF PipInstall, Begun
  <1>5. CASE PipRequirements  BY <1>5 DEF PipRequirements, Begun
  <1> QED BY <1>1, <1>2, <1>3, <1>4, <1>5 DEF Repos

LEMMA DownloadFiles == TypeOK /\ Download => FilesOK'
  <1> SUFFICES ASSUME TypeOK, Download PROVE FilesOK'
    OBVIOUS
  <1> USE DEF TypeOK, FilesOK, RunOK
  <1>1. CASE DropAfterError  BY <1>1 DEF DropAfterError
  <1>2. CASE FetchFirst  BY <1>2 DEF FetchFirst, Wget
  <1>3. CASE Receive  BY <1>3 DEF Receive, Fetching
  <1>4. CASE FetchDone  BY <1>4 DEF FetchDone, Fetching, FetchCheck
  <1>5. CASE FetchFailed  BY <1>5 DEF FetchFailed, Fetching, FetchCheck
  <1>6. CASE Check1  BY <1>6 DEF Check1, Wget
  <1>7. CASE Check2  BY <1>7 DEF Check2
  <1> QED BY <1>1, <1>2, <1>3, <1>4, <1>5, <1>6, <1>7 DEF Download

LEMMA ArchiveFiles == TypeOK /\ Archive => FilesOK'
  <1> SUFFICES ASSUME TypeOK, Archive PROVE FilesOK'
    OBVIOUS
  <1> USE DEF TypeOK, FilesOK, RunOK
  <1>1. CASE UnpackBegin  BY <1>1 DEF UnpackBegin
  <1>2. CASE UnpackEnd  BY <1>2 DEF UnpackEnd, Fail
  <1>3. CASE InstallBinary  BY <1>3 DEF InstallBinary, Begun
  <1>4. CASE BinaryInstalled  BY <1>4 DEF BinaryInstalled
  <1> QED BY <1>1, <1>2, <1>3, <1>4 DEF Archive

LEMMA AutobuildFiles == TypeOK /\ Autobuild => FilesOK'
  <1> SUFFICES ASSUME TypeOK, Autobuild PROVE FilesOK'
    OBVIOUS
  <1> USE DEF TypeOK, FilesOK, RunOK
  <1>1. CASE AutoSkip  BY <1>1 DEF AutoSkip, Reason
  <1>2. CASE Make  BY <1>2 DEF Make
  <1>3. CASE MakeFails  BY <1>3 DEF MakeFails, Fail
  <1>4. CASE StageWrites  BY <1>4 DEF StageWrites
  <1>5. CASE StageEnds  BY <1>5 DEF StageEnds, Whole, Begun
  <1>6. CASE InstallWrites  BY <1>6 DEF InstallWrites
  <1>7. CASE Installed  BY <1>7 DEF Installed, Whole, Begun
  <1>8. CASE InstallFails  BY <1>8 DEF InstallFails, Fail
  <1>9. CASE MarkBuilt  BY <1>9 DEF MarkBuilt
  <1>10. CASE NoMakefile  BY <1>10 DEF NoMakefile
  <1> QED BY <1>1, <1>2, <1>3, <1>4, <1>5, <1>6, <1>7, <1>8, <1>9,
            <1>10 DEF Autobuild

LEMMA PackingFiles == TypeOK /\ Packing => FilesOK'
  <1> SUFFICES ASSUME TypeOK, Packing PROVE FilesOK'
    OBVIOUS
  <1> USE DEF TypeOK, FilesOK, RunOK
  <1>1. CASE PackageBegin  BY <1>1 DEF PackageBegin
  <1>2. CASE PackageEmpty  BY <1>2 DEF PackageEmpty, Fail
  <1>3. CASE Packed  BY <1>3 DEF Packed, Whole, Begun
  <1>4. CASE PackedOdd  BY <1>4 DEF PackedOdd
  <1>5. CASE OpkgWrites  BY <1>5 DEF OpkgWrites
  <1>6. CASE OpkgFails  BY <1>6 DEF OpkgFails, Fail
  <1>7. CASE AutoDone  BY <1>7 DEF AutoDone
  <1> QED BY <1>1, <1>2, <1>3, <1>4, <1>5, <1>6, <1>7 DEF Packing

LEMMA FinishFiles == TypeOK /\ Finish => FilesOK'
  <1> SUFFICES ASSUME TypeOK, Finish PROVE FilesOK'
    OBVIOUS
  <1> USE DEF TypeOK, FilesOK, RunOK
  <1>1. CASE EndWithError  BY <1>1 DEF EndWithError
  <1>2. CASE BuildenvBegin  BY <1>2 DEF BuildenvBegin
  <1>3. CASE BuildenvEnd  BY <1>3 DEF BuildenvEnd
  <1>4. CASE BuildenvGrows  BY <1>4 DEF BuildenvGrows
  <1> QED BY <1>1, <1>2, <1>3, <1>4 DEF Finish

LEMMA CleanupFiles == TypeOK /\ Cleanup => FilesOK'
  <1> SUFFICES ASSUME TypeOK, Cleanup PROVE FilesOK'
    OBVIOUS
  <1> USE DEF TypeOK, FilesOK, RunOK
  <1>1. CASE UninstallBegin  BY <1>1 DEF UninstallBegin
  <1>2. CASE UninstallFiles  BY <1>2 DEF UninstallFiles
  <1>3. CASE UninstallBuild  BY <1>3 DEF UninstallBuild
  <1>4. CASE UninstallEnd  BY <1>4 DEF UninstallEnd
  <1>5. CASE CleanBegin  BY <1>5 DEF CleanBegin
  <1>6. CASE CleanPrefix  BY <1>6 DEF CleanPrefix, AllNone
  <1>7. CASE CleanBuild  BY <1>7 DEF CleanBuild
  <1>8. CASE CleanSources  BY <1>8 DEF CleanSources, AllNone
  <1>9. CASE CleanPackages  BY <1>9 DEF CleanPackages, AllNone
  <1>10. CASE CleanEnd  BY <1>10 DEF CleanEnd, AllNone
  <1>11. CASE Remove  BY <1>11 DEF Remove, RemoveSome
  <1> QED BY <1>1, <1>2, <1>3, <1>4, <1>5, <1>6, <1>7, <1>8, <1>9, <1>10,
             <1>11 DEF Cleanup

LEMMA OutsideFiles == TypeOK /\ Outside => FilesOK'
  <1> SUFFICES ASSUME TypeOK, Outside PROVE FilesOK'
    OBVIOUS
  <1> USE DEF TypeOK, FilesOK, RunOK
  <1>1. CASE StartRun  BY <1>1 DEF StartRun
  <1>2. CASE Crash  BY <1>2 DEF Crash
  <1>3. CASE EditList  BY <1>3 DEF EditList
  <1>4. CASE OtherTarget  BY OthersAssumption, <1>4 DEF OtherTarget
  <1>5. CASE FastBuild
    <2>1. prefix' \in [Pkgs -> Trees]  BY <1>5 DEF FastBuild
    <2>2. buildenv' \in Trees  BY <1>5 DEF FastBuild, Begun
    <2> QED BY <1>5, <2>1, <2>2 DEF FastBuild
  <1> QED BY <1>1, <1>2, <1>3, <1>4, <1>5 DEF Outside

(* The flags.                                                               *)
LEMMA LoopFlags == FlagsOK /\ Loop => FlagsOK'
  <1> SUFFICES ASSUME FlagsOK, Loop PROVE FlagsOK'
    OBVIOUS
  <1> USE DEF FlagsOK
  <1>1. CASE Jump  BY Zenon, <1>1 DEF Jump
  <1>2. CASE Stop  BY Zenon, <1>2 DEF Stop
  <1>3. CASE PassOver  BY Zenon, <1>3 DEF PassOver
  <1>4. CASE EndMark  BY Zenon, <1>4 DEF EndMark
  <1>5. CASE LoopEnd  BY Zenon, <1>5 DEF LoopEnd
  <1>6. CASE SkipByMarker  BY Zenon, <1>6 DEF SkipByMarker
  <1> QED BY <1>1, <1>2, <1>3, <1>4, <1>5, <1>6 DEF Loop

LEMMA ReposFlags == FlagsOK /\ Repos => FlagsOK'
  <1> SUFFICES ASSUME FlagsOK, Repos PROVE FlagsOK'
    OBVIOUS
  <1> USE DEF FlagsOK
  <1>1. CASE GitSkip  BY Zenon, <1>1 DEF GitSkip
  <1>2. CASE GitEnter  BY Zenon, <1>2 DEF GitEnter
  <1>3. CASE GitCloned  BY Zenon, <1>3 DEF GitCloned
  <1>4. CASE PipInstall  BY Zenon, <1>4 DEF PipInstall, Begun
  <1>5. CASE PipRequirements  BY Zenon, <1>5 DEF PipRequirements
  <1> QED BY <1>1, <1>2, <1>3, <1>4, <1>5 DEF Repos

LEMMA DownloadFlags == FlagsOK /\ Download => FlagsOK'
  <1> SUFFICES ASSUME FlagsOK, Download PROVE FlagsOK'
    OBVIOUS
  <1> USE DEF FlagsOK
  <1>1. CASE DropAfterError  BY Zenon, <1>1 DEF DropAfterError
  <1>2. CASE FetchFirst  BY Zenon, <1>2 DEF FetchFirst, Wget
  <1>3. CASE Receive  BY Zenon, <1>3 DEF Receive, Fetching
  <1>4. CASE FetchDone  BY Zenon, <1>4 DEF FetchDone, Fetching, FetchCheck
  <1>5. CASE FetchFailed  BY Zenon, <1>5 DEF FetchFailed, Fetching, FetchCheck
  <1>6. CASE Check1  BY Zenon, <1>6 DEF Check1, Wget
  <1>7. CASE Check2  BY Zenon, <1>7 DEF Check2
  <1> QED BY <1>1, <1>2, <1>3, <1>4, <1>5, <1>6, <1>7 DEF Download

LEMMA ArchiveFlags == FlagsOK /\ Archive => FlagsOK'
  <1> SUFFICES ASSUME FlagsOK, Archive PROVE FlagsOK'
    OBVIOUS
  <1> USE DEF FlagsOK
  <1>1. CASE UnpackBegin  BY Zenon, <1>1 DEF UnpackBegin
  <1>2. CASE UnpackEnd  BY Zenon, <1>2 DEF UnpackEnd, Fail
  <1>3. CASE InstallBinary  BY Zenon, <1>3 DEF InstallBinary, Begun
  <1>4. CASE BinaryInstalled  BY Zenon, <1>4 DEF BinaryInstalled
  <1> QED BY <1>1, <1>2, <1>3, <1>4 DEF Archive

LEMMA AutobuildFlags == FlagsOK /\ Autobuild => FlagsOK'
  <1> SUFFICES ASSUME FlagsOK, Autobuild PROVE FlagsOK'
    OBVIOUS
  <1> USE DEF FlagsOK
  <1>1. CASE AutoSkip  BY Zenon, <1>1 DEF AutoSkip, Reason
  <1>2. CASE Make  BY Zenon, <1>2 DEF Make
  <1>3. CASE MakeFails  BY Zenon, <1>3 DEF MakeFails, Fail
  <1>4. CASE StageWrites  BY Zenon, <1>4 DEF StageWrites
  <1>5. CASE StageEnds  BY Zenon, <1>5 DEF StageEnds, Whole, Begun
  <1>6. CASE InstallWrites  BY Zenon, <1>6 DEF InstallWrites
  <1>7. CASE Installed  BY Zenon, <1>7 DEF Installed, Whole, Begun
  <1>8. CASE InstallFails  BY Zenon, <1>8 DEF InstallFails, Fail
  <1>9. CASE MarkBuilt  BY Zenon, <1>9 DEF MarkBuilt
  <1>10. CASE NoMakefile  BY Zenon, <1>10 DEF NoMakefile
  <1> QED BY <1>1, <1>2, <1>3, <1>4, <1>5, <1>6, <1>7, <1>8, <1>9,
            <1>10 DEF Autobuild

LEMMA PackingFlags == FlagsOK /\ Packing => FlagsOK'
  <1> SUFFICES ASSUME FlagsOK, Packing PROVE FlagsOK'
    OBVIOUS
  <1> USE DEF FlagsOK
  <1>1. CASE PackageBegin  BY Zenon, <1>1 DEF PackageBegin
  <1>2. CASE PackageEmpty  BY Zenon, <1>2 DEF PackageEmpty, Fail
  <1>3. CASE Packed  BY Zenon, <1>3 DEF Packed, Whole, Begun
  <1>4. CASE PackedOdd  BY Zenon, <1>4 DEF PackedOdd
  <1>5. CASE OpkgWrites  BY Zenon, <1>5 DEF OpkgWrites
  <1>6. CASE OpkgFails  BY Zenon, <1>6 DEF OpkgFails, Fail
  <1>7. CASE AutoDone  BY Zenon, <1>7 DEF AutoDone
  <1> QED BY <1>1, <1>2, <1>3, <1>4, <1>5, <1>6, <1>7 DEF Packing

LEMMA FinishFlags == FlagsOK /\ Finish => FlagsOK'
  <1> SUFFICES ASSUME FlagsOK, Finish PROVE FlagsOK'
    OBVIOUS
  <1> USE DEF FlagsOK
  <1>1. CASE EndWithError  BY Zenon, <1>1 DEF EndWithError
  <1>2. CASE BuildenvBegin  BY Zenon, <1>2 DEF BuildenvBegin
  <1>3. CASE BuildenvEnd  BY Zenon, <1>3 DEF BuildenvEnd
  <1>4. CASE BuildenvGrows  BY Zenon, <1>4 DEF BuildenvGrows
  <1> QED BY <1>1, <1>2, <1>3, <1>4 DEF Finish

LEMMA CleanupFlags == FlagsOK /\ Cleanup => FlagsOK'
  <1> SUFFICES ASSUME FlagsOK, Cleanup PROVE FlagsOK'
    OBVIOUS
  <1> USE DEF FlagsOK
  <1>1. CASE UninstallBegin  BY Zenon, <1>1 DEF UninstallBegin
  <1>2. CASE UninstallFiles  BY Zenon, <1>2 DEF UninstallFiles
  <1>3. CASE UninstallBuild  BY Zenon, <1>3 DEF UninstallBuild
  <1>4. CASE UninstallEnd  BY Zenon, <1>4 DEF UninstallEnd
  <1>5. CASE CleanBegin  BY Zenon, <1>5 DEF CleanBegin
  <1>6. CASE CleanPrefix  BY Zenon, <1>6 DEF CleanPrefix, AllNone
  <1>7. CASE CleanBuild  BY Zenon, <1>7 DEF CleanBuild
  <1>8. CASE CleanSources  BY Zenon, <1>8 DEF CleanSources, AllNone
  <1>9. CASE CleanPackages  BY Zenon, <1>9 DEF CleanPackages, AllNone
  <1>10. CASE CleanEnd  BY Zenon, <1>10 DEF CleanEnd, AllNone
  <1>11. CASE Remove  BY Zenon, <1>11 DEF Remove, RemoveSome
  <1> QED BY <1>1, <1>2, <1>3, <1>4, <1>5, <1>6, <1>7, <1>8, <1>9, <1>10,
             <1>11 DEF Cleanup

LEMMA OutsideFlags == FlagsOK /\ Outside => FlagsOK'
  <1> SUFFICES ASSUME FlagsOK, Outside PROVE FlagsOK'
    OBVIOUS
  <1> USE DEF FlagsOK
  <1>1. CASE StartRun  BY Zenon, <1>1 DEF StartRun
  <1>2. CASE Crash  BY Zenon, <1>2 DEF Crash
  <1>3. CASE EditList  BY Zenon, <1>3 DEF EditList
  <1>4. CASE OtherTarget  BY OthersAssumption, <1>4 DEF OtherTarget
  <1>5. CASE FastBuild  BY <1>5 DEF FastBuild
  <1> QED BY <1>1, <1>2, <1>3, <1>4, <1>5 DEF Outside

(* The state of the run.                                                    *)
LEMMA LoopRun == TypeOK /\ Loop => RunOK'
  <1> SUFFICES ASSUME TypeOK, Loop PROVE RunOK'
    OBVIOUS
  <1> USE DEF TypeOK, FilesOK, RunOK
  <1>1. CASE Jump  BY <1>1 DEF Jump
  <1>2. CASE Stop  BY <1>2 DEF Stop
  <1>3. CASE PassOver  BY <1>3 DEF PassOver
  <1>4. CASE EndMark  BY <1>4 DEF EndMark
  <1>5. CASE LoopEnd  BY <1>5 DEF LoopEnd
  <1>6. CASE SkipByMarker  BY <1>6 DEF SkipByMarker
  <1> QED BY <1>1, <1>2, <1>3, <1>4, <1>5, <1>6 DEF Loop

LEMMA ReposRun == TypeOK /\ Repos => RunOK'
  <1> SUFFICES ASSUME TypeOK, Repos PROVE RunOK'
    OBVIOUS
  <1> USE DEF TypeOK, FilesOK, RunOK
  <1>1. CASE GitSkip  BY <1>1 DEF GitSkip
  <1>2. CASE GitEnter  BY <1>2 DEF GitEnter
  <1>3. CASE GitCloned  BY <1>3 DEF GitCloned
  <1>4. CASE PipInstall  BY <1>4 DEF PipInstall, Begun
  <1>5. CASE PipRequirements  BY ExitRun, <1>5 DEF PipRequirements, Begun
  <1> QED BY <1>1, <1>2, <1>3, <1>4, <1>5 DEF Repos

LEMMA DownloadRun == TypeOK /\ Download => RunOK'
  <1> SUFFICES ASSUME TypeOK, Download PROVE RunOK'
    OBVIOUS
  <1> USE DEF TypeOK, FilesOK, RunOK
  <1>1. CASE DropAfterError  BY <1>1 DEF DropAfterError
  <1>2. CASE FetchFirst  BY <1>2 DEF FetchFirst, Wget
  <1>3. CASE Receive  BY <1>3 DEF Receive, Fetching
  <1>4. CASE FetchDone  BY <1>4 DEF FetchDone, Fetching, FetchCheck
  <1>5. CASE FetchFailed  BY <1>5 DEF FetchFailed, Fetching, FetchCheck
  <1>6. CASE Check1  BY <1>6 DEF Check1, Wget
  <1>7. CASE Check2  BY ExitRun, <1>7 DEF Check2
  <1> QED BY <1>1, <1>2, <1>3, <1>4, <1>5, <1>6, <1>7 DEF Download

LEMMA ArchiveRun == TypeOK /\ Archive => RunOK'
  <1> SUFFICES ASSUME TypeOK, Archive PROVE RunOK'
    OBVIOUS
  <1> USE DEF TypeOK, FilesOK, RunOK
  <1>1. CASE UnpackBegin  BY <1>1 DEF UnpackBegin
  <1>2. CASE UnpackEnd  BY ExitRun, <1>2 DEF UnpackEnd, Fail
  <1>3. CASE InstallBinary  BY <1>3 DEF InstallBinary, Begun
  <1>4. CASE BinaryInstalled  BY <1>4 DEF BinaryInstalled
  <1> QED BY <1>1, <1>2, <1>3, <1>4 DEF Archive

LEMMA AutobuildRun == TypeOK /\ Autobuild => RunOK'
  <1> SUFFICES ASSUME TypeOK, Autobuild PROVE RunOK'
    OBVIOUS
  <1> USE DEF TypeOK, FilesOK, RunOK
  <1>1. CASE AutoSkip  BY <1>1 DEF AutoSkip, Reason
  <1>2. CASE Make  BY <1>2 DEF Make
  <1>3. CASE MakeFails  BY ExitRun, <1>3 DEF MakeFails, Fail
  <1>4. CASE StageWrites  BY <1>4 DEF StageWrites
  <1>5. CASE StageEnds  BY <1>5 DEF StageEnds, Whole, Begun
  <1>6. CASE InstallWrites  BY <1>6 DEF InstallWrites
  <1>7. CASE Installed  BY <1>7 DEF Installed, Whole, Begun
  <1>8. CASE InstallFails  BY ExitRun, <1>8 DEF InstallFails, Fail
  <1>9. CASE MarkBuilt  BY <1>9 DEF MarkBuilt
  <1>10. CASE NoMakefile  BY <1>10 DEF NoMakefile
  <1> QED BY <1>1, <1>2, <1>3, <1>4, <1>5, <1>6, <1>7, <1>8, <1>9,
            <1>10 DEF Autobuild

LEMMA PackingRun == TypeOK /\ Packing => RunOK'
  <1> SUFFICES ASSUME TypeOK, Packing PROVE RunOK'
    OBVIOUS
  <1> USE DEF TypeOK, FilesOK, RunOK
  <1>1. CASE PackageBegin  BY <1>1 DEF PackageBegin
  <1>2. CASE PackageEmpty  BY ExitRun, <1>2 DEF PackageEmpty, Fail
  <1>3. CASE Packed  BY <1>3 DEF Packed, Whole, Begun
  <1>4. CASE PackedOdd  BY <1>4 DEF PackedOdd
  <1>5. CASE OpkgWrites  BY <1>5 DEF OpkgWrites
  <1>6. CASE OpkgFails  BY ExitRun, <1>6 DEF OpkgFails, Fail
  <1>7. CASE AutoDone  BY <1>7 DEF AutoDone
  <1> QED BY <1>1, <1>2, <1>3, <1>4, <1>5, <1>6, <1>7 DEF Packing

LEMMA FinishRun == TypeOK /\ Finish => RunOK'
  <1> SUFFICES ASSUME TypeOK, Finish PROVE RunOK'
    OBVIOUS
  <1> USE DEF TypeOK, FilesOK, RunOK
  <1>1. CASE EndWithError  BY ExitRun, <1>1 DEF EndWithError
  <1>2. CASE BuildenvBegin  BY <1>2 DEF BuildenvBegin
  <1>3. CASE BuildenvEnd  BY ExitRun, <1>3 DEF BuildenvEnd
  <1>4. CASE BuildenvGrows  BY <1>4 DEF BuildenvGrows
  <1> QED BY <1>1, <1>2, <1>3, <1>4 DEF Finish

LEMMA CleanupRun == TypeOK /\ Cleanup => RunOK'
  <1> SUFFICES ASSUME TypeOK, Cleanup PROVE RunOK'
    OBVIOUS
  <1> USE DEF TypeOK, FilesOK, RunOK
  <1>1. CASE UninstallBegin  BY <1>1 DEF UninstallBegin
  <1>2. CASE UninstallFiles  BY <1>2 DEF UninstallFiles
  <1>3. CASE UninstallBuild  BY <1>3 DEF UninstallBuild
  <1>4. CASE UninstallEnd  BY ExitRun, <1>4 DEF UninstallEnd
  <1>5. CASE CleanBegin  BY <1>5 DEF CleanBegin
  <1>6. CASE CleanPrefix  BY <1>6 DEF CleanPrefix, AllNone
  <1>7. CASE CleanBuild  BY <1>7 DEF CleanBuild
  <1>8. CASE CleanSources  BY <1>8 DEF CleanSources, AllNone
  <1>9. CASE CleanPackages  BY <1>9 DEF CleanPackages, AllNone
  <1>10. CASE CleanEnd  BY ExitRun, <1>10 DEF CleanEnd, AllNone
  <1>11. CASE Remove  BY <1>11 DEF Remove, RemoveSome
  <1> QED BY <1>1, <1>2, <1>3, <1>4, <1>5, <1>6, <1>7, <1>8, <1>9, <1>10,
             <1>11 DEF Cleanup

LEMMA OutsideRun == TypeOK /\ Outside => RunOK'
  <1> SUFFICES ASSUME TypeOK, Outside PROVE RunOK'
    OBVIOUS
  <1> USE DEF TypeOK, FilesOK, RunOK
  <1>1. CASE StartRun  BY FlagsAssumption, <1>1 DEF StartRun
  <1>2. CASE Crash  BY ExitRun, <1>2 DEF Crash
  <1>3. CASE EditList  BY <1>3 DEF EditList
  <1>4. CASE OtherTarget  BY <1>4 DEF OtherTarget
  <1>5. CASE FastBuild  BY <1>5 DEF FastBuild
  <1> QED BY <1>1, <1>2, <1>3, <1>4, <1>5 DEF Outside

LEMMA NextFiles == TypeOK /\ [Next]_vars => FilesOK'
  <1> SUFFICES ASSUME TypeOK, [Next]_vars PROVE FilesOK'
    OBVIOUS
  <1>1. CASE Builder
    BY <1>1, LoopFiles, ReposFiles, DownloadFiles, ArchiveFiles,
       AutobuildFiles,
       PackingFiles, FinishFiles DEF Builder
  <1>2. CASE Cleanup  BY <1>2, CleanupFiles
  <1>3. CASE Outside  BY <1>3, OutsideFiles
  <1>4. CASE UNCHANGED vars  BY <1>4 DEF vars, TypeOK, FilesOK
  <1> QED BY <1>1, <1>2, <1>3, <1>4 DEF Next

LEMMA NextFlags == FlagsOK /\ [Next]_vars => FlagsOK'
  <1> SUFFICES ASSUME FlagsOK, [Next]_vars PROVE FlagsOK'
    OBVIOUS
  <1>1. CASE Builder
    BY <1>1, LoopFlags, ReposFlags, DownloadFlags, ArchiveFlags,
       AutobuildFlags,
       PackingFlags, FinishFlags DEF Builder
  <1>2. CASE Cleanup  BY <1>2, CleanupFlags
  <1>3. CASE Outside  BY <1>3, OutsideFlags
  <1>4. CASE UNCHANGED vars  BY <1>4 DEF vars, FlagsOK
  <1> QED BY <1>1, <1>2, <1>3, <1>4 DEF Next

LEMMA NextRun == TypeOK /\ [Next]_vars => RunOK'
  <1> SUFFICES ASSUME TypeOK, [Next]_vars PROVE RunOK'
    OBVIOUS
  <1>1. CASE Builder
    BY <1>1, LoopRun, ReposRun, DownloadRun, ArchiveRun, AutobuildRun,
       PackingRun, FinishRun DEF Builder
  <1>2. CASE Cleanup  BY <1>2, CleanupRun
  <1>3. CASE Outside  BY <1>3, OutsideRun
  <1>4. CASE UNCHANGED vars  BY <1>4 DEF vars, TypeOK, RunOK
  <1> QED BY <1>1, <1>2, <1>3, <1>4 DEF Next

LEMMA NextType == TypeOK /\ [Next]_vars => TypeOK'
  BY NextFiles, NextFlags, NextRun DEF TypeOK

(* In every behaviour of the builder, killed and restarted as often as one *)
(* likes, all files and all of the script's state keep to their values.    *)
THEOREM TypeCorrect == Spec => []TypeOK
  BY InitType, NextType, PTL DEF Spec

-----------------------------------------------------------------------------
(* The .start protocol.  Only wget touches archives and .start files, and  *)
(* only after it was started for the entry the loop is at.                 *)

FetchSteps == {"fetch1", "check1", "fetch2", "check2", "archive", "tar", "bin"}

(* What all steps but those of the download leave alone.                   *)
NetKept ==
  /\ UNCHANGED netVars
  /\ pc' \in FetchSteps =>
       /\ pc \in FetchSteps
       /\ pc' \in {"fetch1", "fetch2"} => pc \in {"fetch1", "fetch2"}
       /\ UNCHANGED <<plist, i, fetched>>

LEMMA LoopNet == Loop => NetKept
  BY DEF Loop, Jump, Stop, PassOver, EndMark, LoopEnd, SkipByMarker,
         NetKept, FetchSteps

LEMMA ReposNet == Repos => NetKept
  BY DEF Repos, GitSkip, GitEnter, GitCloned, PipInstall, PipRequirements,
         NetKept, FetchSteps

LEMMA ArchiveNet == Archive => NetKept
  BY DEF Archive, UnpackBegin, UnpackEnd, InstallBinary, BinaryInstalled,
           Fail,
         NetKept, FetchSteps

LEMMA AutobuildNet == Autobuild => NetKept
  BY DEF Autobuild, AutoSkip, Make, NoMakefile, MakeFails, StageWrites, StageEnds,
           InstallWrites, Installed, InstallFails, MarkBuilt, Fail,
         NetKept, FetchSteps

LEMMA PackingNet == Packing => NetKept
  BY DEF Packing, PackageBegin, PackageEmpty, Packed, PackedOdd,
           OpkgWrites, OpkgFails, AutoDone, Fail,
         NetKept, FetchSteps

LEMMA FinishNet == Finish => NetKept
  BY DEF Finish, EndWithError, BuildenvBegin, BuildenvGrows, BuildenvEnd,
         NetKept, FetchSteps

LEMMA CleanupNet == Cleanup => NetKept
  BY DEF Cleanup, UninstallBegin, UninstallFiles, UninstallBuild,
           UninstallEnd, CleanBegin, CleanPrefix, CleanBuild,
           CleanSources, CleanPackages, CleanEnd, Remove,
         NetKept, FetchSteps

LEMMA OtherNet == [Next]_vars /\ ~Download => NetKept
  <1>1. Outside \/ UNCHANGED vars => NetKept
    BY DEF Outside, StartRun, OtherTarget, FastBuild, Crash, EditList, vars,
           NetKept, FetchSteps
  <1> QED
    BY <1>1, LoopNet, ReposNet, ArchiveNet, AutobuildNet, PackingNet,
       FinishNet, CleanupNet DEF Next, Builder

(* While wget runs its .start file is there; and what db-lcarchive gets to *)
(* see of an incomplete archive was fetched in this run.                   *)
StartInv ==
  /\ PartialIsMarked
  /\ pc \in {"fetch1", "fetch2"} => cur \in startmark /\ cur \in fetched
  /\ pc \in FetchSteps => (tarball[cur] = "partial" => cur \in fetched)

LEMMA DownloadStart == TypeOK /\ StartInv /\ Download => StartInv'
  <1> SUFFICES ASSUME TypeOK, StartInv, Download PROVE StartInv'
    OBVIOUS
  <1> USE DEF TypeOK, FilesOK, RunOK, StartInv, PartialIsMarked, FetchSteps
  <1>1. CASE DropAfterError  BY <1>1 DEF DropAfterError
  <1>2. CASE FetchFirst  BY <1>2 DEF FetchFirst, Wget, Kept
  <1>3. CASE Receive  BY <1>3 DEF Receive, Fetching
  <1>4. CASE FetchDone  BY <1>4 DEF FetchDone, Fetching, FetchCheck
  <1>5. CASE FetchFailed  BY <1>5 DEF FetchFailed, Fetching, FetchCheck
  <1>6. CASE Check1  BY <1>6 DEF Check1, Wget
  <1>7. CASE Check2  BY <1>7 DEF Check2
  <1> QED BY <1>1, <1>2, <1>3, <1>4, <1>5, <1>6, <1>7 DEF Download

LEMMA StartInvHolds == Spec => []StartInv
  <1>1. Init => StartInv
    BY DEF Init, AllNone, StartInv, PartialIsMarked, FetchSteps
  <1>2. TypeOK /\ StartInv /\ [Next]_vars => StartInv'
    <2> SUFFICES ASSUME TypeOK, StartInv, [Next]_vars PROVE StartInv'
      OBVIOUS
    <2>1. CASE Download  BY <2>1, DownloadStart
    <2>2. CASE ~Download
      <3>1. NetKept  BY <2>2, OtherNet
      <3> QED BY <3>1 DEF NetKept, StartInv, PartialIsMarked, FetchSteps
    <2> QED BY <2>1, <2>2
  <1> QED BY <1>1, <1>2, TypeCorrect, PTL DEF Spec

(* An archive that is only partly there has its .start file.               *)
THEOREM StartProtocol == Spec => []PartialIsMarked
  <1>1. StartInv => PartialIsMarked  BY DEF StartInv
  <1> QED BY <1>1, StartInvHolds, PTL

(* An incomplete archive is unpacked only by the run whose wget left it so. *)
THEOREM EarlierPartialsAreFetchedAnew == Spec => []OnlyOwnPartials
  <1>1. StartInv => OnlyOwnPartials
    BY DEF StartInv, OnlyOwnPartials, FetchSteps
  <1> QED BY <1>1, StartInvHolds, PTL

(* No step of a run, a crash or a clean gives up a finished archive.       *)
THEOREM FinishedArchivesStay == Spec => GoodArchivesKept
  <1> DEFINE Kept1 == \A p \in Pkgs :
                tarball[p] = "good" /\ p \notin startmark
                  => tarball'[p] = "good" /\ p \notin startmark'
  <1>1. TypeOK /\ [Next]_vars => Kept1
    <2> SUFFICES ASSUME TypeOK, [Next]_vars PROVE Kept1
      OBVIOUS
    <2>1. CASE Download
      <3> USE DEF TypeOK, FilesOK, RunOK
      <3>1. CASE DropAfterError \/ FetchFailed
        BY <3>1 DEF DropAfterError, FetchFailed
      <3>2. CASE FetchFirst  BY <3>2 DEF FetchFirst, Wget, Kept
      <3>3. CASE Receive  BY <3>3 DEF Receive
      <3>4. CASE FetchDone  BY <3>4 DEF FetchDone
      <3>5. CASE Check1  BY <3>5 DEF Check1, Wget
      <3>6. CASE Check2  BY <3>6 DEF Check2
      <3> QED BY <2>1, <3>1, <3>2, <3>3, <3>4, <3>5, <3>6 DEF Download
    <2>2. CASE ~Download  BY <2>2, OtherNet DEF NetKept
    <2> QED BY <2>1, <2>2
  <1>2. TypeOK /\ [Next]_vars => [Kept1]_vars
    BY <1>1
  <1> QED BY <1>2, TypeCorrect, PTL DEF Spec, GoodArchivesKept

-----------------------------------------------------------------------------
(* The meaning of buildok.  MarkedIsInstalled is not inductive: one has to *)
(* know what the script has done when it is about to touch buildok, that   *)
(* a package without sources has no buildok file (else new sources, never  *)
(* built, would meet an old buildok), and how far a removal has come.      *)
MarkInv ==
  /\ MarkedIsInstalled
  /\ \A p \in Pkgs : src[p] = "none" => p \notin buildok
  /\ pc \in {"tar", "clone"} => cur \notin buildok
  /\ pc \in {"stage", "install", "mark"} => src[cur] # "none"
  /\ \/ pc = "mark"
     \/ pc = "stage" /\ cur \in Meson
     => (cur \notin Tolerant \cup torn /\ src[cur] = "full"
           => prefix[cur] = "full")
  /\ pc \in {"rmfiles", "rmbuild", "rmpkg"} => target \in torn
  /\ pc = "rmpkg" => target \notin buildok
  /\ pc \in {"clean1", "clean2", "clean3", "clean4", "clean5"} => torn = Pkgs
  /\ pc \in {"clean4", "clean5"} => buildok = {}

LEMMA LoopMark == TypeOK /\ MarkInv /\ Loop => MarkInv'
  <1> SUFFICES ASSUME TypeOK, MarkInv, Loop PROVE MarkInv'
    OBVIOUS
  <1> USE DEF TypeOK, FilesOK, RunOK, MarkInv, MarkedIsInstalled
  <1>1. CASE Jump  BY <1>1 DEF Jump
  <1>2. CASE Stop  BY <1>2 DEF Stop
  <1>3. CASE PassOver  BY <1>3 DEF PassOver
  <1>4. CASE EndMark  BY <1>4 DEF EndMark
  <1>5. CASE LoopEnd  BY <1>5 DEF LoopEnd
  <1>6. CASE SkipByMarker  BY <1>6 DEF SkipByMarker
  <1> QED BY <1>1, <1>2, <1>3, <1>4, <1>5, <1>6 DEF Loop

LEMMA ReposMark == TypeOK /\ MarkInv /\ Repos => MarkInv'
  <1> SUFFICES ASSUME TypeOK, MarkInv, Repos PROVE MarkInv'
    OBVIOUS
  <1> USE DEF TypeOK, FilesOK, RunOK, MarkInv, MarkedIsInstalled
  <1>1. CASE GitSkip  BY <1>1 DEF GitSkip
  <1>2. CASE GitEnter  BY <1>2 DEF GitEnter
  <1>3. CASE GitCloned  BY <1>3 DEF GitCloned
  <1>4. CASE PipInstall  BY <1>4 DEF PipInstall, Begun
  <1>5. CASE PipRequirements  BY <1>5 DEF PipRequirements, Begun
  <1> QED BY <1>1, <1>2, <1>3, <1>4, <1>5 DEF Repos

LEMMA DownloadMark == TypeOK /\ MarkInv /\ Download => MarkInv'
  <1> SUFFICES ASSUME TypeOK, MarkInv, Download PROVE MarkInv'
    OBVIOUS
  <1> USE DEF TypeOK, FilesOK, RunOK, MarkInv, MarkedIsInstalled
  <1>1. CASE DropAfterError  BY <1>1 DEF DropAfterError
  <1>2. CASE FetchFirst  BY <1>2 DEF FetchFirst, Wget
  <1>3. CASE Receive  BY <1>3 DEF Receive, Fetching
  <1>4. CASE FetchDone  BY <1>4 DEF FetchDone, Fetching, FetchCheck
  <1>5. CASE FetchFailed  BY <1>5 DEF FetchFailed, Fetching, FetchCheck
  <1>6. CASE Check1  BY <1>6 DEF Check1, Wget
  <1>7. CASE Check2  BY <1>7 DEF Check2
  <1> QED BY <1>1, <1>2, <1>3, <1>4, <1>5, <1>6, <1>7 DEF Download

LEMMA ArchiveMark == TypeOK /\ MarkInv /\ Archive => MarkInv'
  <1> SUFFICES ASSUME TypeOK, MarkInv, Archive PROVE MarkInv'
    OBVIOUS
  <1> USE DEF TypeOK, FilesOK, RunOK, MarkInv, MarkedIsInstalled
  <1>1. CASE UnpackBegin  BY <1>1 DEF UnpackBegin
  <1>2. CASE UnpackEnd  BY <1>2 DEF UnpackEnd, Fail
  <1>3. CASE InstallBinary  BY <1>3 DEF InstallBinary, Begun
  <1>4. CASE BinaryInstalled  BY <1>4 DEF BinaryInstalled
  <1> QED BY <1>1, <1>2, <1>3, <1>4 DEF Archive

LEMMA AutobuildMark == TypeOK /\ MarkInv /\ Autobuild => MarkInv'
  <1> SUFFICES ASSUME TypeOK, MarkInv, Autobuild PROVE MarkInv'
    OBVIOUS
  <1> USE DEF TypeOK, FilesOK, RunOK, MarkInv, MarkedIsInstalled
  <1>1. CASE AutoSkip  BY <1>1 DEF AutoSkip, Reason
  <1>2. CASE Make  BY <1>2 DEF Make
  <1>3. CASE MakeFails  BY <1>3 DEF MakeFails, Fail
  <1>4. CASE StageWrites  BY <1>4 DEF StageWrites
  <1>5. CASE StageEnds  BY <1>5 DEF StageEnds, Whole, Begun
  <1>6. CASE InstallWrites  BY <1>6 DEF InstallWrites
  <1>7. CASE Installed  BY <1>7 DEF Installed, Whole, Begun
  <1>8. CASE InstallFails  BY <1>8 DEF InstallFails, Fail
  <1>9. CASE MarkBuilt  BY <1>9 DEF MarkBuilt
  <1>10. CASE NoMakefile  BY <1>10 DEF NoMakefile
  <1> QED BY <1>1, <1>2, <1>3, <1>4, <1>5, <1>6, <1>7, <1>8, <1>9,
            <1>10 DEF Autobuild

LEMMA PackingMark == TypeOK /\ MarkInv /\ Packing => MarkInv'
  <1> SUFFICES ASSUME TypeOK, MarkInv, Packing PROVE MarkInv'
    OBVIOUS
  <1> USE DEF TypeOK, FilesOK, RunOK, MarkInv, MarkedIsInstalled
  <1>1. CASE PackageBegin  BY <1>1 DEF PackageBegin
  <1>2. CASE PackageEmpty  BY <1>2 DEF PackageEmpty, Fail
  <1>3. CASE Packed  BY <1>3 DEF Packed, Whole, Begun
  <1>4. CASE PackedOdd  BY <1>4 DEF PackedOdd
  <1>5. CASE OpkgWrites  BY <1>5 DEF OpkgWrites
  <1>6. CASE OpkgFails  BY <1>6 DEF OpkgFails, Fail
  <1>7. CASE AutoDone  BY <1>7 DEF AutoDone
  <1> QED BY <1>1, <1>2, <1>3, <1>4, <1>5, <1>6, <1>7 DEF Packing

LEMMA FinishMark == TypeOK /\ MarkInv /\ Finish => MarkInv'
  <1> SUFFICES ASSUME TypeOK, MarkInv, Finish PROVE MarkInv'
    OBVIOUS
  <1> USE DEF TypeOK, FilesOK, RunOK, MarkInv, MarkedIsInstalled
  <1>1. CASE EndWithError  BY <1>1 DEF EndWithError
  <1>2. CASE BuildenvBegin  BY <1>2 DEF BuildenvBegin
  <1>3. CASE BuildenvEnd  BY <1>3 DEF BuildenvEnd
  <1>4. CASE BuildenvGrows  BY <1>4 DEF BuildenvGrows
  <1> QED BY <1>1, <1>2, <1>3, <1>4 DEF Finish

LEMMA CleanupMark == TypeOK /\ MarkInv /\ Cleanup => MarkInv'
  <1> SUFFICES ASSUME TypeOK, MarkInv, Cleanup PROVE MarkInv'
    OBVIOUS
  <1> USE DEF TypeOK, FilesOK, RunOK, MarkInv, MarkedIsInstalled
  <1>1. CASE UninstallBegin  BY <1>1 DEF UninstallBegin
  <1>2. CASE UninstallFiles  BY <1>2 DEF UninstallFiles
  <1>3. CASE UninstallBuild  BY <1>3 DEF UninstallBuild
  <1>4. CASE UninstallEnd  BY <1>4 DEF UninstallEnd
  <1>5. CASE CleanBegin  BY <1>5 DEF CleanBegin
  <1>6. CASE CleanPrefix  BY <1>6 DEF CleanPrefix, AllNone
  <1>7. CASE CleanBuild  BY <1>7 DEF CleanBuild
  <1>8. CASE CleanSources  BY <1>8 DEF CleanSources, AllNone
  <1>9. CASE CleanPackages  BY <1>9 DEF CleanPackages, AllNone
  <1>10. CASE CleanEnd  BY <1>10 DEF CleanEnd, AllNone
  <1>11. CASE Remove  BY <1>11 DEF Remove, RemoveSome
  <1> QED BY <1>1, <1>2, <1>3, <1>4, <1>5, <1>6, <1>7, <1>8, <1>9, <1>10,
             <1>11 DEF Cleanup

LEMMA OutsideMark ==
  TypeOK /\ MarkInv /\ Outside => MarkInv'
  <1> SUFFICES ASSUME TypeOK, MarkInv, Outside
           PROVE  MarkInv'
    OBVIOUS
  <1> USE DEF TypeOK, FilesOK, RunOK, MarkInv, MarkedIsInstalled
  <1>1. CASE StartRun  BY <1>1 DEF StartRun
  <1>2. CASE Crash  BY <1>2 DEF Crash
  <1>3. CASE EditList  BY <1>3 DEF EditList
  <1>4. CASE OtherTarget  BY <1>4 DEF OtherTarget
  <1>5. CASE FastBuild  BY <1>5 DEF FastBuild, AllNone
  <1> QED BY <1>1, <1>2, <1>3, <1>4, <1>5 DEF Outside

LEMMA MarkInvHolds == Spec => []MarkInv
  <1>1. Init => MarkInv
    BY DEF Init, AllNone, MarkInv, MarkedIsInstalled
  <1>2. TypeOK /\ MarkInv /\ [Next]_vars => MarkInv'
    <2> SUFFICES ASSUME TypeOK, MarkInv, [Next]_vars PROVE MarkInv'
      OBVIOUS
    <2>1. CASE Builder
      BY <2>1, LoopMark, ReposMark, DownloadMark, ArchiveMark, AutobuildMark,
         PackingMark, FinishMark DEF Builder
    <2>2. CASE Cleanup  BY <2>2, CleanupMark
    <2>3. CASE Outside  BY <2>3, OutsideMark
    <2>4. CASE UNCHANGED vars
      BY <2>4 DEF vars, MarkInv, MarkedIsInstalled
    <2> QED BY <2>1, <2>2, <2>3, <2>4 DEF Next
  <1> QED BY <1>1, <1>2, TypeCorrect, PTL DEF Spec

(* A buildok file never lies about a package with whole sources, whatever  *)
(* is killed, cleaned or uninstalled, save for what a killed removal left. *)
THEOREM BuildokIsTrue == Spec => []MarkedIsInstalled
  <1>1. MarkInv => MarkedIsInstalled  BY DEF MarkInv
  <1> QED BY <1>1, MarkInvHolds, PTL

-----------------------------------------------------------------------------
(* The list buildenv was made from.                                        *)
EnvInv ==
  ~missed => /\ pc \in Steps \ {"idle"} => plist = list
             /\ buildenv # "none" /\ ~stale => plist = list

LEMMA LoopEnv == EnvInv /\ Loop => EnvInv'
  BY DEF Loop, Jump, Stop, PassOver, EndMark, LoopEnd, SkipByMarker, EnvInv

LEMMA ReposEnv == EnvInv /\ Repos => EnvInv'
  BY DEF Repos, GitSkip, GitEnter, GitCloned, PipInstall, PipRequirements,
         EnvInv

LEMMA DownloadEnv == EnvInv /\ Download => EnvInv'
  BY DEF Download, DropAfterError, FetchFirst, Receive, FetchDone,
         FetchFailed, Check1, Check2, Wget, Fetching, FetchCheck, EnvInv

LEMMA ArchiveEnv == EnvInv /\ Archive => EnvInv'
  BY DEF Archive, UnpackBegin, UnpackEnd, InstallBinary, BinaryInstalled,
         Fail, EnvInv

LEMMA AutobuildEnv == EnvInv /\ Autobuild => EnvInv'
  BY DEF Autobuild, AutoSkip, Make, NoMakefile, MakeFails, StageWrites, StageEnds,
         InstallWrites, Installed, InstallFails, MarkBuilt, Fail, EnvInv

LEMMA PackingEnv == EnvInv /\ Packing => EnvInv'
  BY DEF Packing, PackageBegin, PackageEmpty, Packed, PackedOdd,
         OpkgWrites, OpkgFails, AutoDone, Fail, EnvInv

LEMMA FinishEnv == EnvInv /\ Finish => EnvInv'
  BY DEF Finish, EndWithError, BuildenvBegin, BuildenvGrows, BuildenvEnd, EnvInv

LEMMA CleanupEnv == EnvInv /\ Cleanup => EnvInv'
  BY DEF Cleanup, UninstallBegin, UninstallFiles, UninstallBuild,
         UninstallEnd, CleanBegin, CleanPrefix, CleanBuild, CleanSources,
         CleanPackages, CleanEnd, Remove, EnvInv

LEMMA EnvInvHolds == Spec => []EnvInv
  <1>1. Init => EnvInv
    BY DEF Init, EnvInv
  <1>2. TypeOK /\ EnvInv /\ [Next]_vars => EnvInv'
    <2> SUFFICES ASSUME TypeOK, EnvInv, [Next]_vars PROVE EnvInv'
      OBVIOUS
    <2>1. CASE Builder
      BY <2>1, LoopEnv, ReposEnv, DownloadEnv, ArchiveEnv, AutobuildEnv,
         PackingEnv, FinishEnv DEF Builder
    <2>2. CASE Cleanup  BY <2>2, CleanupEnv
    <2>3. CASE Outside
      <3>1. CASE StartRun  BY <2>3, <3>1 DEF StartRun, EnvInv
      <3>2. CASE OtherTarget  BY <2>3, <3>2 DEF OtherTarget, EnvInv
      <3>3. CASE FastBuild  BY <2>3, <3>3 DEF FastBuild, EnvInv
      <3>4. CASE Crash  BY <2>3, <3>4 DEF Crash, EnvInv
      <3>5. CASE EditList  BY <2>3, <3>5 DEF EditList, EnvInv
      <3> QED BY <2>3, <3>1, <3>2, <3>3, <3>4, <3>5 DEF Outside
    <2>4. CASE UNCHANGED vars  BY <2>4 DEF vars, EnvInv
    <2> QED BY <2>1, <2>2, <2>3, <2>4 DEF Next
  <1> QED BY <1>1, <1>2, TypeCorrect, PTL DEF Spec

(* What make takes for up to date was last built from the list as it now   *)
(* is, unless the list was edited under that very run or buildenv written  *)
(* by another target or a fast build since.                                *)
THEOREM UpToDateIsCurrent == Spec => []BuildenvIsCurrent
  <1>1. EnvInv => BuildenvIsCurrent  BY DEF EnvInv, BuildenvIsCurrent, MakeRuns
  <1> QED BY <1>1, EnvInvHolds, PTL

-----------------------------------------------------------------------------
(* What a run has done when it writes buildenv.  BuildenvIsEarned speaks   *)
(* of the end only; inductive is that at every entry the loop knows which  *)
(* regions are switched off, and that what lies behind it is dealt with.   *)

(* Entry k is switched off, or the run has disposed of its package; it was *)
(* not dropped unless ydfs-error stands, which the run never takes back.   *)
Handled(k) ==
  Active(k) => /\ outcome[plist[k]] # "none"
               /\ outcome[plist[k]] = "tolerated" => opts.notexit
               /\ outcome[plist[k]] = "dropped" => err

InLoop == pc = "entry" \/ pc \in PackageSteps

EarnInv ==
  /\ InLoop => /\ i \in 1 .. Len(plist) + 1
               /\ brk <=> Off(i)
               /\ \A k \in 1 .. i - 1 : Handled(k)
  /\ pc \in PackageSteps => ~brk
  /\ pc \in {"end", "env"} => err \/ \A k \in 1 .. Len(plist) : Handled(k)
  /\ pc = "env" => ~err

(* A region begins behind #JUMP and ends behind #STOP.                     *)
LEMMA OffNext ==
  ASSUME NEW k \in Nat \ {0}
  PROVE  /\ plist[k] = "#JUMP" => Off(k + 1)
         /\ plist[k] = "#STOP" => ~Off(k + 1)
         /\ plist[k] \notin {"#JUMP", "#STOP"} => (Off(k + 1) <=> Off(k))
  <1>1. 1 .. (k + 1) - 1 = 1 .. k  OBVIOUS
  <1>2. ASSUME plist[k] = "#JUMP" PROVE Off(k + 1)
    <2>1. k \in 1 .. (k + 1) - 1  OBVIOUS
    <2>2. \A l \in k + 1 .. (k + 1) - 1 : plist[l] # "#STOP"  OBVIOUS
    <2> QED BY <1>2, <2>1, <2>2 DEF Off
  <1>3. ASSUME plist[k] = "#STOP", Off(k + 1) PROVE FALSE
    <2>1. PICK j \in 1 .. (k + 1) - 1 :
            /\ plist[j] = "#JUMP"
            /\ \A l \in j + 1 .. (k + 1) - 1 : plist[l] # "#STOP"
      BY <1>3 DEF Off
    <2>2. j # k  BY <1>3, <2>1
    <2>3. k \in j + 1 .. (k + 1) - 1  BY <2>2
    <2> QED BY <1>3, <2>1, <2>3
  <1>4. ASSUME plist[k] \notin {"#JUMP", "#STOP"}, Off(k) PROVE Off(k + 1)
    <2>1. PICK j \in 1 .. k - 1 :
            /\ plist[j] = "#JUMP"
            /\ \A l \in j + 1 .. k - 1 : plist[l] # "#STOP"
      BY <1>4 DEF Off
    <2>2. j \in 1 .. (k + 1) - 1  OBVIOUS
    <2>3. \A l \in j + 1 .. (k + 1) - 1 : l = k \/ l \in j + 1 .. k - 1
      OBVIOUS
    <2>4. \A l \in j + 1 .. (k + 1) - 1 : plist[l] # "#STOP"
      BY <1>4, <2>1, <2>3
    <2> QED BY <2>1, <2>2, <2>4 DEF Off
  <1>5. ASSUME plist[k] \notin {"#JUMP", "#STOP"}, Off(k + 1) PROVE Off(k)
    <2>1. PICK j \in 1 .. (k + 1) - 1 :
            /\ plist[j] = "#JUMP"
            /\ \A l \in j + 1 .. (k + 1) - 1 : plist[l] # "#STOP"
      BY <1>5 DEF Off
    <2>2. j # k  BY <1>5, <2>1
    <2>3. j \in 1 .. k - 1  BY <2>2
    <2>4. \A l \in j + 1 .. k - 1 : l \in j + 1 .. (k + 1) - 1
      OBVIOUS
    <2> QED BY <2>1, <2>3, <2>4 DEF Off
  <1> QED BY <1>2, <1>3, <1>4, <1>5

(* What is switched off depends on the list alone.                         *)
LEMMA SameListSameEntries ==
  ASSUME plist' = plist, NEW k \in Nat
  PROVE  (Off(k)' <=> Off(k)) /\ (Active(k)' <=> Active(k))
  BY DEF Off, Ended, Active

(* What no step in the loop takes back: the list, the environment and      *)
(* ydfs-error.                                                             *)
RunKept == /\ plist' = plist /\ opts' = opts
           /\ err => err'

LEMMA HandledStays ==
  ASSUME RunKept, outcome' = outcome, NEW k \in Nat, Handled(k)
  PROVE  Handled(k)'
  <1>1. Active(k)' <=> Active(k)  BY SameListSameEntries DEF RunKept
  <1> QED BY <1>1 DEF Handled, RunKept

(* What the steps on a package come to for the list loop: they go on with  *)
(* it, dispose of it, give the run up with ydfs-error, or end the script.  *)
GoesOn   == /\ pc' \in PackageSteps
            /\ i' = i /\ outcome' = outcome /\ err' = err

Disposed == /\ pc' = "entry" /\ i' = i + 1
            /\ \E o \in Outcomes \ {"none"} :
                 /\ outcome' = [outcome EXCEPT ![plist[i]] = o]
                 /\ o = "tolerated" => opts.notexit
                 /\ o = "dropped" => err

GivesUp  == pc' = "end" /\ err'

PackageStep ==
  \/ /\ InLoop /\ i \in 1 .. Len(plist) /\ plist[i] \in Pkgs /\ ~brk
     /\ RunKept /\ brk' = brk
     /\ GoesOn \/ Disposed \/ GivesUp
  \/ pc' = "idle"

LEMMA DisposedAs ==
  ASSUME NEW o \in Outcomes \ {"none"}, Dispose(plist[i], o),
         o = "tolerated" => opts.notexit,  o = "dropped" => err
  PROVE  Disposed
  BY DEF Disposed

LEMMA ReposStep == TypeOK /\ EarnInv /\ Repos => PackageStep
  <1> SUFFICES ASSUME TypeOK, EarnInv, Repos PROVE PackageStep
    OBVIOUS
  <1> USE DEF InLoop, PackageStep, RunKept, GoesOn, Disposed, GivesUp
  <1>1. CASE GitSkip
    <2>1. Dispose(plist[i], "skipped")  BY <1>1 DEF GitSkip
    <2>2. "skipped" \in Outcomes \ {"none", "tolerated", "dropped"}
      OBVIOUS
    <2> HIDE DEF Disposed
    <2>3. Disposed  BY <2>1, <2>2, DisposedAs
    <2> QED BY <1>1, <2>3 DEF GitSkip
  <1>2. CASE GitEnter  BY <1>2 DEF GitEnter
  <1>3. CASE GitCloned  BY <1>3 DEF GitCloned, TypeOK, RunOK, EarnInv
  <1>4. CASE PipInstall  BY <1>4 DEF PipInstall
  <1>5. CASE PipRequirements  BY <1>5 DEF PipRequirements
  <1> QED BY <1>1, <1>2, <1>3, <1>4, <1>5 DEF Repos

LEMMA DownloadStep == TypeOK /\ EarnInv /\ Download => PackageStep
  <1> SUFFICES ASSUME TypeOK, EarnInv, Download PROVE PackageStep
    OBVIOUS
  <1> USE DEF InLoop, PackageStep, RunKept, GoesOn, Disposed, GivesUp
  <1>1. CASE DropAfterError  BY <1>1 DEF DropAfterError
  <1>2. CASE FetchFirst  BY <1>2 DEF FetchFirst, Wget
  <1>3. CASE ~DropAfterError /\ ~FetchFirst
    <2>1. InLoop /\ i \in 1 .. Len(plist) /\ plist[i] \in Pkgs /\ ~brk
      BY <1>3 DEF Download, Receive, FetchDone, FetchFailed, Fetching, Check1,
                  Check2, TypeOK, RunOK, EarnInv
    <2>2. CASE Receive  BY <2>1, <2>2 DEF Receive, Fetching
    <2>3. CASE FetchDone  BY <2>1, <2>3 DEF FetchDone, Fetching, FetchCheck
    <2>4. CASE FetchFailed  BY <2>1, <2>4 DEF FetchFailed, Fetching, FetchCheck
    <2>5. CASE Check1  BY <2>1, <2>5 DEF Check1, Wget
    <2>6. CASE Check2  BY <2>1, <2>6 DEF Check2
    <2> QED BY <1>3, <2>2, <2>3, <2>4, <2>5, <2>6 DEF Download
  <1> QED BY <1>1, <1>2, <1>3

LEMMA ArchiveStep == TypeOK /\ EarnInv /\ Archive => PackageStep
  <1> SUFFICES ASSUME TypeOK, EarnInv, Archive PROVE PackageStep
    OBVIOUS
  <1>1. InLoop /\ i \in 1 .. Len(plist) /\ plist[i] \in Pkgs /\ ~brk
    BY DEF Archive, UnpackBegin, UnpackEnd, InstallBinary, BinaryInstalled,
           TypeOK, RunOK, EarnInv, InLoop
  <1> USE <1>1 DEF PackageStep, RunKept, GoesOn, Disposed, GivesUp
  <1>2. CASE UnpackBegin  BY <1>2 DEF UnpackBegin
  <1>3. CASE UnpackEnd  BY <1>3 DEF UnpackEnd, Fail
  <1>4. CASE InstallBinary  BY <1>4 DEF InstallBinary
  <1>5. CASE BinaryInstalled
    <2>1. Dispose(plist[i], "built")  BY <1>5 DEF BinaryInstalled
    <2>2. "built" \in Outcomes \ {"none", "tolerated", "dropped"}
      OBVIOUS
    <2> HIDE DEF Disposed
    <2>3. Disposed  BY <2>1, <2>2, DisposedAs
    <2> QED BY <1>5, <2>3 DEF BinaryInstalled
  <1> QED BY <1>2, <1>3, <1>4, <1>5 DEF Archive

LEMMA AutobuildStep == TypeOK /\ EarnInv /\ Autobuild => PackageStep
  <1> SUFFICES ASSUME TypeOK, EarnInv, Autobuild PROVE PackageStep
    OBVIOUS
  <1>1. InLoop /\ i \in 1 .. Len(plist) /\ plist[i] \in Pkgs /\ ~brk
    BY DEF Autobuild, AutoSkip, Make, NoMakefile, MakeFails, StageWrites,
           StageEnds, InstallWrites, Installed, InstallFails, MarkBuilt,
           TypeOK, RunOK, EarnInv, InLoop
  <1> USE <1>1 DEF PackageStep, RunKept, GoesOn, Disposed, GivesUp
  <1>2. CASE AutoSkip
    <2>1. Dispose(plist[i], Reason(cur))  BY <1>2 DEF AutoSkip
    <2>2. Reason(cur) \in Outcomes \ {"none", "tolerated", "dropped"}
      BY DEF Reason
    <2> HIDE DEF Disposed
    <2>3. Disposed  BY <2>1, <2>2, DisposedAs
    <2> QED BY <1>2, <2>3 DEF AutoSkip
  <1>3. CASE Make  BY <1>3 DEF Make
  <1>4. CASE NoMakefile  BY <1>4 DEF NoMakefile
  <1>5. CASE MakeFails  BY <1>5 DEF MakeFails, Fail
  <1>6. CASE StageWrites  BY <1>6 DEF StageWrites
  <1>7. CASE StageEnds  BY <1>7 DEF StageEnds
  <1>8. CASE InstallWrites  BY <1>8 DEF InstallWrites
  <1>9. CASE Installed  BY <1>9 DEF Installed
  <1>10. CASE InstallFails  BY <1>10 DEF InstallFails, Fail
  <1>11. CASE MarkBuilt  BY <1>11 DEF MarkBuilt
  <1> QED BY <1>2, <1>3, <1>4, <1>5, <1>6, <1>7, <1>8, <1>9, <1>10,
             <1>11 DEF Autobuild

LEMMA PackingStep == TypeOK /\ EarnInv /\ Packing => PackageStep
  <1> SUFFICES ASSUME TypeOK, EarnInv, Packing PROVE PackageStep
    OBVIOUS
  <1>1. InLoop /\ i \in 1 .. Len(plist) /\ plist[i] \in Pkgs /\ ~brk
    BY DEF Packing, PackageBegin, PackageEmpty, Packed, PackedOdd, OpkgWrites,
           OpkgFails, AutoDone, TypeOK, RunOK, EarnInv, InLoop
  <1> USE <1>1 DEF PackageStep, RunKept, GoesOn, Disposed, GivesUp
  <1>2. CASE PackageBegin  BY <1>2 DEF PackageBegin
  <1>3. CASE PackageEmpty
    <2>1. CASE opts.notexit
      <3>1. Disposed  BY <1>3, <2>1, DisposedAs DEF PackageEmpty, Fail
      <3> QED BY <1>3, <2>1, <3>1 DEF PackageEmpty, Fail
    <2>2. CASE ~opts.notexit  BY <1>3, <2>2 DEF PackageEmpty, Fail
    <2> QED BY <2>1, <2>2
  <1>4. CASE Packed  BY <1>4 DEF Packed
  <1>5. CASE PackedOdd  BY <1>5 DEF PackedOdd
  <1>6. CASE OpkgWrites  BY <1>6 DEF OpkgWrites
  <1>7. CASE OpkgFails  BY <1>7 DEF OpkgFails, Fail
  <1>8. CASE AutoDone
    <2>1. Dispose(plist[i], "built")  BY <1>8 DEF AutoDone
    <2>2. "built" \in Outcomes \ {"none", "tolerated", "dropped"}
      OBVIOUS
    <2> HIDE DEF Disposed
    <2>3. Disposed  BY <2>1, <2>2, DisposedAs
    <2> QED BY <1>8, <2>3 DEF AutoDone
  <1> QED BY <1>2, <1>3, <1>4, <1>5, <1>6, <1>7, <1>8 DEF Packing

LEMMA PackageStepEarn == TypeOK /\ EarnInv /\ PackageStep => EarnInv'
  <1> SUFFICES ASSUME TypeOK, EarnInv, PackageStep PROVE EarnInv'
    OBVIOUS
  <1>1. CASE pc' = "idle"  BY <1>1 DEF EarnInv, InLoop
  <1>2. CASE pc' # "idle"
    <2>1. /\ InLoop /\ i \in 1 .. Len(plist) /\ plist[i] \in Pkgs /\ ~brk
          /\ RunKept /\ brk' = brk
      BY <1>2 DEF PackageStep
    <2>2. \A k \in 1 .. i - 1 : Handled(k)  BY <2>1 DEF EarnInv
    <2>3. ~Off(i)  BY <2>1 DEF EarnInv
    <2>4. plist' = plist  BY <2>1 DEF RunKept
    <2>5. i \in Nat \ {0} /\ Len(plist) \in Nat
      BY <2>1, ListsAssumption DEF TypeOK, RunOK
    <2>6. CASE GoesOn
      <3>1. i' = i /\ outcome' = outcome /\ pc' \in PackageSteps
        BY <2>6 DEF GoesOn
      <3>2. ASSUME NEW k \in 1 .. i - 1 PROVE Handled(k)'
        <4>1. k \in Nat  OBVIOUS
        <4> QED BY <2>1, <2>2, <3>1, <4>1, HandledStays
      <3>3. ~Off(i)'  BY <2>3, <2>4, <2>5, <3>1, SameListSameEntries
      <3>4. (i \in 1 .. Len(plist) + 1)'  BY <2>1, <2>4, <2>5, <3>1
      <3>5. ~brk'  BY <2>1
      <3> QED BY <3>1, <3>2, <3>3, <3>4, <3>5 DEF EarnInv
    <2>7. CASE Disposed
      <3>1. pc' = "entry" /\ i' = i + 1  BY <2>7 DEF Disposed
      <3>2. PICK o \in Outcomes \ {"none"} :
              /\ outcome' = [outcome EXCEPT ![plist[i]] = o]
              /\ o = "tolerated" => opts.notexit
              /\ o = "dropped" => err
        BY <2>7 DEF Disposed
      <3>3. \A p \in Pkgs : outcome'[p] = IF p = plist[i] THEN o ELSE outcome[p]
        BY <3>2 DEF TypeOK, RunOK
      <3>4. ASSUME NEW k \in 1 .. i PROVE Handled(k)'
        <4>1. k \in Nat  BY <2>5
        <4>2. SUFFICES ASSUME Active(k)'
                       PROVE  /\ outcome'[plist[k]] # "none"
                              /\ outcome'[plist[k]] = "tolerated" => opts.notexit
                              /\ outcome'[plist[k]] = "dropped" => err
          BY <2>1, <2>4 DEF Handled, RunKept
        <4>3. Active(k)  BY <2>4, <4>1, <4>2, SameListSameEntries
        <4>4. plist[k] \in Pkgs  BY <4>3 DEF Active
        <4>5. CASE plist[k] = plist[i]  BY <3>2, <3>3, <4>4, <4>5
        <4>6. CASE plist[k] # plist[i]
          <5>1. k # i  BY <4>6
          <5>2. k \in 1 .. i - 1  BY <2>5, <5>1
          <5>3. Handled(k)  BY <2>2, <5>2
          <5> QED BY <3>3, <4>3, <4>4, <4>6, <5>3 DEF Handled
        <4> QED BY <4>5, <4>6
      <3>5. 1 .. (i + 1) - 1 = 1 .. i  BY <2>5
      <3>6. \A k \in 1 .. i' - 1 : Handled(k)'  BY <3>1, <3>4, <3>5
      <3>7. ~Off(i + 1)
        BY <2>1, <2>3, <2>5, OffNext, PkgsAssumption DEF Directives
      <3>8. i + 1 \in Nat  BY <2>5
      <3>9. ~Off(i)'  BY <2>4, <3>1, <3>7, <3>8, SameListSameEntries
      <3>10. (i \in 1 .. Len(plist) + 1)'  BY <2>1, <2>4, <2>5, <3>1
      <3>11. ~brk'  BY <2>1
      <3> QED BY <3>1, <3>6, <3>9, <3>10, <3>11 DEF EarnInv
    <2>8. CASE GivesUp  BY <2>8 DEF GivesUp, EarnInv, InLoop
    <2> QED BY <1>2, <2>6, <2>7, <2>8 DEF PackageStep
  <1> QED BY <1>1, <1>2

(* The loop's own steps: the list's directives, and entries passed over.   *)
LEMMA LoopEarn == TypeOK /\ EarnInv /\ Loop => EarnInv'
  <1> SUFFICES ASSUME TypeOK, EarnInv, Loop PROVE EarnInv'
    OBVIOUS
  <1>1. pc = "entry" /\ RunKept /\ err' = err
    BY DEF Loop, Jump, Stop, PassOver, EndMark, LoopEnd, SkipByMarker, RunKept
  <1>2. /\ i \in 1 .. Len(plist) + 1
        /\ brk <=> Off(i)
        /\ \A k \in 1 .. i - 1 : Handled(k)
    BY <1>1 DEF EarnInv, InLoop
  <1>3. plist' = plist  BY <1>1 DEF RunKept
  <1>4. i \in Nat \ {0} /\ Len(plist) \in Nat /\ i + 1 \in Nat
    <2>1. Len(plist) \in Nat  BY ListsAssumption DEF TypeOK, RunOK
    <2> QED BY <1>2, <2>1
  <1>5. CASE Jump \/ Stop \/ PassOver
    <2>1. /\ pc' = "entry" /\ i' = i + 1 /\ outcome' = outcome
          /\ i \in 1 .. Len(plist)
      BY <1>5 DEF Jump, Stop, PassOver
    <2>2. ~Active(i)
      BY <1>2, <1>5, PkgsAssumption
      DEF Jump, Stop, PassOver, Active, Directives
    <2>3. ASSUME NEW k \in 1 .. i PROVE Handled(k)'
      <3>1. k \in Nat  BY <1>4
      <3>2. k = i => Handled(k)  BY <2>2 DEF Handled
      <3>3. k # i => k \in 1 .. i - 1  BY <1>4
      <3>4. Handled(k)  BY <1>2, <3>2, <3>3
      <3> QED BY <1>1, <2>1, <3>1, <3>4, HandledStays
    <2>4. 1 .. (i + 1) - 1 = 1 .. i  BY <1>4
    <2>5. \A k \in 1 .. i' - 1 : Handled(k)'  BY <2>1, <2>3, <2>4
    <2>6. brk' <=> Off(i + 1)
      BY <1>2, <1>4, <1>5, OffNext DEF Jump, Stop, PassOver
    <2>7. brk' <=> Off(i)'
      BY <1>3, <1>4, <2>1, <2>6, SameListSameEntries
    <2>8. (i \in 1 .. Len(plist) + 1)'  BY <1>3, <1>4, <2>1
    <2> QED BY <2>1, <2>5, <2>7, <2>8 DEF EarnInv
  <1>6. CASE EndMark
    <2>1. /\ pc' = "end" /\ outcome' = outcome /\ i \in 1 .. Len(plist)
          /\ plist[i] = "#END" /\ ~brk
      BY <1>6 DEF EndMark
    <2>2. ASSUME NEW k \in 1 .. Len(plist) PROVE Handled(k)'
      <3>1. k \in Nat  BY <1>4
      <3>2. CASE k \in 1 .. i - 1
        BY <1>1, <1>2, <2>1, <3>1, <3>2, HandledStays
      <3>3. CASE k = i
        <4>1. ~Active(k)  BY <2>1, <3>3, PkgsAssumption DEF Active, Directives
        <4> QED BY <1>3, <3>1, <4>1, SameListSameEntries DEF Handled
      <3>4. CASE k \notin 1 .. i - 1 /\ k # i
        <4>1. i \in 1 .. k - 1  BY <1>4, <3>4
        <4>2. ~Off(i)  BY <1>2, <2>1
        <4>3. Ended(k)  BY <2>1, <4>1, <4>2 DEF Ended
        <4>4. ~Active(k)  BY <4>3 DEF Active
        <4> QED BY <1>3, <3>1, <4>4, SameListSameEntries DEF Handled
      <3> QED BY <3>2, <3>3, <3>4
    <2> QED BY <1>3, <2>1, <2>2 DEF EarnInv, InLoop
  <1>7. CASE LoopEnd
    <2>1. pc' = "end" /\ outcome' = outcome /\ i = Len(plist) + 1
      BY <1>7 DEF LoopEnd
    <2>2. ASSUME NEW k \in 1 .. Len(plist) PROVE Handled(k)'
      <3>1. k \in Nat /\ k \in 1 .. i - 1  BY <1>4, <2>1
      <3> QED BY <1>1, <1>2, <2>1, <3>1, HandledStays
    <2> QED BY <1>3, <2>1, <2>2 DEF EarnInv, InLoop
  <1>8. CASE SkipByMarker
    <2>1. Dispose(plist[i], "skipped")  BY <1>8 DEF SkipByMarker
    <2>2. "skipped" \in Outcomes \ {"none", "tolerated", "dropped"}
      OBVIOUS
    <2>3. Disposed  BY <2>1, <2>2, DisposedAs
    <2>4. PackageStep
      BY <1>1, <1>8, <2>3 DEF SkipByMarker, PackageStep, InLoop
    <2> QED BY <2>4, PackageStepEarn
  <1> QED BY <1>5, <1>6, <1>7, <1>8 DEF Loop

LEMMA FinishEarn == EarnInv /\ Finish => EarnInv'
  <1> SUFFICES ASSUME EarnInv, Finish PROVE EarnInv'
    OBVIOUS
  <1>1. CASE EndWithError \/ BuildenvEnd
    BY <1>1 DEF EndWithError, BuildenvEnd, EarnInv, InLoop
  <1>2. CASE BuildenvBegin
    <2>1. /\ pc = "end" /\ ~err /\ pc' = "env"
          /\ UNCHANGED <<plist, opts, outcome, err>>
      BY <1>2 DEF BuildenvBegin
    <2> QED BY <2>1 DEF EarnInv, InLoop, Handled, Active, Ended, Off
  <1>3. CASE BuildenvGrows
    BY <1>3 DEF BuildenvGrows, EarnInv, InLoop, Handled, Active, Ended, Off
  <1> QED BY <1>1, <1>2, <1>3 DEF Finish

LEMMA CleanupEarn == Cleanup => pc' \notin Steps \/ pc' = "idle"
  BY DEF Cleanup, UninstallBegin, UninstallFiles, UninstallBuild, UninstallEnd,
         CleanBegin, CleanPrefix, CleanBuild, CleanSources, CleanPackages,
         CleanEnd, Remove, RemoveSome

LEMMA OutsideEarn ==
  TypeOK /\ EarnInv /\ Outside => EarnInv'
  <1> SUFFICES ASSUME TypeOK, EarnInv, Outside
           PROVE  EarnInv'
    OBVIOUS
  <1>1. CASE StartRun
    <2>1. pc' = "entry" /\ i' = 1 /\ ~brk' /\ plist' = list
      BY <1>1 DEF StartRun
    <2>2. Len(plist') \in Nat
      BY <2>1, ListsAssumption DEF TypeOK, FilesOK
    <2>3. ~Off(i)'  BY <2>1 DEF Off
    <2>4. (i \in 1 .. Len(plist) + 1)'  BY <2>1, <2>2
    <2>5. 1 .. i' - 1 = {}  BY <2>1
    <2> QED BY <2>1, <2>3, <2>4, <2>5 DEF EarnInv
  <1>2. CASE Crash  BY <1>2 DEF Crash, EarnInv, InLoop
  <1>3. CASE EditList
    BY <1>3 DEF EditList, EarnInv, InLoop, Handled, Active, Ended, Off
  <1>4. CASE OtherTarget
    BY <1>4 DEF OtherTarget, EarnInv, InLoop, PackageSteps, Steps
  <1>5. CASE FastBuild
    BY <1>5 DEF FastBuild, EarnInv, InLoop, PackageSteps, Steps
  <1> QED BY <1>1, <1>2, <1>3, <1>4, <1>5 DEF Outside

LEMMA EarnInvHolds == Spec => []EarnInv
  <1>1. Init => EarnInv
    BY DEF Init, EarnInv, InLoop
  <1>2. TypeOK /\ EarnInv /\ [Next]_vars => EarnInv'
    <2> SUFFICES ASSUME TypeOK, EarnInv, [Next]_vars PROVE EarnInv'
      OBVIOUS
    <2>1. CASE Builder
      BY <2>1, LoopEarn, ReposStep, DownloadStep, ArchiveStep, AutobuildStep,
         PackingStep, PackageStepEarn, FinishEarn DEF Builder
    <2>2. CASE Cleanup  BY <2>2, CleanupEarn DEF EarnInv, InLoop
    <2>3. CASE Outside  BY <2>3, OutsideEarn
    <2>4. CASE UNCHANGED vars
      BY <2>4 DEF vars, EarnInv, InLoop, Handled, Active, Ended, Off
    <2> QED BY <2>1, <2>2, <2>3, <2>4 DEF Next
  <1> QED BY <1>1, <1>2, TypeCorrect, PTL DEF Spec

(* A run that writes buildenv has dealt with every entry of the list that  *)
(* is not switched off: none was lost to a region that should have ended,  *)
(* none dropped for another entry's ydfs-error, and none failed unless the *)
(* user asked for that with NOTEXIT.                                       *)
THEOREM BuildenvEarned == Spec => []BuildenvIsEarned
  <1>1. EarnInv => BuildenvIsEarned
    BY DEF EarnInv, Handled, BuildenvIsEarned
  <1> QED BY <1>1, EarnInvHolds, PTL
=============================================================================
