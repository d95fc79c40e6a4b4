-------------------------- MODULE BuildFromSource --------------------------
(***************************************************************************)
(* The package builds of the testing tree: build_archive calls             *)
(* build_from_source in an unpacked source directory, which runs a script  *)
(* for each of six steps and leaves a .done file after each, so that a     *)
(* build that failed or was stopped goes on where it was.                  *)
(* uninstall_package takes the installed files, the staged package and the *)
(* .done files away again.                                                 *)
(*                                                                         *)
(* The steps are numbered: prepare, configure, post-configure, build,      *)
(* install, distinstall.                                                   *)
(***************************************************************************)
EXTENDS Naturals

CONSTANTS
  Source,       \* the source directories below $HOME/ydfs/src
  Name,         \* DBPACKAGE of a source directory
  MesonSource,  \* the directories with a meson.build
  Git,          \* the directories that are git clones
  Versioned,    \* the directories whose name goes on with a dash behind the
                \* package's (gtk-3.24); xvidcore, tcl8.6.1 or eo have none
  Nobody        \* no source directory and no package

ASSUME Packages ==
  /\ Nobody \notin Source /\ Nobody \notin {Name[d] : d \in Source}
  /\ Name = [d \in Source |-> Name[d]]
  /\ MesonSource \subseteq Source /\ Git \subseteq Source
  /\ Versioned \subseteq Source

Step == 1..6
Configure == 2
Install == 5
Last == 6

\* The rank of each step's .done file in the order of the shell's glob.
Alphabetical == <<6, 2, 5, 1, 4, 3>>

Names == {Name[d] : d \in Source}

\* The directories whose files packages/<n> may list, and those that the
\* pattern <n>-* of uninstall_package matches.
Of(n)   == {d \in Source : Name[d] = n}
Glob(n) == Of(n) \cap Versioned

VARIABLES
  done,      \* the steps with a .done file, by directory
  work,      \* the steps whose work is in the sources, in / or in packages/
  listed,    \* the directories whose files are staged in $HOME/ydfs/packages
  run,       \* what the shell is doing
  tornNames, \* history: the packages whose uninstallation was killed, until
             \* a later one comes to its end
  outlived   \* history: the directories whose .done files a finished
             \* uninstallation of their package has left

history   == <<tornNames, outlived>>
stepsVars == <<done, work, listed, run, history>>

Idle == [at |-> "idle", src |-> Nobody, step |-> 1]
Doing(at, d, s) == [at |-> at, src |-> d, step |-> s]

StepsInit ==
  /\ done = [d \in Source |-> {}]
  /\ work = [d \in Source |-> {}]
  /\ listed = {}
  /\ run = Idle
  /\ tornNames = {} /\ outlived = {}

-----------------------------------------------------------------------------
(* build_archive and build_from_source.                                    *)

StartBuild(d) ==
  /\ run = Idle /\ run' = Doing(IF d \in Git THEN "step" ELSE "archive", d, 1)
  /\ UNCHANGED <<done, work, listed, history>>

\* "Buildt": a directory with distinstall.done is not built again.
TestBuilt ==
  /\ run.at = "archive"
  /\ run' = IF Last \in done[run.src] THEN Idle ELSE [run EXCEPT !.at = "step"]
  /\ UNCHANGED <<done, work, listed, history>>

SkipStep ==
  /\ run.at = "step" /\ run.step \in done[run.src]
  /\ run' = IF run.step = Last THEN Idle ELSE [run EXCEPT !.step = @ + 1]
  /\ UNCHANGED <<done, work, listed, history>>

\* Mutant: the .done file is created before the script is run.
RunScriptTouched ==
  /\ run.at = "step" /\ run.step \notin done[run.src]
  /\ done' = [done EXCEPT ![run.src] = @ \cup {run.step}]
  /\ run' = [run EXCEPT !.at = "script"]
  /\ UNCHANGED <<work, listed, history>>

RunScript ==
  /\ run.at = "step" /\ run.step \notin done[run.src]
  /\ run' = [run EXCEPT !.at = "script"]
  /\ UNCHANGED <<done, work, listed, history>>

\* distinstall stages what install put into the system.
ScriptSucceeds ==
  /\ run.at = "script"
  /\ work' = [work EXCEPT ![run.src] = @ \cup {run.step}]
  /\ listed' = IF run.step = Last THEN listed \cup {run.src} ELSE listed
  /\ run' = [run EXCEPT !.at = "touch"]
  /\ UNCHANGED <<done, history>>

\* Mutant: install does not look at the status of make either.
TolerantOfInstall(d, s) == s \in {Install, Last} \/ (s = Configure /\ d \in MesonSource)

\* Two scripts exit 0 whatever their commands answer: configure does not look
\* at meson's status, distinstall ends with an echo.
Tolerated(d, s) == s = Last \/ (s = Configure /\ d \in MesonSource)

ScriptFails ==
  /\ run.at = "script"
  /\ run' = IF Tolerated(run.src, run.step) THEN [run EXCEPT !.at = "touch"] ELSE Idle
  /\ UNCHANGED <<done, work, listed, history>>

\* Mutant: the loop goes on after the last step.
TouchDoneOn ==
  /\ run.at = "touch"
  /\ done' = [done EXCEPT ![run.src] = @ \cup {run.step}]
  /\ run' = [run EXCEPT !.at = "step", !.step = @ + 1]
  /\ UNCHANGED <<work, listed, history>>

TouchDone ==
  /\ run.at = "touch"
  /\ done' = [done EXCEPT ![run.src] = @ \cup {run.step}]
  /\ run' = IF run.step = Last THEN Idle ELSE [run EXCEPT !.at = "step", !.step = @ + 1]
  /\ UNCHANGED <<work, listed, history>>

-----------------------------------------------------------------------------
(* uninstall_package: the files that packages/<name> lists, then the       *)
(* staged package, then the .done files of every directory <name>-*.       *)

StartUninstall(n) ==
  /\ run = Idle /\ Of(n) \cap listed # {}
  /\ run' = Doing("files", n, 1)
  /\ UNCHANGED <<done, work, listed, history>>

RemoveFiles ==
  /\ run.at = "files"
  /\ work' = [d \in Source |-> IF d \in Of(run.src) \cap listed
                               THEN work[d] \ {Install} ELSE work[d]]
  /\ run' = [run EXCEPT !.at = "package"]
  /\ UNCHANGED <<done, listed, history>>

RemovePackage ==
  /\ run.at = "package"
  /\ listed' = listed \ Of(run.src)
  /\ work' = [d \in Source |-> IF d \in Of(run.src) THEN work[d] \ {Last} ELSE work[d]]
  /\ run' = [run EXCEPT !.at = "markers"]
  /\ UNCHANGED <<done, history>>

RemoveDone(d) ==
  /\ run.at = "markers" /\ d \in Glob(run.src)
  /\ \E s \in done[d] :
       /\ \A t \in done[d] : Alphabetical[s] <= Alphabetical[t]
       /\ done' = [done EXCEPT ![d] = @ \ {s}]
  /\ UNCHANGED <<work, listed, run, history>>

\* Mutant: the .done files of one directory are removed.
UninstallEndsEarly ==
  /\ run.at = "markers" /\ \E d \in Glob(run.src) : done[d] = {}
  /\ run' = Idle
  /\ tornNames' = tornNames \ {run.src}
  /\ outlived' = outlived \cup {d \in Of(run.src) \ Glob(run.src) : done[d] # {}}
  /\ UNCHANGED <<done, work, listed>>

UninstallEnds ==
  /\ run.at = "markers" /\ \A d \in Glob(run.src) : done[d] = {}
  /\ run' = Idle
  /\ tornNames' = tornNames \ {run.src}
  /\ outlived' = outlived \cup {d \in Of(run.src) \ Glob(run.src) : done[d] # {}}
  /\ UNCHANGED <<done, work, listed>>

\* The shell is killed, whatever it is doing.
Uninstalling == {"files", "package", "markers"}

Killed ==
  /\ run.at # "idle"
  /\ run' = Idle
  /\ tornNames' = IF run.at \in Uninstalling THEN tornNames \cup {run.src} ELSE tornNames
  /\ UNCHANGED <<done, work, listed, outlived>>

StepsNext ==
  \/ \E d \in Source : StartBuild(d) \/ RemoveDone(d)
  \/ \E n \in Names : StartUninstall(n)
  \/ TestBuilt \/ SkipStep \/ RunScript \/ ScriptSucceeds \/ ScriptFails
  \/ TouchDone \/ RemoveFiles \/ RemovePackage \/ UninstallEnds \/ Killed

StepsSpec == StepsInit /\ [][StepsNext]_stepsVars

-----------------------------------------------------------------------------
(* Properties.                                                             *)

Phases == {"idle", "archive", "step", "script", "touch", "files", "package", "markers"}

\* The .done files, the work they stand for, the staged packages and the
\* state of the shell keep to their values.
StepsTypeOK ==
  /\ done \in [Source -> SUBSET Step]
  /\ work \in [Source -> SUBSET Step]
  /\ listed \in SUBSET Source
  /\ run \in [at : Phases, src : Source \cup Names \cup {Nobody}, step : Step]
  /\ run.at \in {"archive", "step", "script", "touch"} => run.src \in Source
  /\ run.at \in Uninstalling => run.src \in Names
  /\ tornNames \subseteq Names /\ outlived \subseteq Source

\* The .done files of a directory are as the last command on it left them: no
\* uninstallation of its package was killed half-way, nor did one pass over
\* the directory because its name has no dash (uninstall_package 9-24).
Sound(d) == Name[d] \notin tornNames /\ d \notin outlived

\* build_archive says "Buildt" only of a directory that is installed.
BuildtIsInstalled ==
  run.at = "archive" /\ Sound(run.src) /\ Last \in done[run.src]
    => Install \in work[run.src]

\* A step's script runs only where the work of every earlier step has been
\* done, or its script does not tell; across failures, kills and the
\* uninstallations of all packages.
EarlierStepsAreDone ==
  run.at = "script" /\ Sound(run.src) =>
    \A s \in 1..(run.step - 1) : s \in work[run.src] \/ Tolerated(run.src, s)

\* How many steps are done before the first that is not.
Leading(S) == CHOOSE k \in 0..Last : 1..k \subseteq S /\ k + 1 \notin S

\* The progress of a directory; none from the moment the .done files of its
\* package begin to go, or its uninstallation is killed or passes it over.
Removing(d) == run.at = "markers" /\ Name[d] = run.src
Undefined(d) == Removing(d) \/ ~Sound(d)
Progress == [d \in Source |-> IF Undefined(d) THEN 0 ELSE Leading(done[d])]

Abstract == INSTANCE StepwiseBuild WITH progress <- Progress

\* The .done files implement the step by step build.
BuildsStepwise == Abstract!Spec
=============================================================================
