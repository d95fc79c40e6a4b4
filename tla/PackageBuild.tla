---------------------------- MODULE PackageBuild ----------------------------
(***************************************************************************)
(* The package builder of the 2.10 release: one run of                     *)
(* packages/build-packages walks a package list, downloads each archive    *)
(* (the `.start' protocol), unpacks it (packages/db-lcarchive), builds and *)
(* installs it (scripts/includes/build, packages/db-autobuild), and at the *)
(* end writes the file `buildenv' that the Makefile takes for a finished   *)
(* build.  A run may be killed between any two steps and started again;    *)
(* what survives is the disk.  scripts/make_clean and                      *)
(* scripts/uninstall-package change the same disk, one `rm' at a time.     *)
(*                                                                         *)
(* Only existence and completeness of files are kept: a tree is "none",    *)
(* "partial" or "full".  A tree built from partial sources is "partial"    *)
(* even when every command that made it succeeded.                         *)
(***************************************************************************)
EXTENDS Naturals, Sequences, FiniteSets

CONSTANTS
  Pkgs,      \* the packages a list may name
  Lists,     \* the contents packages/list-X may have: sequences of entries
  Kind,      \* how an entry is built: "tar", "bin" (bin::), "git", "pip" (a
             \* module) or "req" (pip:: with a requirements.txt)
  Strict,    \* archives whose tar failure ends db-lcarchive (TARGZ)
  InTree,    \* packages built in their source directory (SKIP_DIR = "")
  Tolerant,  \* packages whose failed `make install' counts as a success
  Meson,     \* packages built by meson and ninja, which install before staging
  Matches,   \* Matches[p]: packages whose opkg file name starts with p's SHORTNAME
  Opkg,      \* the list is the opkg target's: a run also makes opkg files
  Options,   \* the environments [notexit, force] a user starts a run with
  Fast,      \* the user may set BUILDYDFS=fast
  Others     \* what runs of other targets leave: [brk, err, env], where env
             \* "none" is a buildenv they did not get to

Directives == {"#JUMP", "#STOP", "#SKIP", "#END"}
Entries    == Pkgs \cup Directives
Trees      == {"none", "partial", "full"}
Tarballs   == {"none", "empty", "partial", "html", "good"}
Outcomes   == {"none", "built", "skipped", "okdir", "okopkg", "okmark",
               "tolerated", "dropped"}

(* The steps of a run, and the one where no script runs.                   *)
Steps == {"idle", "entry", "clone", "fetch1", "check1", "fetch2", "check2",
          "archive", "tar", "bin", "auto", "stage", "install", "mark",
          "package", "packing", "opkg", "end", "env"}

ASSUME PkgsAssumption == Pkgs \cap Directives = {}
ASSUME ListsAssumption == Lists # {} /\ Lists \subseteq Seq(Entries)
ASSUME KindAssumption == Kind \in [Pkgs -> {"tar", "bin", "git", "pip", "req"}]
ASSUME FlagsAssumption ==
  /\ Strict \subseteq Pkgs /\ InTree \subseteq Pkgs
  /\ Tolerant \subseteq Pkgs /\ Meson \subseteq Pkgs \ Tolerant
  /\ Matches \in [Pkgs -> SUBSET Pkgs]
  /\ Opkg \in BOOLEAN /\ Fast \in BOOLEAN
  /\ Options \subseteq [notexit : BOOLEAN, force : BOOLEAN]
ASSUME OthersAssumption ==
  /\ Others \subseteq [brk : BOOLEAN, err : BOOLEAN, env : Trees]
  /\ \A o \in Others : o.err => o.env = "none"

VARIABLES
  tarball,   \* $HOME/ydfs/tarballs/<archive>
  startmark, \* the <archive>.start files next to them
  src,       \* $HOME/ydfs/src/<dir>
  buildok,   \* buildok-$ARCH files, in the source or the build directory
  pkgdir,    \* $HOME/ydfs/packages-$ARCH/<dir>
  prefix,    \* what the package has installed under $HOME/$MODULE
  opkg,      \* $HOME/ydfs/opkg/<name>*
  err,       \* $HOME/ydfs-error
  brk,       \* /tmp/break
  buildenv,  \* $HOME/$ARCH/buildenv
  list,      \* packages/list-X
  stale,     \* list-X is newer than buildenv
  pc,        \* where the running script is, "idle" when none runs
  i,         \* index of the loop over the list
  plist,     \* the list as readarray read it
  opts,      \* NOTEXIT and FORCEBUILD of this run
  target,    \* the package uninstall-package was called for
  fetched,   \* history: archives wget was started for in this run
  outcome,   \* history: how this run disposed of each package
  torn,      \* history: packages a clean or uninstall has not finished with
  missed     \* history: the list was edited while the last run was going on,
             \* or another target or a fast build has touched buildenv since

netVars  == <<tarball, startmark>>
treeVars == <<src, buildok, pkgdir, prefix, opkg>>
makeVars == <<buildenv, list, stale, missed>>
runVars  == <<i, plist, opts, target, fetched, outcome>>
vars == <<netVars, treeVars, makeVars, err, brk, pc, runVars, torn>>

-----------------------------------------------------------------------------
NoOutcome == [p \in Pkgs |-> "none"]
NoOptions == [notexit |-> FALSE, force |-> FALSE]
AllNone   == [p \in Pkgs |-> "none"]

(* A tree that is being written, and one whose writing came to an end.     *)
Begun(t)   == IF t = "none" THEN "partial" ELSE t
Whole(t, source) == IF source = "full" THEN "full" ELSE Begun(t)

cur == plist[i]

(* The run goes to step l of the entry it is at.                           *)
Goto(l) == pc' = l /\ UNCHANGED runVars

(* `continue': the loop takes the next entry.                              *)
Continue == /\ pc' = "entry"
            /\ i' = i + 1
            /\ UNCHANGED <<plist, opts, target, fetched, outcome>>

(* Mutant: the `continue' is forgotten.                                    *)
DisposeWithoutContinue(p, o) ==
  /\ i' = i + 1
  /\ outcome' = [outcome EXCEPT ![p] = o]
  /\ UNCHANGED <<pc, plist, opts, target, fetched>>

(* The entry of package p is disposed of as o, and the loop goes on.       *)
Dispose(p, o) == /\ pc' = "entry"
                 /\ i' = i + 1
                 /\ outcome' = [outcome EXCEPT ![p] = o]
                 /\ UNCHANGED <<plist, opts, target, fetched>>

(* The script ends, by itself or killed: only the disk remains.            *)
Exit == /\ pc' = "idle"
        /\ i' = 0
        /\ opts' = NoOptions
        /\ fetched' = {}
        /\ outcome' = NoOutcome
        /\ UNCHANGED <<plist, target>>

Init ==
  /\ tarball = AllNone /\ startmark = {}
  /\ src = AllNone /\ buildok = {} /\ pkgdir = AllNone
  /\ prefix = AllNone /\ opkg = AllNone
  /\ err = FALSE /\ brk = FALSE
  /\ buildenv = "none" /\ list \in Lists /\ stale = FALSE /\ missed = FALSE
  /\ pc = "idle" /\ i = 0 /\ plist = list /\ opts = NoOptions
  /\ target \in Pkgs /\ fetched = {} /\ outcome = NoOutcome /\ torn = {}

-----------------------------------------------------------------------------
(* What make tests: buildenv is missing or older than the list; the opkg   *)
(* target has another file, whose state is left open.                      *)
MakeRuns == Opkg \/ buildenv = "none" \/ stale

(* Mutant: /tmp/break of a killed run is not removed.                      *)
StartRunKeepingBreak ==
  /\ pc = "idle" /\ MakeRuns
  /\ \E o \in Options : opts' = o
  /\ err' = FALSE
  /\ plist' = list /\ i' = 1 /\ missed' = FALSE
  /\ pc' = "entry"
  /\ UNCHANGED <<netVars, treeVars, buildenv, list, stale, brk, target, fetched, outcome, torn>>

(* The Makefile runs make_packages, unless that is found up to date;       *)
(* build-packages then forgets /tmp/break and ydfs-error of earlier runs   *)
(* and reads the list.                                                     *)
StartRun ==
  /\ pc = "idle" /\ MakeRuns
  /\ \E o \in Options : opts' = o
  /\ brk' = FALSE /\ err' = FALSE
  /\ plist' = list /\ i' = 1 /\ missed' = FALSE
  /\ pc' = "entry"
  /\ UNCHANGED <<netVars, treeVars, buildenv, list, stale, target, fetched, outcome, torn>>

(* Another target of the Makefile (kde, mate, updates ...) runs            *)
(* make_packages with a list of its own and looks at no buildenv.  Its     *)
(* packages are others; of its run, whole or killed, are seen /tmp/break,  *)
(* ydfs-error and, without an error, this very buildenv, written anew.     *)
OtherTarget ==
  /\ pc = "idle"
  /\ \E o \in Others :
       /\ brk' = o.brk /\ err' = o.err
       /\ buildenv' = IF o.env = "none" THEN buildenv ELSE o.env
       /\ stale' = (stale /\ o.env = "none")
       /\ missed' = (missed \/ o.env # "none")
  /\ UNCHANGED <<netVars, treeVars, list, pc, runVars, torn>>

(* With BUILDYDFS=fast make_packages fetches the prefix instead, finished  *)
(* and with its buildenv, where there is none, and touches buildenv; tar   *)
(* keeps the times of the files, and may be killed.                        *)
FastBuild ==
  /\ pc = "idle" /\ Fast /\ ~Opkg /\ MakeRuns
  /\ \/ /\ UNCHANGED prefix
        /\ buildenv' = Begun(buildenv) /\ stale' = FALSE
     \/ /\ prefix = AllNone /\ buildenv = "none"
        /\ \/ /\ prefix' = [p \in Pkgs |-> "full"]
              /\ buildenv' = "full" /\ stale' = FALSE
           \/ /\ prefix' = [p \in Pkgs |-> "partial"]
              /\ buildenv' \in Trees
              /\ stale' \in {FALSE, buildenv' # "none"}
  /\ missed' = TRUE
  /\ UNCHANGED <<netVars, src, buildok, pkgdir, opkg, list, err, brk, pc, runVars, torn>>

AtEntry == pc = "entry" /\ i \in 1 .. Len(plist)

(* #JUMP and #STOP switch a region of the list off and on.                 *)
Jump == /\ AtEntry /\ cur = "#JUMP"
        /\ brk' = TRUE
        /\ Continue
        /\ UNCHANGED <<netVars, treeVars, makeVars, err, torn>>

Stop == /\ AtEntry /\ cur = "#STOP"
        /\ brk' = FALSE
        /\ Continue
        /\ UNCHANGED <<netVars, treeVars, makeVars, err, torn>>

(* Entries switched off by #JUMP or tagged #SKIP.                          *)
PassOver == /\ AtEntry /\ cur \notin {"#JUMP", "#STOP"}
            /\ brk \/ cur = "#SKIP"
            /\ Continue
            /\ UNCHANGED <<netVars, treeVars, makeVars, err, brk, torn>>

EndMark == /\ AtEntry /\ cur = "#END" /\ ~brk
           /\ Goto("end")
           /\ UNCHANGED <<netVars, treeVars, makeVars, err, brk, torn>>

LoopEnd == /\ pc = "entry" /\ i = Len(plist) + 1
           /\ Goto("end")
           /\ UNCHANGED <<netVars, treeVars, makeVars, err, brk, torn>>

AtPackage(k) == AtEntry /\ ~brk /\ cur \in Pkgs /\ Kind[cur] = k

(* The two tests of the list loop.  They look for buildok in the build     *)
(* directory and for the package directory under the archive's own name,   *)
(* which a git or a binary entry never has.                                *)
ListMarker(p) ==
  /\ ~opts.force
  /\ Kind[p] = "tar"
  /\ (p \notin InTree /\ p \in buildok) \/ pkgdir[p] # "none"

SkipByMarker ==
  /\ AtPackage("tar") /\ ListMarker(cur)
  /\ Dispose(cur, "skipped")
  /\ UNCHANGED <<netVars, treeVars, makeVars, err, brk, torn>>

(* A git entry is skipped on the buildok file of its source directory,     *)
(* whatever FORCEBUILD says; it is cloned only where no directory is.      *)
GitSkip ==
  /\ AtPackage("git") /\ cur \in InTree /\ cur \in buildok
  /\ Dispose(cur, "skipped")
  /\ UNCHANGED <<netVars, treeVars, makeVars, err, brk, torn>>

GitEnter ==
  /\ AtPackage("git") /\ ~(cur \in InTree /\ cur \in buildok)
  /\ IF src[cur] = "none"
       THEN Goto("clone") /\ src' \in {src, [src EXCEPT ![cur] = "partial"]}
       ELSE Goto("auto") /\ UNCHANGED src
  /\ UNCHANGED <<netVars, buildok, pkgdir, prefix, opkg, makeVars, err, brk, torn>>

(* git clone ends; a clone that fails removes what it had written.         *)
GitCloned ==
  /\ pc = "clone"
  /\ \E t \in {"none", "full"} : src' = [src EXCEPT ![cur] = t]
  /\ Goto("auto")
  /\ UNCHANGED <<netVars, buildok, pkgdir, prefix, opkg, makeVars, err, brk, torn>>

(* pip3 install: an error, of this entry or an earlier one, ends the loop. *)
PipInstall ==
  /\ AtPackage("pip")
  /\ \E ok \in BOOLEAN :
       /\ prefix' = [prefix EXCEPT ![cur] = IF ok THEN "full" ELSE Begun(@)]
       /\ err' = (err \/ ~ok)
       /\ IF err' THEN Goto("end") ELSE Dispose(cur, "built")
  /\ UNCHANGED <<netVars, src, buildok, pkgdir, opkg, makeVars, brk, torn>>

(* pip3 install -r requirements.txt: a failure ends the script at once,    *)
(* and nobody looks for an error of an earlier entry.                      *)
PipRequirements ==
  /\ AtPackage("req")
  /\ \/ /\ prefix' = [prefix EXCEPT ![cur] = "full"]
        /\ Dispose(cur, "built")
     \/ /\ prefix' \in {prefix, [prefix EXCEPT ![cur] = Begun(@)]}
        /\ Exit
  /\ UNCHANGED <<netVars, src, buildok, pkgdir, opkg, makeVars, err, brk, torn>>

-----------------------------------------------------------------------------
(* The download of an archive: two sources, tried in turn.                 *)

AtArchive == /\ AtEntry /\ ~brk /\ cur \in Pkgs
             /\ Kind[cur] \in {"tar", "bin"} /\ ~ListMarker(cur)

(* With ydfs-error left by an earlier entry no archive is tried any more.  *)
DropAfterError ==
  /\ AtArchive /\ err
  /\ IF opts.notexit THEN Dispose(cur, "dropped") ELSE Goto("end")
  /\ UNCHANGED <<netVars, treeVars, makeVars, err, brk, torn>>

(* Mutant: the .start file is not looked at.                               *)
KeptWithoutStart(p) == tarball[p] \notin {"none", "empty"}

(* An empty archive, or one whose .start file says that its download never *)
(* ended, is removed; wget starts when there is none, creating the file.   *)
Kept(p)  == tarball[p] \notin {"none", "empty"} /\ p \notin startmark

Wget(p, l) == /\ startmark' = startmark \cup {p}
              /\ tarball' = [tarball EXCEPT ![p] = "empty"]
              /\ fetched' = fetched \cup {p}
              /\ pc' = l
              /\ UNCHANGED <<i, plist, opts, target, outcome>>

FetchFirst ==
  /\ AtArchive /\ ~err
  /\ IF Kept(cur) THEN Goto("check1") /\ UNCHANGED netVars ELSE Wget(cur, "fetch1")
  /\ UNCHANGED <<treeVars, makeVars, err, brk, torn>>

Fetching == pc \in {"fetch1", "fetch2"}

(* wget receives a part of the archive, or its end: the archive, or the    *)
(* page a server sends in its place.                                       *)
Receive ==
  /\ Fetching /\ tarball[cur] \in {"empty", "partial"}
  /\ \E t \in {"partial", "html", "good"} \ {tarball[cur]} :
       tarball' = [tarball EXCEPT ![cur] = t]
  /\ UNCHANGED <<startmark, treeVars, makeVars, err, brk, pc, runVars, torn>>

(* Mutant: after every attempt the second source is tried again.           *)
FetchCheckAgain == "check1"

FetchCheck == IF pc = "fetch1" THEN "check1" ELSE "check2"

(* wget exits with 0 and the .start file is removed ...                    *)
FetchDone ==
  /\ Fetching /\ tarball[cur] \in {"empty", "html", "good"}
  /\ startmark' = startmark \ {cur}
  /\ Goto(FetchCheck)
  /\ UNCHANGED <<tarball, treeVars, makeVars, err, brk, torn>>

(* Mutant: .start goes whatever wget says.                                 *)
FetchFailedUnmarks ==
  /\ Fetching /\ tarball[cur] \in {"empty", "partial"}
  /\ startmark' = startmark \ {cur}
  /\ Goto(FetchCheck)
  /\ UNCHANGED <<tarball, treeVars, makeVars, err, brk, torn>>

(* ... or it gives up and the .start file stays.                           *)
FetchFailed ==
  /\ Fetching /\ tarball[cur] \in {"empty", "partial"}
  /\ Goto(FetchCheck)
  /\ UNCHANGED <<netVars, treeVars, makeVars, err, brk, torn>>

(* After the first source: an empty file or a page is removed and the      *)
(* second source is tried.                                                 *)
Check1 ==
  /\ pc = "check1"
  /\ IF tarball[cur] \in {"none", "empty", "html"}
       THEN Wget(cur, "fetch2")
       ELSE Goto("archive") /\ UNCHANGED netVars
  /\ UNCHANGED <<treeVars, makeVars, err, brk, torn>>

(* After the second only an empty file is an error.                        *)
Check2 ==
  /\ pc = "check2"
  /\ IF tarball[cur] = "empty"
       THEN /\ tarball' = [tarball EXCEPT ![cur] = "none"]
            /\ err' = TRUE
            /\ Exit
       ELSE Goto("archive") /\ UNCHANGED <<tarball, err>>
  /\ UNCHANGED <<startmark, treeVars, makeVars, brk, torn>>

-----------------------------------------------------------------------------
(* db-lcarchive: unpack when there is no directory yet, then build.        *)

UnpackBegin ==
  /\ pc = "archive" /\ Kind[cur] = "tar"
  /\ IF src[cur] = "none"
       THEN /\ src' = IF tarball[cur] = "html" THEN src
                                               ELSE [src EXCEPT ![cur] = "partial"]
            /\ Goto("tar")
       ELSE Goto("auto") /\ UNCHANGED src
  /\ UNCHANGED <<netVars, buildok, pkgdir, prefix, opkg, makeVars, err, brk, torn>>

(* db-lcarchive or db-autobuild failed for p: without NOTEXIT the run ends *)
(* (a git entry leaves no ydfs-error), with it the loop goes on.           *)
Fail(p, e) == IF opts.notexit THEN Dispose(p, "tolerated") /\ err' = (err \/ e)
                              ELSE Exit /\ err' = (err \/ Kind[p] = "tar")

(* tar ends.  Only a Strict archive type looks at its exit status.         *)
UnpackEnd ==
  /\ pc = "tar"
  /\ IF tarball[cur] = "good"
       THEN src' = [src EXCEPT ![cur] = "full"] /\ Goto("auto") /\ UNCHANGED err
       ELSE /\ UNCHANGED src
            /\ IF cur \in Strict THEN Fail(cur, TRUE)
                                 ELSE Goto("auto") /\ UNCHANGED err
  /\ UNCHANGED <<netVars, buildok, pkgdir, prefix, opkg, makeVars, brk, torn>>

(* A bin:: archive is unpacked into the prefix; nobody looks at the status. *)
InstallBinary ==
  /\ pc = "archive" /\ Kind[cur] = "bin"
  /\ prefix' = [prefix EXCEPT ![cur] = Begun(@)]
  /\ Goto("bin")
  /\ UNCHANGED <<netVars, src, buildok, pkgdir, opkg, makeVars, err, brk, torn>>

BinaryInstalled ==
  /\ pc = "bin"
  /\ prefix' = [prefix EXCEPT ![cur] = IF tarball[cur] = "good" THEN "full" ELSE @]
  /\ Dispose(cur, "built")
  /\ UNCHANGED <<netVars, src, buildok, pkgdir, opkg, makeVars, err, brk, torn>>

-----------------------------------------------------------------------------
(* db-autobuild.                                                           *)

OpkgFound(p) == \E q \in Matches[p] : opkg[q] # "none"

(* "built OK": what makes db-autobuild believe that p needs no build.      *)
AlreadyBuilt(p) == /\ ~opts.force
                   /\ \/ pkgdir[p] # "none"
                      \/ OpkgFound(p)
                      \/ p \in InTree /\ p \in buildok

Reason(p) == CASE pkgdir[p] # "none" -> "okdir"
               [] pkgdir[p] = "none" /\ OpkgFound(p) -> "okopkg"
               [] OTHER -> "okmark"

AutoSkip ==
  /\ pc = "auto" /\ src[cur] # "none" /\ AlreadyBuilt(cur)
  /\ Dispose(cur, Reason(cur))
  /\ UNCHANGED <<netVars, treeVars, makeVars, err, brk, torn>>

(* Mutant: buildok is touched as soon as make is through.                  *)
MakeMarks ==
  /\ pc = "auto" /\ src[cur] # "none" /\ ~AlreadyBuilt(cur)
  /\ buildok' = buildok \cup {cur}
  /\ Goto(IF cur \in Meson THEN "install" ELSE "stage")
  /\ UNCHANGED <<netVars, src, pkgdir, prefix, opkg, makeVars, err, brk, torn>>

(* Configure and make; they fail where no source directory is.  make first *)
(* stages the package directory and then installs, ninja the reverse.      *)
Make ==
  /\ pc = "auto" /\ src[cur] # "none" /\ ~AlreadyBuilt(cur)
  /\ Goto(IF cur \in Meson THEN "install" ELSE "stage")
  /\ UNCHANGED <<netVars, treeVars, makeVars, err, brk, torn>>

(* Neither a Makefile nor a meson.build: nothing is built and no buildok   *)
(* touched, and the script goes on all the same.                           *)
NoMakefile ==
  /\ pc = "auto" /\ src[cur] # "none" /\ ~AlreadyBuilt(cur)
  /\ Goto("package")
  /\ UNCHANGED <<netVars, treeVars, makeVars, err, brk, torn>>

MakeFails ==
  /\ pc = "auto" /\ (src[cur] = "none" \/ ~AlreadyBuilt(cur))
  /\ Fail(cur, FALSE)
  /\ UNCHANGED <<netVars, treeVars, makeVars, brk, torn>>

(* DESTDIR=$HOME/ydfs/packages-$ARCH/<dir> make install, status ignored.   *)
StageWrites ==
  /\ pc = "stage" /\ pkgdir[cur] = "none"
  /\ pkgdir' = [pkgdir EXCEPT ![cur] = "partial"]
  /\ UNCHANGED <<netVars, src, buildok, prefix, opkg, makeVars, err, brk, pc,
                 runVars, torn>>

StageEnds ==
  /\ pc = "stage"
  /\ \/ UNCHANGED pkgdir
     \/ /\ pkgdir[cur] # "none"
        /\ pkgdir' = [pkgdir EXCEPT ![cur] = Whole(@, src[cur])]
  /\ Goto(IF cur \in Meson THEN "mark" ELSE "install")
  /\ UNCHANGED <<netVars, src, buildok, prefix, opkg, makeVars, err, brk, torn>>

(* make install into the prefix itself.                                    *)
InstallWrites ==
  /\ pc = "install" /\ prefix[cur] = "none"
  /\ prefix' = [prefix EXCEPT ![cur] = "partial"]
  /\ UNCHANGED <<netVars, src, buildok, pkgdir, opkg, makeVars, err, brk, pc,
                 runVars, torn>>

Installed ==
  /\ pc = "install" /\ prefix[cur] # "none"
  /\ prefix' = [prefix EXCEPT ![cur] = Whole(@, src[cur])]
  /\ Goto(IF cur \in Meson THEN "stage" ELSE "mark")
  /\ UNCHANGED <<netVars, src, buildok, pkgdir, opkg, makeVars, err, brk, torn>>

(* Mutant: a failed install counts as success for any package.             *)
InstallFailsTolerated ==
  /\ pc = "install"
  /\ Goto("mark")
  /\ UNCHANGED <<netVars, treeVars, makeVars, err, brk, torn>>

InstallFails ==
  /\ pc = "install"
  /\ IF cur \in Tolerant THEN Goto("mark") /\ UNCHANGED err ELSE Fail(cur, FALSE)
  /\ UNCHANGED <<netVars, treeVars, makeVars, brk, torn>>

(* touch buildok-$ARCH                                                     *)
MarkBuilt ==
  /\ pc = "mark"
  /\ buildok' = buildok \cup {cur}
  /\ Goto("package")
  /\ UNCHANGED <<netVars, src, pkgdir, prefix, opkg, makeVars, err, brk, torn>>

(* The last steps: a package directory is filled from the prefix when make *)
(* install left none, then opkg files are made of it.                      *)
PackageBegin ==
  /\ pc = "package"
  /\ IF pkgdir[cur] = "none"
       THEN pkgdir' = [pkgdir EXCEPT ![cur] = "partial"] /\ Goto("packing")
       ELSE Goto("opkg") /\ UNCHANGED pkgdir
  /\ UNCHANGED <<netVars, src, buildok, prefix, opkg, makeVars, err, brk, torn>>

(* No file of the prefix is new: exit 25, before any directory is made.    *)
PackageEmpty ==
  /\ pc = "package" /\ pkgdir[cur] = "none"
  /\ Fail(cur, FALSE)
  /\ UNCHANGED <<netVars, treeVars, makeVars, brk, torn>>

Packed ==
  /\ pc = "packing"
  /\ pkgdir' = [pkgdir EXCEPT ![cur] = Whole(@, src[cur])]
  /\ Goto("opkg")
  /\ UNCHANGED <<netVars, src, buildok, prefix, opkg, makeVars, err, brk, torn>>

(* A file of no known type: buildok is taken back, and the subshell of the *)
(* pipe, not the script, exits.                                            *)
PackedOdd ==
  /\ pc = "packing"
  /\ buildok' = buildok \ {cur}
  /\ Goto("opkg")
  /\ UNCHANGED <<netVars, src, pkgdir, prefix, opkg, makeVars, err, brk, torn>>

OpkgWrites ==
  /\ pc = "opkg" /\ Opkg /\ opkg[cur] = "none"
  /\ opkg' = [opkg EXCEPT ![cur] = "partial"]
  /\ UNCHANGED <<netVars, src, buildok, pkgdir, prefix, makeVars, err, brk, pc,
                 runVars, torn>>

OpkgFails ==
  /\ pc = "opkg" /\ Opkg
  /\ Fail(cur, FALSE)
  /\ UNCHANGED <<netVars, treeVars, makeVars, brk, torn>>

AutoDone ==
  /\ pc = "opkg" /\ (Opkg => opkg[cur] # "none")
  /\ opkg' = IF Opkg THEN [opkg EXCEPT ![cur] = pkgdir[cur]] ELSE opkg
  /\ Dispose(cur, "built")
  /\ UNCHANGED <<netVars, src, buildok, pkgdir, prefix, makeVars, err, brk, torn>>

-----------------------------------------------------------------------------
(* After the loop: with ydfs-error the run fails, otherwise buildenv is    *)
(* created and then filled line by line.                                   *)
EndWithError ==
  /\ pc = "end" /\ err
  /\ Exit
  /\ UNCHANGED <<netVars, treeVars, makeVars, err, brk, torn>>

BuildenvBegin ==
  /\ pc = "end" /\ ~err
  /\ buildenv' = "partial" /\ stale' = FALSE
  /\ Goto("env")
  /\ UNCHANGED <<netVars, treeVars, list, missed, err, brk, torn>>

(* Each line that is added makes buildenv newer than the list again.       *)
BuildenvGrows ==
  /\ pc = "env" /\ stale
  /\ stale' = FALSE
  /\ UNCHANGED <<netVars, treeVars, buildenv, list, missed, err, brk, pc, runVars, torn>>

BuildenvEnd ==
  /\ pc = "env"
  /\ buildenv' = "full" /\ stale' = FALSE
  /\ Exit
  /\ UNCHANGED <<netVars, treeVars, list, missed, err, brk, torn>>

-----------------------------------------------------------------------------
(* The script is killed, the machine stops.                                *)
Crash ==
  /\ pc # "idle"
  /\ Exit
  /\ UNCHANGED <<netVars, treeVars, makeVars, err, brk, torn>>

(* Mutant: buildenv does not depend on the list.                           *)
EditListUnnoticed ==
  /\ list' \in Lists \ {list}
  /\ missed' = (missed \/ pc \in Steps \ {"idle"})
  /\ UNCHANGED <<netVars, treeVars, buildenv, stale, err, brk, pc, runVars, torn>>

(* packages/list-X is edited: from now on it is newer than buildenv.       *)
EditList ==
  /\ list' \in Lists \ {list}
  /\ missed' = (missed \/ pc \in Steps \ {"idle"})
  /\ stale' = (buildenv # "none")
  /\ UNCHANGED <<netVars, treeVars, buildenv, err, brk, pc, runVars, torn>>

(* scripts/uninstall-package: the files the package directory names, then  *)
(* the build directory or else the sources, then the package directory.    *)
UninstallBegin ==
  /\ pc = "idle"
  /\ \E p \in Pkgs :
       /\ pkgdir[p] # "none"
       /\ target' = p
       /\ torn' = torn \cup {p}
  /\ pc' = "rmfiles"
  /\ UNCHANGED <<netVars, treeVars, makeVars, err, brk, i, plist, opts, fetched,
                 outcome>>

UninstallFiles ==
  /\ pc = "rmfiles"
  /\ prefix' = [prefix EXCEPT ![target] =
                  IF pkgdir[target] = "full" \/ @ = "none" THEN "none" ELSE "partial"]
  /\ Goto("rmbuild")
  /\ UNCHANGED <<netVars, src, buildok, pkgdir, opkg, makeVars, err, brk, torn>>

UninstallBuild ==
  /\ pc = "rmbuild"
  /\ buildok' = buildok \ {target}
  /\ \/ target \notin InTree /\ UNCHANGED src
     \/ /\ target \in InTree \/ target \notin buildok
        /\ src' = [src EXCEPT ![target] = "none"]
  /\ Goto("rmpkg")
  /\ UNCHANGED <<netVars, pkgdir, prefix, opkg, makeVars, err, brk, torn>>

UninstallEnd ==
  /\ pc = "rmpkg"
  /\ pkgdir' = [pkgdir EXCEPT ![target] = "none"]
  /\ torn' = torn \ {target}
  /\ Exit
  /\ UNCHANGED <<netVars, src, buildok, prefix, opkg, makeVars, err, brk>>

(* scripts/make_clean, `rm' by `rm'; archives and .start files stay.       *)
CleanBegin ==
  /\ pc = "idle"
  /\ torn' = Pkgs
  /\ pc' = "clean1"
  /\ UNCHANGED <<netVars, treeVars, makeVars, err, brk, runVars>>

CleanPrefix ==
  /\ pc = "clean1"
  /\ prefix' = AllNone /\ buildenv' = "none" /\ stale' = FALSE
  /\ Goto("clean2")
  /\ UNCHANGED <<netVars, src, buildok, pkgdir, opkg, list, missed, err, brk, torn>>

CleanBuild ==
  /\ pc = "clean2"
  /\ buildok' = buildok \cap InTree
  /\ Goto("clean3")
  /\ UNCHANGED <<netVars, src, pkgdir, prefix, opkg, makeVars, err, brk, torn>>

CleanSources ==
  /\ pc = "clean3"
  /\ src' = AllNone /\ buildok' = {}
  /\ Goto("clean4")
  /\ UNCHANGED <<netVars, pkgdir, prefix, opkg, makeVars, err, brk, torn>>

CleanPackages ==
  /\ pc = "clean4"
  /\ pkgdir' = AllNone
  /\ Goto("clean5")
  /\ UNCHANGED <<netVars, src, buildok, prefix, opkg, makeVars, err, brk, torn>>

CleanEnd ==
  /\ pc = "clean5"
  /\ opkg' = AllNone /\ torn' = {}
  /\ Exit
  /\ UNCHANGED <<netVars, src, buildok, pkgdir, prefix, makeVars, err, brk>>

(* An `rm -fR' or a loop of them has removed a part of what it will.       *)
RemoveSome ==
  \/ /\ pc = "rmfiles" /\ prefix[target] = "full"
     /\ prefix' = [prefix EXCEPT ![target] = "partial"]
     /\ UNCHANGED <<src, pkgdir>>
  \/ /\ pc = "rmbuild" /\ target \in InTree /\ src[target] = "full"
     /\ src' = [src EXCEPT ![target] = "partial"]
     /\ UNCHANGED <<prefix, pkgdir>>
  \/ /\ pc = "rmpkg" /\ pkgdir[target] = "full"
     /\ pkgdir' = [pkgdir EXCEPT ![target] = "partial"]
     /\ UNCHANGED <<prefix, src>>
  \/ \E p \in Pkgs :
       /\ pc = "clean1" /\ prefix[p] # "none"
       /\ prefix' = [prefix EXCEPT ![p] = "none"]
       /\ UNCHANGED <<src, pkgdir>>
  \/ \E p \in Pkgs :
       /\ pc = "clean3" /\ src[p] = "full"
       /\ src' = [src EXCEPT ![p] = "partial"]
       /\ UNCHANGED <<prefix, pkgdir>>
  \/ \E p \in Pkgs :
       /\ pc = "clean4" /\ pkgdir[p] # "none"
       /\ pkgdir' = [pkgdir EXCEPT ![p] = "none"]
       /\ UNCHANGED <<prefix, src>>

Remove == /\ RemoveSome
          /\ UNCHANGED <<netVars, buildok, opkg, makeVars, err, brk, pc, runVars, torn>>

-----------------------------------------------------------------------------
Loop     == Jump \/ Stop \/ PassOver \/ EndMark \/ LoopEnd \/ SkipByMarker
Repos    == GitSkip \/ GitEnter \/ GitCloned \/ PipInstall \/ PipRequirements
Download == DropAfterError \/ FetchFirst \/ Receive \/ FetchDone \/ FetchFailed
            \/ Check1 \/ Check2
Archive  == UnpackBegin \/ UnpackEnd \/ InstallBinary \/ BinaryInstalled
Autobuild == AutoSkip \/ Make \/ NoMakefile \/ MakeFails \/ StageWrites \/ StageEnds
             \/ InstallWrites \/ Installed \/ InstallFails \/ MarkBuilt
Packing  == PackageBegin \/ PackageEmpty \/ Packed \/ PackedOdd
            \/ OpkgWrites \/ OpkgFails \/ AutoDone
Finish   == EndWithError \/ BuildenvBegin \/ BuildenvGrows \/ BuildenvEnd
Cleanup  == UninstallBegin \/ UninstallFiles \/ UninstallBuild \/ UninstallEnd
            \/ CleanBegin \/ CleanPrefix \/ CleanBuild \/ CleanSources
            \/ CleanPackages \/ CleanEnd \/ Remove

Builder == Loop \/ Repos \/ Download \/ Archive \/ Autobuild \/ Packing \/ Finish
Outside == StartRun \/ OtherTarget \/ FastBuild \/ Crash \/ EditList
Next == Outside \/ Builder \/ Cleanup

Spec == Init /\ [][Next]_vars

(* A running script goes on: the shell never waits for anything but its    *)
(* own commands, wget gives up after five tries, and buildenv gets six     *)
(* lines, however often the list is edited meanwhile.                      *)
FairSpec == Spec /\ WF_vars(Builder) /\ WF_vars(BuildenvEnd)

-----------------------------------------------------------------------------
(* Every variable keeps to the values the files and the script can have.   *)
Removals == {"rmfiles", "rmbuild", "rmpkg", "clean1", "clean2", "clean3",
             "clean4", "clean5"}

(* The steps that work on the package the loop is at.                      *)
PackageSteps == Steps \ {"idle", "entry", "end", "env"}

FilesOK ==
  /\ tarball \in [Pkgs -> Tarballs] /\ startmark \subseteq Pkgs
  /\ src \in [Pkgs -> Trees] /\ buildok \subseteq Pkgs
  /\ pkgdir \in [Pkgs -> Trees] /\ prefix \in [Pkgs -> Trees]
  /\ opkg \in [Pkgs -> Trees]
  /\ buildenv \in Trees /\ list \in Lists

FlagsOK == {err, brk, stale, missed} \subseteq BOOLEAN

RunOK ==
  /\ pc \in Steps \cup Removals
  /\ i \in Nat /\ plist \in Lists
  /\ opts \in [notexit : BOOLEAN, force : BOOLEAN]
  /\ target \in Pkgs /\ fetched \subseteq Pkgs
  /\ outcome \in [Pkgs -> Outcomes] /\ torn \subseteq Pkgs
  /\ pc \in PackageSteps => i \in 1 .. Len(plist) /\ cur \in Pkgs

TypeOK == FilesOK /\ FlagsOK /\ RunOK

(* The .start protocol (build-packages 352-369): an archive that is only   *)
(* partly there has its .start file, whatever was killed and whenever, so  *)
(* that the next run can tell it from a good one.                          *)
PartialIsMarked == \A p \in Pkgs : tarball[p] = "partial" => p \in startmark

(* A partly downloaded archive that db-lcarchive gets to see was left by   *)
(* the wget of this very run (which failed, and nobody looked): one that   *)
(* an earlier run left is fetched anew before it is unpacked.              *)
OnlyOwnPartials ==
  pc \in {"archive", "tar", "bin"} /\ tarball[cur] = "partial" => cur \in fetched

(* A complete archive without .start file is kept for ever: no run, crash  *)
(* or clean throws away what need not be downloaded again.                 *)
GoodArchivesKept ==
  [][\A p \in Pkgs : tarball[p] = "good" /\ p \notin startmark
                       => tarball'[p] = "good" /\ p \notin startmark']_vars

(* A buildok file means that all of the package is in the prefix, when its *)
(* sources were whole; exempt are packages whose install errors            *)
(* db-autobuild ignores and those a killed uninstall or clean tore apart.  *)
MarkedIsInstalled ==
  \A p \in buildok \ (torn \cup Tolerant) : src[p] = "full" => prefix[p] = "full"

(* The positions of the list that a run has to deal with.                  *)
Off(k)    == \E j \in 1 .. k - 1 : /\ plist[j] = "#JUMP"
                                  /\ \A l \in j + 1 .. k - 1 : plist[l] # "#STOP"
Ended(k)  == \E j \in 1 .. k - 1 : plist[j] = "#END" /\ ~Off(j)
Active(k) == plist[k] \in Pkgs /\ ~Off(k) /\ ~Ended(k)

(* A run that gets as far as buildenv, and so makes the Makefile believe   *)
(* in it, has dealt with every entry that is not switched off: none lost   *)
(* to a /tmp/break of a killed run, none given up because of another one's *)
(* ydfs-error, and without NOTEXIT none that failed.                       *)
BuildenvIsEarned ==
  pc = "env" => \A k \in 1 .. Len(plist) : Active(k) =>
    /\ outcome[plist[k]] \notin {"none", "dropped"}
    /\ outcome[plist[k]] = "tolerated" => opts.notexit

(* When make takes the packages for up to date, the last run of the list   *)
(* read it as it now is, unless it was edited under that run, or another   *)
(* target or a fast build, which share buildenv with it, came in between.  *)
BuildenvIsCurrent ==
  pc = "idle" /\ ~MakeRuns /\ ~missed => plist = list

(* A started run comes to an end: the loop cannot stall or go round.       *)
RunEnds == pc \in Steps \ {"idle"} ~> pc = "idle"

=============================================================================
