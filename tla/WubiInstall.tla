---------------------------- MODULE WubiInstall ----------------------------
(***************************************************************************)
(* What installing and uninstalling leave on a Windows machine: the target *)
(* directory, wubi's registry key, the entries of the boot menu and the    *)
(* boot loader in the roots of the drives. The tasks of the two task lists *)
(* run in order and the first that raises, or a cancellation between two   *)
(* tasks, ends the run (module TaskList); the machine keeps what was done  *)
(* by then, and the next run has to cope with it.                          *)
(*                                                                         *)
(* The machines modelled boot from a BCD store (Windows Vista and later)   *)
(* and not by EFI. A directory is named by the drive it is on.             *)
(***************************************************************************)
CONSTANTS
  Drive,    \* the drives one can install on
  Id,       \* the identifiers of wubi's entries in the BCD store
  None,     \* no drive, no identifier, no entry
  Unaimed,  \* an entry that has no device and no path yet
  Faults    \* what may go wrong, beyond tasks that fail and cancellations

\* "kill": wubi may be killed at work, except in these two places:
\* "killEntry": between the first and the last command of modify_bcd,
\* "killClear": between the two commands of undo_bcd;
\* "bcdedit": a command of modify_bcd may fail after the entry was created;
\* "delete": the one of undo_bcd may; "locked": the target directory may hold
\* files that cannot be removed; "byHand": the user may remove it.
FaultKinds == {"kill", "killEntry", "killClear", "bcdedit", "delete", "locked", "byHand"}

ASSUME Machine ==
  /\ None \notin Drive \cup Id \cup {Unaimed}
  /\ Unaimed \notin Drive
  /\ Faults \subseteq FaultKinds

VARIABLES
  made,     \* the drives with a target directory
  winboot,  \* the target directories with the boot files in winboot
  loader,   \* whether wubildr is in the roots of the drives
  entries,  \* the boot entries: what they start, by identifier
  key,      \* wubi's registry key: InstallationDir and VistaBootDrive
  run,      \* where wubi is
  happened  \* history: what has gone wrong so far

vars == <<made, winboot, loader, entries, key, run, happened>>

NoKey == [dir |-> None, boot |-> None]
Away(at) == [at |-> at, dir |-> None, id |-> None, image |-> FALSE]
Idle  == Away("idle")
Goto(at) == run' = [run EXCEPT !.at = at]
Fault(f) == f \in Faults /\ happened' = happened \cup {f}

Init ==
  /\ made = {} /\ winboot = {} /\ loader = FALSE
  /\ entries = [i \in Id |-> None]
  /\ key = NoKey /\ run = Idle /\ happened = {}

-----------------------------------------------------------------------------
(* Starting wubi. *)

\* Mutant: an earlier installation is not looked for.
StartAnyway ==
  /\ run = Idle /\ run' = Away("settings")
  /\ UNCHANGED <<happened, made, winboot, loader, entries, key>>

\* An earlier installation has to be uninstalled first.
Start ==
  /\ run = Idle
  /\ run' = IF key.dir \in made THEN [Away("undo") EXCEPT !.dir = key.dir]
                                ELSE Away("settings")
  /\ UNCHANGED <<happened, made, winboot, loader, entries, key>>

\* Mutant: create_dir_structure is not among the tasks.
ChooseWithoutDirs(d, image) ==
  /\ run.at = "settings"
  /\ run' = IF d \in made THEN Idle ELSE [at |-> "register", dir |-> d, id |-> None, image |-> image]
  /\ UNCHANGED <<happened, made, winboot, loader, entries, key>>

\* select_target_dir raises when there is a directory of that name. Drives
\* that are not FAT are installed from a disk image when no CD or ISO is found.
Choose(d, image) ==
  /\ run.at = "settings"
  /\ run' = IF d \in made THEN Idle ELSE [at |-> "mkdir", dir |-> d, id |-> None, image |-> image]
  /\ UNCHANGED <<happened, made, winboot, loader, entries, key>>

-----------------------------------------------------------------------------
(* The tasks of the installation. *)

CreateDirs ==
  /\ run.at = "mkdir" /\ made' = made \cup {run.dir} /\ Goto("register")
  /\ UNCHANGED <<happened, winboot, loader, entries, key>>

\* Mutant: a key that is already there is left alone.
CreateUninstallerOnce ==
  /\ run.at = "register" /\ key' = IF key.dir = None THEN [key EXCEPT !.dir = run.dir] ELSE key
  /\ Goto(IF run.image THEN "fetch" ELSE "files")
  /\ UNCHANGED <<happened, made, winboot, loader, entries>>

\* The values of an earlier key that are not set anew stay.
CreateUninstaller ==
  /\ run.at = "register" /\ key' = [key EXCEPT !.dir = run.dir]
  /\ Goto(IF run.image THEN "fetch" ELSE "files")
  /\ UNCHANGED <<happened, made, winboot, loader, entries>>

\* copy_installation_files; a disk image has it done in diskimage_bootloader,
\* after modify_bootloader, and has its own wubildr.
CopyWinboot ==
  /\ run.at = "files" /\ winboot' = winboot \cup {run.dir}
  /\ loader' = (loader \/ run.image)
  /\ Goto(IF run.image THEN "complete" ELSE "fetch")
  /\ UNCHANGED <<happened, made, entries, key>>

\* get_iso or get_diskimage, and the other tasks that work in the directory.
Fetch ==
  /\ run.at = "fetch" /\ Goto("boot")
  /\ UNCHANGED <<happened, made, winboot, loader, entries, key>>

Rest(image) == IF image THEN "files" ELSE "rest"

\* Mutant: an entry is created whatever is recorded.
CopyLoaderAlways ==
  /\ run.at = "boot" /\ loader' = TRUE /\ Goto("create")
  /\ UNCHANGED <<happened, made, winboot, entries, key>>

\* Mutant: an entry is created only when one is recorded.
CopyLoaderInverted ==
  /\ run.at = "boot" /\ loader' = TRUE
  /\ Goto(IF key.boot # None THEN "create" ELSE Rest(run.image))
  /\ UNCHANGED <<happened, made, winboot, entries, key>>

\* modify_bcd: "BCD has already been modified" when an entry is recorded.
CopyLoader ==
  /\ run.at = "boot" /\ loader' = TRUE
  /\ Goto(IF key.boot = None THEN "create" ELSE Rest(run.image))
  /\ UNCHANGED <<happened, made, winboot, entries, key>>

\* bcdedit makes up the identifier: it is none that was used before.
CreateEntry(i) ==
  /\ run.at = "create" /\ entries[i] = None /\ i # key.boot
  /\ entries' = [entries EXCEPT ![i] = Unaimed]
  /\ run' = [run EXCEPT !.at = "aim", !.id = i]
  /\ UNCHANGED <<happened, made, winboot, loader, key>>

\* Mutant: the entry is recorded before it starts anything.
AimEntryLater ==
  /\ run.at = "aim" /\ Goto("record")
  /\ UNCHANGED <<happened, made, winboot, loader, entries, key>>

\* The commands that set the device and the path, and display the entry.
AimEntry ==
  /\ run.at = "aim" /\ entries' = [entries EXCEPT ![run.id] = run.dir] /\ Goto("record")
  /\ UNCHANGED <<happened, made, winboot, loader, key>>

RecordEntry ==
  /\ run.at = "record" /\ key' = [key EXCEPT !.boot = run.id] /\ Goto(Rest(run.image))
  /\ UNCHANGED <<happened, made, winboot, loader, entries>>

\* The tasks that follow modify_bootloader.
FinishTasks ==
  /\ run.at = "rest" /\ Goto("complete")
  /\ UNCHANGED <<happened, made, winboot, loader, entries, key>>

LeaveFinishPage ==
  /\ run.at = "complete" /\ run' = Idle
  /\ UNCHANGED <<happened, made, winboot, loader, entries, key>>

-----------------------------------------------------------------------------
(* The tasks of the uninstallation. *)

\* undo_bcd. That bcdedit fails, as it does when the entry is gone, is logged
\* and forgotten, and the record stays.
DeleteEntry ==
  /\ run.at = "undo" /\ key.boot # None /\ entries[key.boot] # None
  /\ entries' = [entries EXCEPT ![key.boot] = None] /\ Goto("clear")
  /\ UNCHANGED <<happened, made, winboot, loader, key>>

SkipEntry ==
  /\ run.at = "undo" /\ Goto("unlink")
  /\ \/ (key.boot # None => entries[key.boot] = None) /\ UNCHANGED happened
     \/ Fault("delete")
  /\ UNCHANGED <<made, winboot, loader, entries, key>>

ClearRecord ==
  /\ run.at = "clear" /\ key' = [key EXCEPT !.boot = None] /\ Goto("unlink")
  /\ UNCHANGED <<happened, made, winboot, loader, entries>>

RemoveLoader ==
  /\ run.at = "unlink" /\ loader' = FALSE /\ Goto("rmtree")
  /\ UNCHANGED <<happened, made, winboot, entries, key>>

RemoveFiles ==
  /\ run.at = "rmtree" /\ winboot' = winboot \ {run.dir}
  /\ UNCHANGED <<happened, made, loader, entries, key, run>>

RemoveDir ==
  /\ run.at = "rmtree" /\ run.dir \notin winboot /\ made' = made \ {run.dir}
  /\ Goto("unregister")
  /\ UNCHANGED <<happened, winboot, loader, entries, key>>

\* remove_target_dir forgets every OSError but that of a corrupt file.
KeepDir ==
  /\ run.at = "rmtree" /\ Fault("locked") /\ Goto("unregister")
  /\ UNCHANGED <<made, winboot, loader, entries, key>>

RemoveKey ==
  /\ run.at = "unregister" /\ key' = NoKey /\ Goto("uninstalled")
  /\ UNCHANGED <<happened, made, winboot, loader, entries>>

\* After uninstalling, wubi ends or goes on to the settings page.
Uninstalled ==
  /\ run.at = "uninstalled" /\ run' \in {Idle, Away("settings")}
  /\ UNCHANGED <<happened, made, winboot, loader, entries, key>>

-----------------------------------------------------------------------------
(* What ends a run early, and what the user does to the machine. *)

Boundaries == {"settings", "mkdir", "register", "files", "fetch", "boot", "create", "rest",
               "undo", "unlink", "rmtree", "unregister"}

\* A task raises before it has done anything, or the user cancels between
\* two tasks or closes the settings page.
Abandon ==
  /\ \/ run.at \in Boundaries /\ UNCHANGED happened
     \/ run.at \in {"aim", "record"} /\ Fault("bcdedit")
  /\ run' = Idle
  /\ UNCHANGED <<made, winboot, loader, entries, key>>

Killed ==
  /\ \/ run.at \notin {"idle", "aim", "record", "clear"} /\ Fault("kill")
     \/ run.at \in {"aim", "record"} /\ Fault("killEntry")
     \/ run.at = "clear" /\ Fault("killClear")
  /\ run' = Idle
  /\ UNCHANGED <<made, winboot, loader, entries, key>>

\* "Please remove it before continuing."
RemoveByHand(d) ==
  /\ run = Idle /\ d \in made /\ Fault("byHand")
  /\ made' = made \ {d} /\ winboot' = winboot \ {d}
  /\ UNCHANGED <<loader, entries, key, run>>

Next ==
  \/ Start \/ CreateDirs \/ CreateUninstaller \/ CopyWinboot \/ Fetch \/ CopyLoader
  \/ AimEntry \/ RecordEntry \/ FinishTasks \/ LeaveFinishPage
  \/ DeleteEntry \/ SkipEntry \/ ClearRecord \/ RemoveLoader \/ RemoveFiles \/ RemoveDir
  \/ KeepDir \/ RemoveKey \/ Uninstalled \/ Abandon \/ Killed
  \/ \E d \in Drive : RemoveByHand(d) \/ \E image \in BOOLEAN : Choose(d, image)
  \/ \E i \in Id : CreateEntry(i)

Spec == Init /\ [][Next]_vars

-----------------------------------------------------------------------------
(* Properties. Each says what must not have happened for it to hold.        *)

Steps == Boundaries \cup {"idle", "aim", "record", "complete", "clear", "uninstalled"}
Spared(faults) == happened \cap faults = {}

\* The machine's and wubi's state keep to their values, and boot files are in
\* directories that are there.
TypeOK ==
  /\ made \subseteq Drive /\ winboot \subseteq made /\ loader \in BOOLEAN
  /\ entries \in [Id -> Drive \cup {None, Unaimed}]
  /\ key \in [dir : Drive \cup {None}, boot : Id \cup {None}]
  /\ run \in [at : Steps, dir : Drive \cup {None}, id : Id \cup {None}, image : BOOLEAN]
  /\ happened \subseteq Faults

\* "You need to reboot to complete the installation": an entry of the boot
\* menu starts what was installed, and its files are in place.
AddsBootEntry ==
  run.at = "complete" =>
    /\ \E i \in Id : entries[i] = run.dir
    /\ run.dir \in winboot /\ loader

\* Whatever installations failed or were killed half way, those that complete
\* can be started; unless undo_bcd failed or was killed at its work, or the
\* user removed a directory, which leave a record of no or of an old entry.
InstalledBoots == Spared({"killClear", "delete", "byHand"}) => AddsBootEntry

\* Under the same condition the registry records no entry but one that starts
\* the installation that is registered with it, and whose directory is there.
RecordIsTrue ==
  Spared({"killClear", "delete", "byHand"}) /\ key.boot # None /\ run.at # "clear" =>
    entries[key.boot] = key.dir /\ key.dir \in made

\* Boot files are in no directory but the one that is registered for
\* uninstallation, unless remove_target_dir kept one.
FilesAreRegistered == Spared({"locked"}) => winboot \subseteq {key.dir}

\* The directory that is registered is not forgotten before it is gone, again
\* unless remove_target_dir kept it.
NotForgotten ==
  Spared({"locked"}) /\ key.dir \in made => key'.dir = key.dir \/ key.dir \notin made'
NeverForgotten == [][NotForgotten]_vars

\* "... has been successfully uninstalled": neither directory nor boot entry
\* of this or of an earlier installation is left.
NothingLeft ==
  run.at = "uninstalled" => run.dir \notin made /\ \A i \in Id : entries[i] = None

\* An uninstallation leaves nothing behind of any number of installations
\* that failed, were killed or removed by hand; unless an entry was created
\* and not recorded, or removing one or a directory failed.
UninstalledIsGone == Spared({"killEntry", "bcdedit", "delete", "locked"}) => NothingLeft
=============================================================================
