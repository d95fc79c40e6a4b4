# A verification development for ydfs

ydfs ("Your Distribution From Scratch") builds the LinuxConsole live distribution
from source. The repository holds five programs that have state worth a
specification:

* `src/2.10`: the release's build system. A Makefile and shell scripts walk a list of
  about 1500 packages, download, unpack, build and install each, and pack the
  result into squashfs modules, opkg files and an ISO.
* `src/testing`: its successor ("v3"). Package lists name Arch Linux packages, whose
  build files give sources and dependencies; every package is built in six
  recorded steps.
* `src/wubi`: the Windows installer. A Python program with a window thread and
  a task thread that installs the distribution beside Windows, and uninstalls it.
* `src/2.10/tools/src/exfat`: the exFAT file system driver for the Linux kernel
  that the release keeps among its tools.
* `src/wubi/src/grub4dos/netboot`: the network drive of the boot loader that wubi
  installs: a TFTP client, and the ways to an IP address.

The hazards of the first three are much the same: work is recorded in files (or in the
registry) that a later run believes, and a run may fail or be killed at any point between
the work and its record. The driver keeps several descriptions of one thing, in
directory entries, in inodes and in hints, which every operation must keep in
step. The boot loader talks to a network that loses, repeats and delays.

## 1. Inventory

| Component | Sources | Module(s) | Status |
|---|---|---|---|
| 2.10 package builder | `2.10/packages/{build-packages,db-autobuild,db-lcarchive}`, `2.10/scripts/{includes/build,make_packages,make_opkg,make_clean,uninstall-package}` | `PackageBuild` | modelled but for the items in section 6 |
| testing package builder, steps | `testing/scripts/{build_from_source,build_archive,uninstall_package}` and the six step scripts | `BuildFromSource`, `StepwiseBuild` | the same |
| testing package list and dependency walk | `testing/scripts/{build_core,echo-archpkg,get-archpkg}` | planned: `CoreBuild` | not modelled yet |
| wubi task list and progress page | `wubi/.../tasklist.py`, `frontend.py`, `progress_page.py` | `TaskList` | the task tree and both threads |
| wubi installation and uninstallation | `wubi/.../win32/backend.py`, `common/backend.py`, `application.py` | `WubiInstall` | the BCD variant |
| wubi retrieval of ISO and disk image | `common/backend.py` 263-624, `downloader.py`, `btdownloader.py`, `metalink.py` | planned: `IsoRetrieval` | not modelled yet |
| wubi boot loader by EFI, boot.ini, config.sys | `win32/backend.py` | planned: variants of `WubiInstall` | not modelled yet |
| exFAT driver | `2.10/tools/src/exfat/exfat_{core,super,api,cache}.c` | `ExfatAlloc`, `ExfatVolume`; `SectorCache`, `ExfatCache` | volumes of type exFAT; section 6 |
| exFAT driver: character sets, block device | `exfat_{nls,upcase,blkdev,oal}.c` | none | conversions, calls of the kernel |
| GRUB4DOS network boot (in wubi) | `grub4dos/netboot/{fsys_tftp,main}.c` | `NetFile`, `TftpClient`; `NetConfig` | the client and the addresses; section 6 |
| GRUB4DOS shell, disks, network cards; grubutil | `grub4dos/stage2`, `grub4dos/netboot/*`, `grubutil` | none | one thread over disks and hardware that the repository does not specify |
| squashfs modules and images | `scripts/make_modules`, `make_module`, `make_initramfs`, `make_iso` in both trees | planned: `ModuleBuild` | not modelled yet |
| make targets, kernel, busybox and toolchain builds | Makefiles, `make_linux`, `make_toolchain` | none | straight sequences of external commands |
| live system, addons, netboot, WSL | `init-x86`, `addons`, `netboot` | none | boot and install scripts, little state of their own |
| wubi pages, bundled libraries | `frontends/win32/*_page.py`, `7z`, `bittorrent`, ... | none | layout and third-party code |

What each of the core components is made of:

**2.10 package builder.** *State:* tarballs with their `.start` files, source trees,
`buildok-$ARCH` files, staged trees in `packages-$ARCH`, the prefix, opkg files, the
flags `$HOME/ydfs-error` and `/tmp/break`, and `buildenv`, the file make looks at.
*Operations:* a run (start, skip, download, unpack, build, stage, install, mark, pack,
finish), the run of another make target with a list of its own, a fast build, which fetches a
finished prefix, `uninstall-package`, `make_clean`, and an edit of the list. *Interactions:* the
scripts call one another and communicate by the files and by exit statuses that are not
always looked at. *Hard:* a kill between any two commands; partial downloads; a
failure of one package that is seen by the next; switches in the list that outlive
a run; markers of one package taken for another's. *Correct when:* a marker implies
what it stands for; a partial download is never unpacked by a later run; `buildenv`
is written only after every entry was dealt with, and from the list as it is, as long as
only one target of the Makefile writes it.

**testing builder, steps.** *State:* one `.done` file per step and source directory, what
is installed, what is staged in `packages/<name>`. *Operations:* build (skip what is
done, run a script, touch its `.done`), `uninstall_package`. *Hard:* scripts that exit 0
after a failure; kills between the work and the marker; uninstalling, which removes
files, staging and markers one after the other; several directories with the same
package name, and directories whose names the pattern of `uninstall_package` does not match.
*Correct when:* no step runs before the work of the earlier ones, and
"Buildt" is said of what is installed.

**wubi task list and progress page.** *State:* the statuses of a tree of tasks, the
error of the root, an event and a flag of the message loop, the queue of window
messages. *Operations:* run, add subtask, report progress, fail, cancel, the page's
callback, window close, cancel dialog, `join(3)`. *Interactions:* two threads share all
of it without a lock; the task thread's callback blocks until the window thread takes
a message. *Hard:* the interleavings of a cancellation with a task that ends, the
window thread that joins a thread that waits for it, the stop of a loop that has
not begun. *Correct when:* the finish page is only shown after success, nothing is
started after a cancellation, and the progress page is always left.

**wubi installation and uninstallation.** *State:* the target directory, its boot files,
the loader in the drives' roots, the entries of the BCD store, the registry key with
`InstallationDir` and `VistaBootDrive`. *Operations:* the tasks of the two lists. *Hard:*
the tasks stop at the first error, cancellation or kill, nothing is rolled back, and
the next run decides by the key what was there; the user may remove the directory.
*Correct when:* what is installed can be started and uninstalled, and what is
uninstalled is gone.

**exFAT driver, the volume.** *State:* the allocation bitmap, the FAT, the slots of the
directories, the number of used clusters and the place where the last allocation ended;
a hint where a directory has room; the in-core inodes with their `FILE_ID_T` (where the
entry is, where the data starts, whether it is one run or a chain). *Operations:* lookup,
create, mkdir, unlink, rmdir, rename, read, write, truncate, the write-back and
eviction of inodes, statfs, unmount and mount. *Interactions:* every operation runs under
`v_sem`, so that operations do not overlap; the kernel decides when an inode is written back
or forgotten, and holds a directory's `i_mutex` from a lookup to the creation that
follows. *Hard:* a run of clusters that becomes a FAT chain while its description lies in
four places; renames that move entries; files without a name; a full volume in the middle
of an operation. *Correct when:* no cluster has two owners, none is lost but where it is
known, names are found again, and inode and entry agree.

**exFAT driver, the caches.** *State:* a fixed number of buffers, in one list by use
and in the circular lists of a hash table; a lock bit. *Operations:* get, lock, modify,
unlock and release a sector; release all. *Interactions:* the volume's operations hold
pointers into buffers while they read more sectors. *Hard:* the pointers of a buffer whose
read failed; a locked buffer at the end of the list. *Correct when:* a search ends and
finds the one buffer of a sector, the sectors used last are kept, and the locked ones always.

**GRUB4DOS network boot, files.** *State:* the file's size and position, a buffer with a
piece of the file, the numbers of the transfer (block, last block, ports, block size), the
packet to send again. *Operations:* open, seek, read, close; a packet comes, the clock
runs out, Ctrl-C. *Interactions:* messages with a server over UDP; read and seek
reopen the file when they go back. *Hard:* messages that are lost, repeated, late, or of an
earlier transfer; a buffer that is moved on in halves. *Correct when:* a read gives the bytes
of the file at the position asked for or fails, and every call returns.

**GRUB4DOS network boot, addresses.** *State:* client and server address, the last
offer, whether the network is ready. *Operations:* `bootp`, `rarp`, `ifconfig`, replies,
timeouts, Ctrl-C. *Hard:* replies set the addresses before anybody looks at what kind
of reply they are. *Correct when:* a network said to be ready has an address that
was granted.

The hazards are listed in `PROJECT.json`, each at its line with the properties that
would notice it, or the reason why none does. Among the components without a module
they are: files below `$HOME/archpkg` that mark a dependency as visited although its
build failed (`build_core`); patches that an interrupted `prepare` applies again; a
source directory left by an interrupted `tar`; `make_module`, which removes the old image
before it makes the new one and does not look at the status; attempts of the
retrieval that leave paths and half files to the next; registry calls that fail
silently.

## 2. Plan

Done, in this order, the most important behaviour first:

1. `PackageBuild`: the core of the released system.
2. `TaskList` with `TaskList_proofs`: the only concurrent program of the repository.
3. `StepwiseBuild` (abstract) and `BuildFromSource` (detailed): the record of steps and its
   refinement. `Builder_proofs` has the proofs of both builders' modules.
4. `WubiInstall`: what runs of the installer leave behind. It
   composes with `TaskList` by its results only: a task raises before or after its effect,
   and the tasks after it do not start (`TaskList`'s `NothingStartsAfterCancel`).
5. `ExfatAlloc` (bitmap and FAT) and `ExfatVolume` over it: the file system driver. Its proofs
   are in three modules, each over the one before: `ExfatVolume_proofs` (clusters and chains,
   then slots and entries), `ExfatTree_proofs` and `ExfatNames_proofs` (the operations, and
   the theorems that need all of them).
6. `NetFile` (abstract) and `TftpClient` (detailed) with `TftpClient_proofs`: the network drive.
7. `NetConfig`: how the network gets ready. It composes with
   `TftpClient` by `network_ready` and the server's address only. `Wubi_proofs` has its proofs
   and those of `WubiInstall`.
8. `SectorCache` (abstract) and `ExfatCache` (detailed) with `ExfatCache_proofs`: the driver's buffers. It composes
   with `ExfatVolume` by the place of the sector that an operation holds; `ExfatVolume`
   itself reads the volume as if it was in memory.

Next, in this order:

9.  `ExfatSync`: which sectors have been written when the volume is marked clean, and what a
    crash finds.
10. `CoreBuild`: `build_core`'s list loop and depth-first walk over Arch
    dependencies. The walk marks what it visited by files below `$HOME/archpkg`
    that persist; an abstract specification is "a package is built after its
    dependencies". Runs: a diamond and a cycle of three packages, an alias, a
    missing build file. The walk leaves functions by `continue`, and `echo-archpkg` starts
    a shell of the user's, so that what its status means has to be settled first.
11. `IsoRetrieval`: `get_iso` and `get_diskimage` as a ladder of sources, each with its
    check; properties: what is used was checked, an attempt leaves nothing that makes
    the next one believe it. Abstract specification: "one checked image or an error".
12. The EFI, boot.ini and config.sys variants of `WubiInstall`, and registry calls that fail.
13. `ModuleBuild`: the file lists, `link_module`'s updates by modification time and the
    replacement of the squashfs file.

## 3. Modules and runs

Every module is checked with the configuration files named after it; an `MC` module
holds the values of its constants. Two modules whose proofs share a module have names of
their own for `Init`, `Next` and the like (`StepsInit`, `NetInit`). Definitions that are called a *mutant* in the modules
are not part of any specification: they are the code with one plausible mistake, and the
property they are paired with in `PROJECT.json` is violated when they take the place of
the original.

### PackageBuild

One run of `build-packages` at a time, killed (`Crash`) and started again at will. Files
are only "none", "partial" or "full"; a tarball may also be empty or an error page
("html"), which wget saves as if it was the archive. `pc` names the line the script is
at; the groups of actions `Loop`, `Repos`, `Download`, `Archive`, `Autobuild`, `Packing`,
`Finish` and `Cleanup` follow the scripts from top to bottom. `fetched`, `outcome`,
`torn` and `missed` are history variables the scripts do not have; no guard reads them.
`stale` is make's comparison of the dates of the list and of `buildenv`.

Some thirty targets of the Makefile (`kde`, `lxde`, `mate`, `updates`, ...) run `make_packages`
with lists of their own and look at no `buildenv`, but write the same one
(`build-packages` 463). `OtherTarget` is such a run as this list's build sees it: by
`/tmp/break`, `ydfs-error` and the `buildenv` it leaves, whole or killed. `FastBuild` is
`BUILDYDFS=fast`, with which `make_packages` fetches the prefix and touches `buildenv`
(22). After either, an edit of this list may be older than `buildenv` and is never built;
`BuildenvIsCurrent` exempts this by `missed`, until the next run of this list begins.

| Run | Question | Bounds |
|---|---|---|
| `archives` | `TypeOK`, `PartialIsMarked`, `OnlyOwnPartials`, `MarkedIsInstalled` under kills, cleans, uninstalls, bad downloads | two archives, one strict about tar errors, one built in its source directory; plain, NOTEXIT and FORCEBUILD |
| `lists` | `BuildenvIsEarned`, `BuildenvIsCurrent` over lists with `#JUMP`, `#STOP`, `#SKIP`, `#END`, edited into one another at any moment, with runs of other targets and fast builds in between | three lists over a `bin::` and two `pip::` entries, one with a `requirements.txt`; plain and NOTEXIT |
| `opkg` | `MarkedIsInstalled`, `RunEnds` when opkg files are made, for meson, tolerant and in-tree packages, with a shared short name | an archive and a git entry |

Between them the runs take every kind of entry and of package through all of the
script. `lists` has the entries with the fewest states, because the product of the lists,
the edits and the environments is what it is about; the others have one list. That
runs end is asked of `opkg`, whose entries take the longest way and need the network most.
That a failure which NOTEXIT tolerates keeps `buildenv` from being written is proved for every
list (`BuildenvEarned`); the entries of `lists` can fail, but not be tolerated or dropped.
About 2,970,000 (`archives`), 831,000 (`lists`) and 1,930,000 states (`opkg`).

Two packages are enough for what one does to another: they share the flags, the
list position and the opkg name space, and nothing else; packages are otherwise
independent. All the kinds of an entry and of a package occur in some run. The
number of runs and kills is not bounded: the state space is finite.

*Fairness.* `FairSpec` is weak fairness of the running script: a shell that is not killed
goes on to its next command, and wget gives up by `--tries=5`; and of `BuildenvEnd`,
because `buildenv` gets six lines and no more, however often the list is edited while
they are written. Crashes, edits, starts and clean-ups are never fair.

### TaskList

`status`, `result`, `reports` and `subtasks` are the tasks' fields; `stack` is the task
thread's stack of calls (a task's function may add and call subtasks), `note` how far
its progress callback has come; `gui`, `page`, `keep` and `queue` are the window thread, the
page shown, the flag and the messages of its loop. A step is what a thread does
between two accesses to shared state. Windows delivers a text that another thread sets
only while the owner of the window waits for a message (user32; external).

| Run | Question | Bounds |
|---|---|---|
| `tasks` | `FinishPageIsEarned`, `StopIsNotLost`, `NothingStartsAfterCancel`, `StopsOnlyProgressPage`, `RunTasksEnds`, `QuitEnds` | two tasks, two subtasks of the first (one optional), a subtask of a subtask, two reports per function |

Three levels are what the backend uses (a task, the download it adds, the check that one
adds), and two sibling tasks are what is needed for one to run after another's failure.
Deadlock is not checked: the program ends.

*Fairness.* `LiveSpec`: weak fairness of both threads (functions return, the scheduler
is fair, the user answers a message box that blocks the window) and strong fairness
of `SendTexts`, because the delivery of a waiting text is enabled again and again, whenever
the loop asks for the next message, but not continuously. No button has to be pressed.

### StepwiseBuild and BuildFromSource

`StepwiseBuild` is the promise: a source directory goes through the steps one by one, and
uninstalling its package takes it back to the start. `BuildFromSource` is the code:
`done` are the `.done` files, `work` what they stand for, `listed` the files staged below
`packages/`, `run` the shell. The refinement mapping takes a directory's progress to be
the number of its leading `.done` files, and to be 0 from the moment `uninstall_package`
begins to remove them: `rm` goes in the order of the shell's glob (build before
configure), which leaves gaps in between.

Two things take the `.done` files away from what they stand for, and are exempted by history
variables. An `uninstall_package` may be killed like a build; `tornNames` names the packages this
happened to, until a later uninstallation of them ends. And `uninstall_package` 24 removes
`src/$1-*/*.done`: a directory whose name does not go on with a dash behind the package's
(`Versioned` has those that do) keeps its `.done` files when its package is uninstalled. These
are most git clones, and the archives that `build_archive` unpacks without a version (xvidcore,
Xonotic, eo, vim74, AstroMenace, tcl8.6.1, portaudio, wxWidgets, argyllcms, midori);
`outlived` names the directories this happened to. Both kinds count as not begun, and the
invariants say nothing of them (`Sound`): `build_archive` does say "Buildt" of what an
uninstallation removed, and without a staged package a second uninstallation exits at
once (`uninstall_package` 8). What the run and the theorems add is that nothing else is
affected: not the other directories, and not a directory without a dash before it is
uninstalled.

| Run | Question | Bounds |
|---|---|---|
| `bs_steps` | `StepsTypeOK`, `BuildtIsInstalled`, `EarlierStepsAreDone`, `BuildsStepwise` with failures, killed builds and killed uninstallations | three directories: two of one package name, one of them a meson clone, and an archive whose directory has no dash |

Two directories of one name are what `uninstall_package` confuses; a third of another name
is what it must leave alone, or passes over. About 1,520,000 states. The six steps are not a bound but the code's own number.

### WubiInstall

`run.at` is the task at hand; `entries` maps the identifiers bcdedit gave out to the drive
an entry starts; `key` is the registry key. The constant `Faults` says what may go wrong
beyond errors and cancellations at the boundaries of tasks, and the history variable
`happened` what has: a property names the faults after which it need not hold
(`Spared`), and has to hold through all the others. `CopyLoader` to `RecordEntry` are the commands of `modify_bcd`;
it is called for every drive, but only the first call gets past its test of
`VistaBootDrive`, the others copy files only. `Uninstalled` is followed by the settings
page when the uninstallation was the first half of an installation.

| Run | Question | Faults |
|---|---|---|
| `wi_machine` | `TypeOK`, `InstalledBoots`, `RecordIsTrue`, `FilesAreRegistered`, `NeverForgotten`, `UninstalledIsGone` | all seven: kills in three places, bcdedit failing in both directions, locked files, removal by hand |

Three drives (one installed before, one being installed on, one untouched) and three
identifiers (an orphan, a recorded one, a new one) cover what the properties can tell
apart, and both are interchangeable, hence the symmetry. An installation that finds no
free identifier can still be cancelled.

### ExfatAlloc and ExfatVolume

`ExfatAlloc` has the bitmap, the FAT and the counters as a record, and each function of the
driver on it as an operator from one such record to the next. `ExfatVolume` adds the slots of
the directories and the inodes. Every operation is one step, for it runs under `v_sem`; its
definition goes through the function in the code's order, with the early returns, and what
a failing operation leaves behind is left behind. Sizes are counted in clusters. A name takes
one or more slots, and a slot stands for the entries that carry it. `pending` is the name a
directory was searched for while its `i_mutex` is held: the hint that the search leaves is used
by the creation that follows, or by nobody (`Abandon`).

`faults` is a history variable: some operations of the code leave the volume in a state that
it does not recover from ("leak": clusters without an owner; "false hint"; "stray entry": one
written where it does not belong; "no entry": an inode whose own is gone; "lost data");
behaviours are followed behind a leak, and end behind
any other fault, as what the driver does with a damaged directory is not of interest. `Sound`
is that nothing but leaks has happened.

`NoSharedCluster` says of all that has clusters, by path, that nobody shares any. Until the first
fault it says more, in the form in which the operations rely on it: each inode's chain goes through
clusters of its own, as many as its size tells at least, up to the end of the chain, and its
hint is of one of them (`FilesApart`); and so does the chain that an entry without an inode tells of
(`EntriesApart`).

`DisksAssumption` says of the disks a volume begins with what `ffsMountVol` takes for granted:
that the root directory is such a chain, and that the whole is one the driver may have left behind
(`Tree`). For this the module says what directories, entries and inodes have to do with each other,
over a table `T` of the clusters that each directory lies in: the slots of a directory are whole
entries, deleted ones, and behind them unused ones only (`InOrder`); `hint_uentry` tells where the
unused ones begin (`HintTrue`); no two entries of a directory have one name, each directory but
the root has one entry, and each inode with a name has the entry it believes to have
(`NamesTrue`); and every cluster in use belongs to the system tables, an inode, or an entry without
one (`DataTrue`). `NoneAssumption` keeps "no name" apart from names.

| Run | Question | Bounds |
|---|---|---|
| `exfat` | `TypeOK`, `NoSharedCluster`, `UsedIsCount`, `NamesResolve`, `InodeAgrees`, `LeaksAreKnown`, `KeepsItsPlace` | see below |
| `exfat_removed` | violation: section 5 | the same |

*Bounds.* Seven clusters (`NumClusters` counts two more) in bitmap bytes of four bits, so that the
search passes a byte's end and goes round; two slots to a cluster and names of one and of two
slots, so that a directory of one cluster is full after one long name; a directory in the root
(`MaxDepth`: directories have none in them) with a file of two clusters, and two free clusters
behind it; three inodes with the root's, so that a name can have none; files of at most
`MaxSize` = 3 clusters; `MaxOps` = 3 operations that change the volume (write-backs,
evictions, reads, lookups and remounts are not counted). Three are what it takes to grow a
directory or a file into a chain, let something else use what is next to it, and go on.
About 195,000 states. Deadlock is not checked, as the operations run out.

### SectorCache and ExfatCache

`SectorCache` is what the driver expects: the sectors used last, of which the oldest makes
room, but never a locked one. `ExfatCache` is the code, with the pointers of the hash
lists (`links`) and the buffers in their order of use (`lru`). `work` is the operation above it:
the entries it is at work on, one inside the other, each with its sector and whether it was
locked. Two may be locked at once: `rename_file` and `move_file` keep the old entry's sector
locked while `find_empty_entry` lets the directory grow, whose own entry `update_dir_checksum`
then locks, modifies and unlocks. If both entries lie in one sector, the inner unlock clears the
outer's lock; the history variable `cut` says so, and `LocksAreHeld` exempts the outer entry
from there on. The code gets away with it, as only a handful of sectors are read before the outer
entry is finished and there are 256 buffers, more than the model has. And when the entry to
rename cannot be read, what is unlocked is the sector of an entry before it (`GetEntry`).

A read fails for a sector behind the end of the volume, or because the device
fails, after which every read does (`dev_ejected`). `torn` is a history variable: a buffer
that was in no list was taken out of one again, and the list was not what it had been
(section 5). The refinement maps `slots` to the sectors in the order of use and `kept` to the
sectors of the locked buffers.

| Run | Question | Bounds |
|---|---|---|
| `cache` | `SearchesFind`, `LocksAreHeld`, `KeepsLastUsed` | three buffers, two lists, five sectors of which one is behind the end, two sectors to a cluster |

Three buffers are the fewest that two locks leave one to use (`CacheAssumption` asks for
them), and let a locked one be the last, with a choice among the others; five sectors share
two lists. The number of calls is not bounded. About 513,000 states. Deadlock is not checked: a
search in a torn list may never end, and nothing happens any more.

### NetFile and TftpClient

`NetFile` is what the boot loader's file calls promise: an open finds the size or fails, a read
copies the file's bytes at the position or fails. `TftpClient` is the code: `pc` is the loop
that waits (`send_rrq` for the answer to a request, `buf_fill` for a block), `call` the file
operation above it, `buf` the memory of the buffer. The network is a set of messages that
never shrinks, so that each may come at any time, again, or never. The server is external; it
grants the options of a request or ignores them, and each answered request begins a
transfer of its own. `out` is a history variable: what the last read copied.

| Run | Question | Bounds |
|---|---|---|
| `tftp` | `TypeOK`, `BufferIsFile`, `ReadsTheFile`, `CallsReturn` | see below |
| `tftp_seek` | violation: section 5 | callers seek anywhere (`AnySeek`) |

*Bounds.* Files of two and of five units, and a missing one; blocks of one unit, or of two if the
server grants it; a buffer of four, which a file of five does not fit in; numbers of blocks
modulo 6; one retransmission of a request and two of a packet; `MaxSessions` = 2 answers to the
requests of one port, `MaxCalls` = 3 opens and reads, `MaxRead` = 3 units each. An open, a
read and a read after rewinding are three calls; two transfers on a port are what
confuses it. About 800,000 states. Deadlock is not checked, as the calls run out.

`Seek` is a caller's assignment to `filepos` (`grub_seek` is commented out): `boot.c` goes to
the offsets that the headers of a kernel give. Without `AnySeek` callers go to the start of
the file or into what is buffered; what happens otherwise is section 5's.

*Fairness.* Weak fairness of `SendRrq`, `Timeout`, `Filled` and `Copy`: the loader is one
thread that goes on, and `await_reply` looks at the clock whenever no packet is waiting.
Nothing is promised of the network or the server.

### NetConfig

`pc` is the loop of `bootp` (awaiting an offer, awaiting the acknowledgement) or `rarp`;
`client` and `server` are the entries of `arptable`, which `await_reply` sets, `dhcp_reply` and
`dhcp_server` what `decode_rfc1533` found; `xid` tells the calls of `bootp` apart.

| Run | Question | Bounds |
|---|---|---|
| `dhcp` | `ReadyIsGranted`, `RequestsTheOffer` | two DHCP servers, one BOOTP and one RARP server with an address each, two retries, `MaxCalls` = 2 commands |

Two servers answer each other's requests; a second call has the late replies of the first.
Deadlock is not checked, as the commands run out.

## 4. Theorems

Proved for all values of the constants, in the `_proofs` modules, from the named
assumptions of the modules alone.

| Theorem | Of | Argument |
|---|---|---|
| `TypeCorrect` | `PackageBuild` | `TypeOK` is inductive; it is proved for files, flags and run apart |
| `StartProtocol`, `EarlierPartialsAreFetchedAnew` | `PackageBuild` | `StartInv`: partial archives are marked, and between the second test of the `.start` file and the unpacking a partial one was fetched by this run. Every step but those of `Download` keeps tarballs, markers and `fetched` (`NetKept`) |
| `FinishedArchivesStay` | `PackageBuild` | `GoodArchivesKept`, which no run checks: each step, from `TypeOK`: the tests that remove an archive ask for its mark or its size |
| `BuildokIsTrue` | `PackageBuild` | `MarkInv`: the marker is the last of stage, install and mark, so the invariant says at each of these steps what is in place; rebuilt and torn packages need their own conjuncts |
| `BuildenvEarned` | `PackageBuild` | `EarnInv`: `/tmp/break` is there exactly in a region that `#JUMP` opened (`Off`), every entry behind the loop's position has the outcome it should, and what was left out set the error flag, which the last test before `buildenv` looks at. Not inductive without it: the property speaks of the end of the loop only, and of the list, not of the position |
| `UpToDateIsCurrent` | `PackageBuild` | `EnvInv`: unless it was edited since its start, a run's list is the one on disk, and so is that of an up-to-date `buildenv` which no other target and no fast build has written since |
| `FinishPageEarned`, `StopNotLost`, `NothingStarts`, `StopsOnlyItsPage` | `TaskList` | `IInv`, along the background thread's stack: its first frame is the root's, and how far that has come says which tasks have completed (`RootInv`, `ListInv`); a task above another in the stack is in its subtasks (`TreeInv`); a cancelled or failed root starts no frame (`CancelInv`); when the flag is cleared under a waiting loop, a message is queued or about to be posted (`LoopInv`) |
| `StepsTypeCorrect` | `BuildFromSource` | inductive |
| `BuildtIsTrue`, `StepsInOrder` | `BuildFromSource` | `DoneInv`: the `.done` files are an initial segment of the steps except while they are being removed, after that was killed, or where an uninstallation passed them over (`FirstSteps`), the step at hand is the next one (`StepAtHand`), and each stands for work, a script that tells nothing, or an uninstallation under way (`WorkIsDone`) |
| `ImplementsStepwise` | `BuildFromSource` | under `DoneInv` each step maps to `Advance`, `Undo` (a removal of `.done` files that begins, or an uninstallation that is killed or passes a directory over) or a stutter of `StepwiseBuild`; `LeadingOfFirst` computes the progress of an initial segment |
| `TypeCorrect` | `WubiInstall` | with `Placed`: the directory worked on exists and, when uninstalling, is the registered one |
| `FilesRegistered`, `RegistrationStays` | `WubiInstall` | `KeyInv`: a registered directory is gone before the next installation begins, since `Start` uninstalls first, and nothing is copied before `create_uninstaller` |
| `RecordsAreTrue`, `CompletedBoots` | `WubiInstall` | `BootInv`: nothing is recorded from the settings page to the end of `modify_bcd`, what is recorded afterwards starts the registered directory, and boot files and loader precede it |
| `UninstallsWhole` | `WubiInstall` | `EntryInv`: every entry is the recorded one, or the one `modify_bcd` is at work on, and it is gone before the record is |
| `ReadyIsGrantedHolds`, `RequestsTheOfferHolds` | `NetConfig` | inductive together: replies are what servers send (`RepliesAreTyped`), and a network that is ready is not waiting for a reply (`ReadyIsIdle`), so that no late reply overwrites a granted address |
| `TypeCorrect`, `BufferHoldsFile` | `TftpClient`, without `AnySeek` | `IInv`: what is sent to the current port belongs to its request (`Net`), no block after the next one was sent unless the numbers are used up (`Near`), the buffer ends where the next block begins (`Received`), the position lies in the buffer (`Position`) and a known size is the file's (`Size`) |
| `ImplementsNetFile` | `TftpClient`, without `AnySeek` | under `IInv` each step maps to a step of `NetFile` or a stutter: most change nothing of a file, the ends of `buf_fill` end an open, `Copy` copies what `BufferIsFile` says is there |
| `SearchesFindTheSector` | `ExfatCache` | `SearchInv`: the pointers form one ring per head (`Shape`: each node in a list has an owner and a position in it, `next` goes one position down and `prev` back), each buffer with a sector is in the ring of its hash, and no two have the same one. A walk then meets every member of its ring before the head (`WalkMeetsAll`, by the least number of steps that does not), so a search ends and misses nothing |
| `LockedEntriesStay` | `ExfatCache` | `LockInv`: the sectors of the locked buffers are those of the locked entries at work, but for an outer one whose lock was cleared inside. Two at most, so a third buffer is there to take, and no victim is one of theirs |
| `CacheKeepsLastUsed` | `ExfatCache` | with `LockInv`: moving a buffer to an end of `lru` moves its sector in the mapped sequence (`SlotsToFront`, `SlotsToEnd`), so each step is one of `SectorCache` or a stutter |
| `AllocTakesAFreeCluster` | `ExfatAlloc` | `TestAlloc` goes through the bytes of the bitmap; what it finds is free (`TestAllocIs`), and the only free clusters it misses are those that the mask hides (`TestAllocStays`) |
| `DirectoryGrowsByOne`, `FileGrowsByOne`, `FileGetsItsFirst` | `ExfatVolume` | a chain is a sequence of distinct clusters (`Through`), and `NthCluster` and `ChainLen` compute it, whether it is a run or lies in the FAT (`NthThrough`, `ChainIs`). A new cluster behind a run makes the run longer; elsewhere the run is written into the FAT first (`ConvertIs`, `JoinIs`) |
| `MapFindsTheCluster` | `ExfatVolume` | the walk from the hint is the end of the walk from the start (`NthFrom`) |
| `TruncateFreesTheRest`, `RemovalFreesTheChain` | `ExfatVolume` | the clusters of the part cut off are those of the sequence behind the new end, and releasing them writes nothing else (`RestIsThrough`, `CutIsThrough`, `ReleaseIs`) |
| `OperationsKeepFilesApart` | `ExfatVolume` | `Inv`: each inode's chain is whole, no two meet, `used_clusters` counts, the root is where it was, and only directories are searched. An operation writes the bitmap and the FAT only at clusters of the inode it works on or at free ones, so every other chain stays (`StepOn`), also when it fails halfway; each operation has a lemma (`CreateKeeps`, ..., `RenameKeeps`). What loses clusters, or writes an entry away from its place, is a recorded fault |
| `FilesStayApart` | `ExfatVolume` | `Inv` is inductive by the previous theorem; a lookup makes an inode of what an entry says, hence the hypothesis `EntriesApart`, which the following theorems do without |
| `OperationsKeepTheCatalogue` | `ExfatVolume` | the inductive step of `Consistent`, see below |
| `NothingIsShared`, `UsedCountsTheBitmap`, `NamesAreFound`, `InodesAgree`, `NothingElseLeaks` | `ExfatVolume` | `Safe`: until the first fault there is a table of directories that makes the volume consistent. The properties speak of what the driver's own searches find; that these find what the catalogue has is `FindInIs`, `OwnersAre`, `OwnersApart` and `OwnersHaveAll` |

`OwnTasks` is what the theorems about `TaskList` assume of the tasks: the list has each task
once, a function makes the subtasks it adds, and the subtasks of a subtask's function add
none. The backend's are so: `tasklist.ThreadedTaskList` gets a list of new `Task` objects, and
the deepest addition is the check that a download adds. `CacheAssumption` says that the buffers
of `buf_cache_array` are distinct and that there are three of them and two lists at least, as
in `exfat_data.h`.

No more faults are exempted than needed: each one that `InstalledBoots` and
`UninstalledIsGone` exempt breaks `AddsBootEntry` or `NothingLeft` when it is the only
member of `Faults`.

### The catalogue of a volume

None of the properties of `ExfatVolume` is inductive. That files do not share clusters needs, of
an entry without an inode, that it tells of a whole chain, for a lookup will make an inode of it.
Whether an entry is found depends on the slots before it, and where a new one goes on a hint that
an earlier search has left. And a directory is a file itself: its chain must be whole for its
entries to be anywhere. `Consistent(v, ino, pnd, T)` says all of this at once, of the volume `v`, the
inodes `ino`, the names `pnd` that were looked up in vain, and a table `T` of the directories'
clusters: `Inv` of the clusters (`Good`), directories in order (`Ordered`), and `Dirs`, `NamesTrue`,
`DataTrue` and `HintTrue`. The table is not part of the state: it is what the entries of the
root tell, and each operation has to show the next one.

The proof is in layers.

1. *Slots.* What is written at a slot is seen at that place of its directory and nowhere else
   (`PutSlotsPatch`, `ViewsElsewhere`); writing an entry over deleted slots, wiping one out and
   changing a head keep a directory in order (`OverwriteInOrder`), and change the set of entries by
   that one (`PatchRewrites`, `WriteEntry`, `WipeEntry`, `WriteHead`, `RenameInPlace`).
2. *The catalogue.* A step of one inode and its entry, with the clusters that they give back and
   take (`NamesStep`, `DataStep`), leads from a catalogue to a catalogue (`CatalogueStep`). Here is
   the argument why others are not concerned, once for all operations.
3. *Searches.* `FindIs` and `SearchEmptyIs`: a lookup finds the entry of a name if there is
   one; the search for room finds deleted slots in a row, or unused ones, passes no room when it
   begins at the hint, and leaves a hint that is true.
4. *Growth.* When there is no room, the directory gets a cluster, its table entry one more, perhaps
   its run becomes a chain, the entry of a directory that is not the root is told, and the cluster
   is all unused (`GrowMade`, `FindEmptyMade`): the catalogue stays the same, though every place in
   the directory is known by another chain now.
5. *Operations.* Each is a composition of these with its failures: `LookupConsistent`,
   `CreateConsistent`, `MkdirConsistent`, `RemoveConsistent`, `TruncateConsistent`,
   `MapConsistent`, `WriteInodeConsistent`, ..., `RenameConsistent`. A renaming is the longest: within its
   slots, into new ones of the same directory or another, which may grow by it, over a target or
   none; a step in between has two entries for one inode, so `LeadsOver`, `LeadsAnew`,
   `CarvedMove` and `RenamesCatalogue` follow the places through both writes.

What these theorems say ends with the first fault, a leak included, as the fault is where the code
itself leaves `DataTrue` or `HomesTrue`.

Only model-checked: liveness (`RunEnds`, `RunTasksEnds`, `QuitEnds`, `CallsReturn`), since
fairness and `ENABLED` are beyond the proof system; of `ExfatVolume`, `TypeOK` and `KeepsItsPlace`,
and what `NoSharedCluster`, `UsedIsCount`, `NamesResolve` and `InodeAgrees` say behind a leak (`Sound`).

## 5. What the code does not keep

Each has a run that ends in a counterexample; `PROJECT.json` has the details.

| Run | Said | Done |
|---|---|---|
| `exfat_removed` | `exfat_core.c` 962: "ffsRemoveFile : remove a file", "(1) update the directory entry", "(2) free the clusters" | when a rename to a longer name has made the directory a chain, `rename_file` (4904) keeps the description of the directory from before, a run; the place of the new entry is then counted in the wrong clusters. A removal marks slots there as deleted, in the file's own data in the trace, and frees the clusters; the entry itself stays and names clusters that are free |
| `tftp_seek` | `fsys_tftp.c`: "FILEPOS has been moved backwards. So reopen the file." | the buffer is then empty and begins at 0; unless the position is 0, memory is copied that was not received. A seek forwards, to behind what is buffered, does the same at once, without a reopening |

The models hold more behaviour of this kind, which the properties exempt by name: a
locked target directory that `remove_target_dir` keeps and the next task unregisters
(`FilesAreRegistered`, `UninstalledIsGone`); a record of a boot entry that is gone after
`undo_bcd` was stopped between its two commands (`InstalledBoots`); a killed
`uninstall_package`, and one that passes over a directory without a dash (`Sound`); an edit of the
list under a run, or before another target's run or a fast build (`BuildenvIsCurrent`);
git entries, which FORCEBUILD does not rebuild (`GitSkip`); an opkg file of another
package, or of one that was uninstalled, taken for the package's own (`OpkgFound`); a
meson package that is never staged (`ScriptFails`); a package that was staged and never
installed, of which `db-autobuild` says "built OK"; entries after a failed one, which
NOTEXIT drops untried; a status FAILED that triggers no callback; a boot entry that was created and not recorded, and one not created
because a directory removed by hand has a record; a rename onto a file and writes that
fail or have no name, which lose clusters (`LeaksAreKnown`); a hint that denies the room a
directory has (`NamesResolve`); a refusal of a DHCP server that counts as success
(`Refused`); files of more blocks than there are numbers, which cannot be read.

The lists of the exFAT driver's cache deserve a word. `__buf_getblk` takes a buffer whose read
failed out of its hash list, and leaves the pointers in the buffer. When the buffer is used
again, `buf_cache_remove_hash` takes it out a second time. It is the first to be used again,
and then nothing has changed; but `buf_release`, which the removal of a directory calls, puts
other buffers behind it. If one of them was put into the same list meanwhile, the
second removal drops it from the list, or ties the list into a ring without its head: a sector
is then read into two buffers, or `buf_cache_find` never ends, with `b_sem` held. The run
`cache` reaches this, and its properties are stated up to it (`torn`).

## 6. What is left out of the modelled components

* `PackageBuild`: what is specific to single packages in `db-autobuild` (options, patches,
  environment variables), the architecture switches, the contents of packages, two
  runs at the same time, `modperl` entries.
* `BuildFromSource`: unpacking and the choice of a source directory in `build_archive`; the
  trigger scripts of single packages; patches as such (see the hazards).
* `TaskList`: names, times and percentages of tasks, the pages before and after, what the
  tasks' functions do. A function reports a bounded number of times (`Reports`).
* `WubiInstall`: EFI, boot.ini and config.sys; registry calls that fail; a machine without
  bcdedit; rebooting; the contents of the installation; the tasks between `get_iso` and
  `modify_bootloader` are one step since they work below the target directory only.
* `ExfatVolume`: volumes of type FAT12, FAT16 and FAT32; names as character strings, their
  hashes and the upcase table; symbolic links, `readdir`, attributes and times; directories in
  directories; growth by truncate (`cont_expand`); the device's errors, which
  `ExfatCache` has; what is written when, the flag `VOL_CLEAN` and crashes.
* `ExfatCache`: what is in the sectors, and when it is written; the FAT cache, which is the same
  cache without locks and releases. Locks go two deep, as `exfat_core.c` uses them.
* `TftpClient` and `NetConfig`: the network cards; ARP and UDP as packets, checksums; netmask and
  gateway; the extension file that a DHCP option names, and the menu file loaded after
  `bootp`; PXE. Of `disk_io.c`, `boot.c` and `builtins.c` only the functions that these two modules name.
* `TftpClient`: packets that a server has no reason to send. One that is neither OACK, data nor error
  makes `buf_fill` return 1 (`fsys_tftp.c` 207-209); if it came before an OACK with the file's size,
  that size would be added to while the blocks are counted. A block larger than was granted is
  ignored, but leaves its length in `len`, with which the request is sent again (194-203, 79).
