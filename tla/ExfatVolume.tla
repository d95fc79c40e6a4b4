----------------------------- MODULE ExfatVolume -----------------------------
(***************************************************************************)
(* The exFAT driver of the 2.10 tools: directories, files and the inodes   *)
(* the kernel keeps of them (exfat_core.c, exfat_super.c).  Every ffs      *)
(* operation runs under v_sem (exfat_api.c), so each is one step; between  *)
(* them anything may happen.                                               *)
(*                                                                         *)
(* Sizes are counted in clusters.  A slot stands for directory entries: a  *)
(* head is a file entry with its stream entry, ext a further entry that    *)
(* carries its name.  Volumes are FAT64 ones (vol_type EXFAT) and          *)
(* directories exist in the root only: a bound, named MaxDepth in README.  *)
(***************************************************************************)
EXTENDS ExfatAlloc

CONSTANTS SlotsPerClu,   \* dentries_per_clu
          Names,         \* file names
          NameLen,       \* [Names -> Nat]: slots an entry of that name takes
          Inodes, Root,  \* in-core inodes; the root directory's
          SystemClus,    \* clusters of the bitmap and the upcase table
          RootClu,       \* root_dir
          Disks,         \* volumes that may be mounted at first
          MaxSize,       \* bound: clusters of a file
          MaxOps         \* bound: operations that change the volume

ASSUME VolumeAssumption ==
    /\ SlotsPerClu \in Nat \ {0}
    /\ NameLen \in [Names -> 1 .. SlotsPerClu]
    /\ Root \in Inodes
    /\ SystemClus \subseteq Clusters /\ RootClu \in Clusters \ SystemClus
    /\ MaxSize \in Nat /\ MaxOps \in Nat

VARIABLES
    vol,      \* the volume and FS_INFO_T: the fields of ExfatAlloc, slots and hint
    inode,    \* the in-core inodes with their FILE_ID_T
    pending,  \* a directory's name looked up in vain: its i_mutex is held for it
    done,     \* bound: how many operations have changed the volume, at most MaxOps
    faults    \* history: what went wrong already; only a leak is followed further

vars == <<vol, inode, pending, done, faults>>

-----------------------------------------------------------------------------
(* Slots and inodes.                                                       *)

Unused == [type |-> "unused"]
Deleted == [type |-> "deleted"]
Ext == [type |-> "ext"]
Data == [type |-> "data"]          \* the contents of anything but a directory
NewHead(type, name, flags, clu, size) ==
    [type |-> type, name |-> name, flags |-> flags, clu |-> clu, size |-> size]

IsEmpty(s) == s.type \in {"unused", "deleted"}
IsHead(s) == s.type \in {"file", "dir"}

Block(C, s) == [loc \in C \X (0 .. SlotsPerClu - 1) |-> s]    \* clusters full of s

Chain(dir, size, flags) == [dir |-> dir, size |-> size, flags |-> flags]
NoChain == Chain(EOC, 0, 3)
NoHint == [dir |-> EOC, entry |-> -1, clu |-> NoChain]

Free == [st |-> "free"]
Linked(i) == inode[i].st = "linked"
Orphan(i) == inode[i].st = "orphan"
IsDir(i) == inode[i].type = "dir"

\* resolve_path, and clu_to_free: the clusters of an inode.
ChainOf(f) == Chain(f.start, f.size, f.flags)

None == "none"

ASSUME NoneAssumption == None \notin Names /\ None \notin Inodes

-----------------------------------------------------------------------------
(* Directory entries, found through a CHAIN_T p and an index e.            *)

\* find_location; a location with a cluster outside the volume reads as NULL.
Locate(v, p, e) == <<NthCluster(v, p, e \div SlotsPerClu), e % SlotsPerClu>>

SlotAt(v, loc) == IF loc[1] \in Clusters THEN v.slots[loc] ELSE Data

Slot(v, p, e) == SlotAt(v, Locate(v, p, e))

\* n slots from index e get the values of seq.
PutSlots(v, p, e, seq) ==
    LET puts == {[loc |-> Locate(v, p, e + m - 1), slot |-> seq[m]] : m \in DOMAIN seq}
        here == {w \in puts : w.loc[1] \in Clusters}
        written == [loc \in {w.loc : w \in here} |-> (CHOOSE w \in here : w.loc = loc).slot]
    IN [v EXCEPT !.slots = Over(written, @)]

\* init_dir_entry and init_ext_entry.
PutEntry(v, p, e, head) ==
    PutSlots(v, p, e, [m \in 1 .. NameLen[head.name] |-> IF m = 1 THEN head ELSE Ext])

\* get_entry_set_in_dir succeeds: a head and all the entries it announces.
EntrySet(v, p, e) ==
    LET h == Slot(v, p, e)
    IN IsHead(h) /\ \A m \in 1 .. NameLen[h.name] - 1 : Slot(v, p, e + m) = Ext

\* count_ext_entries, plus one: the announced entries that are really there.
EntryLength(v, p, e) ==
    LET h == Slot(v, p, e)
        n == IF IsHead(h) THEN NameLen[h.name] ELSE 1
    IN CHOOSE k \in 1 .. n : /\ \A m \in 1 .. k - 1 : Slot(v, p, e + m) = Ext
                             /\ k = n \/ Slot(v, p, e + k) # Ext

\* Mutant of DeleteEntry: the slots look as if they had never been used.
DeleteAsUnused(v, p, e, order, n) ==
    PutSlots(v, p, e + order, [m \in 1 .. n - order |-> Unused])

\* delete_dir_entry from the slot after order on.
DeleteEntry(v, p, e, order, n) ==
    PutSlots(v, p, e + order, [m \in 1 .. n - order |-> Deleted])

\* remove_file: nothing happens when there is no such sector.
RemoveEntry(v, p, e) ==
    IF Locate(v, p, e)[1] \notin Clusters THEN v
    ELSE DeleteEntry(v, p, e, 0, EntryLength(v, p, e))

\* The directory as find_dir_entry and its like walk it.
Scan(v, p) == [j \in 0 .. ChainLen(v, p) * SlotsPerClu - 1 |-> Slot(v, p, j)]

\* The rest of a chain from its k-th cluster on, as clu of the loops.
Rest(v, p, k) ==
    Chain(NthCluster(v, p, k), IF p.flags = 3 THEN p.size - k ELSE p.size, p.flags)

Least(S) == CHOOSE x \in S : \A y \in S : x <= y

\* Where the run of empty slots that ends at j begins.
RunStart(s, j) == Least({i \in 0 .. j : \A k \in i .. j : IsEmpty(s[k])})

\* exfat_find_dir_entry, in slots s: stops at the first unused slot; notes in
\* hint_uentry where the next entry of this length can go.
FindIn(s, v, p, name) ==
    LET seen == {j \in DOMAIN s : \A k \in 0 .. j - 1 : s[k] # Unused}
        hits == {j \in seen : IsHead(s[j]) /\ s[j].name = name /\
                              \A m \in 1 .. NameLen[name] - 1 : j + m \in seen /\ s[j + m] = Ext}
        room == {j \in seen : /\ IsEmpty(s[j])
                              /\ s[j] = Unused \/ j - RunStart(s, j) + 1 >= NameLen[name]}
        at == RunStart(s, Least(room))
    IN IF hits # {} THEN [entry |-> Least(hits), v |-> [v EXCEPT !.hint = NoHint]]
       ELSE [entry |-> -2,
             v |-> [v EXCEPT !.hint =
                 IF room = {} THEN [dir |-> p.dir, entry |-> -1, clu |-> NoChain]
                 ELSE [dir |-> p.dir, entry |-> at, clu |-> Rest(v, p, at \div SlotsPerClu)]]]

FindDirEntry(v, p, name) == FindIn(Scan(v, p), v, p, name)

\* search_deleted_or_unused_entry: from the hint if it is of this directory.
SearchIn(s, from, mine, v, p, n) ==
    LET base == (from \div SlotsPerClu) * SlotsPerClu
        fits == {j \in DOMAIN s : /\ base + j >= from
                                  /\ \A k \in j .. j + n - 1 : k \in DOMAIN s /\ IsEmpty(s[k])}
        fresh == {j \in DOMAIN s : s[j] = Unused}
    IN IF mine /\ v.hint.entry = -1 THEN [entry |-> -1, v |-> v]
       ELSE IF fits # {}
       THEN [entry |-> base + Least(fits), v |-> [v EXCEPT !.hint = NoHint]]
       ELSE IF mine THEN [entry |-> -1, v |-> v]
       ELSE IF fresh = {}
       THEN [entry |-> -1, v |-> [v EXCEPT !.hint.entry = -1, !.hint.clu = NoChain]]
       ELSE [entry |-> -1,
             v |-> [v EXCEPT !.hint = [dir |-> p.dir, entry |-> Least(fresh),
                                       clu |-> Rest(v, p, Least(fresh) \div SlotsPerClu)]]]

SearchEmpty(v, p, n) ==
    IF v.hint.dir = p.dir THEN SearchIn(Scan(v, v.hint.clu), v.hint.entry, TRUE, v, p, n)
    ELSE SearchIn(Scan(v, p), 0, FALSE, v, p, n)

-----------------------------------------------------------------------------
(* Room for an entry, and for data.                                        *)

\* The growing branch of find_empty_entry: the cluster a goes to directory d,
\* whose chain is p.  A cluster elsewhere turns a contiguous run into a chain.
GrowBy(a, v, ino, d, p) ==
    LET last == LastCluster(v, p)
        q == Chain(p.dir, p.size + 1, a.flags)
        cleared == [a.v EXCEPT !.slots = Over(Block({a.clu}, Unused), @)]
        chained == IF a.flags # p.flags
                   THEN [ChainCont(cleared, p.dir, p.size) EXCEPT !.hint.clu.flags = 1]
                   ELSE cleared
        linked == IF a.flags = 1 THEN [chained EXCEPT !.fat[last] = a.clu] ELSE chained
        Longer(h) == IF h.entry = -1
                     THEN [dir |-> p.dir, entry |-> p.size * SlotsPerClu,
                           clu |-> Chain(a.clu, 1, a.flags)]
                     ELSE [h EXCEPT !.clu.size = h.clu.size + 1]
        hinted == [linked EXCEPT !.hint = Longer(linked.hint)]
        f == ino[d]
        head == Slot(hinted, f.dir, f.entry)
    IN IF a.clu = EOC THEN [ok |-> FALSE, v |-> a.v, ino |-> ino, p |-> p]
       ELSE [ok |-> TRUE, p |-> q,
             v |-> IF p.dir = RootClu THEN hinted
                   ELSE PutSlots(hinted, f.dir, f.entry,
                            <<[head EXCEPT !.size = f.size + 1, !.flags = q.flags]>>),
             ino |-> [ino EXCEPT ![d].size = @ + 1, ![d].flags = q.flags]]

Grow(v, ino, d, p) == GrowBy(AllocCluster(v, LastCluster(v, p) + 1, p.flags), v, ino, d, p)

\* find_empty_entry; NameLen <= SlotsPerClu, so one more cluster is room enough.
FindEmpty(v, ino, d, p, n) ==
    LET Found(s, i, q) == [entry |-> s.entry, v |-> s.v, ino |-> i, p |-> q]
        Grown(g) == IF g.ok THEN Found(SearchEmpty(g.v, g.p, n), g.ino, g.p)
                    ELSE Found([entry |-> -1, v |-> g.v], g.ino, g.p)
        Searched(s) == IF s.entry >= 0 THEN Found(s, ino, p) ELSE Grown(Grow(s.v, ino, d, p))
    IN Searched(SearchEmpty(v, p, n))

\* Clusters given back hold data of nobody.
Release(v, p) ==
    LET r == FreeCluster(v, p)
    IN [r EXCEPT !.slots = Over(Block(v.bitmap \ r.bitmap, Data), @)]

\* The slots that are really those of inode i: found by its name in its parent.
AtHome(v, ino, i) ==
    LET f == ino[i]
        q == ChainOf(ino[f.parent])
        s == Scan(v, q)
    IN /\ f.st = "linked"
       /\ \E e \in DOMAIN s : /\ IsHead(s[e]) /\ s[e].name = f.name
                              /\ \A m \in 0 .. NameLen[f.name] - 1 :
                                    Locate(v, f.dir, f.entry + m) = Locate(v, q, e + m)

\* ffsMapCluster: the cluster at an offset, allocated if the chain ends there.
\* What it changes of the entry is the first cluster and the flags, never the size.
\* MapTo is the part after the search: clu was found, or a is what is allocated
\* behind last.
MapTo(clu, last, a, v, f, off) ==
    LET conv == last # EOC /\ a.flags # f.flags
        w1 == IF conv THEN ChainCont(a.v, f.start, f.size) ELSE a.v
        w2 == IF last # EOC /\ a.flags = 1 THEN [w1 EXCEPT !.fat[last] = a.clu] ELSE w1
        g == [f EXCEPT !.flags = IF conv \/ (last = EOC /\ a.flags = 1) THEN 1 ELSE @,
                       !.start = IF last = EOC THEN a.clu ELSE @]
        head == Slot(w2, f.dir, f.entry)
        w3 == IF last = EOC \/ conv
              THEN PutSlots(w2, f.dir, f.entry,
                            <<[head EXCEPT !.flags = g.flags, !.clu = g.start]>>)
              ELSE w2
        Remember(h, c) == [h EXCEPT !.hoff = off, !.hclu = c]
    IN IF clu # EOC THEN [ok |-> TRUE, v |-> v, f |-> Remember(f, clu), wrote |-> FALSE]
       ELSE IF a.clu = EOC THEN [ok |-> FALSE, v |-> a.v, f |-> f, wrote |-> FALSE]
       ELSE IF ~EntrySet(w2, f.dir, f.entry)
       THEN [ok |-> FALSE, v |-> w2, f |-> g, wrote |-> FALSE]
       ELSE [ok |-> TRUE, v |-> w3, f |-> Remember(g, a.clu),
             wrote |-> last = EOC \/ conv]

MapCluster(v, f, off) ==
    LET hinted == off > 0 /\ f.hoff > 0 /\ off >= f.hoff
        from == Chain(IF hinted THEN f.hclu ELSE f.start, 0, 1)
        steps == IF hinted THEN off - f.hoff ELSE off
        clu == IF f.start = EOC \/ (f.flags = 3 /\ off > 0 /\ off = f.size) THEN EOC
               ELSE IF f.flags = 3 THEN f.start + off
               ELSE NthCluster(v, from, steps)
        last == IF f.start = EOC THEN EOC
                ELSE IF f.flags = 3 THEN f.start + off - 1
                ELSE NthCluster(v, from, steps - 1)
        Behind(l) == AllocCluster(v, IF l = EOC THEN EOC ELSE l + 1, f.flags)
    IN MapTo(clu, last, Behind(last), v, f, off)

-----------------------------------------------------------------------------
(* The volume as ffsMountVol finds it: exfat_mount starts its hints anew.  *)

Mounted(v) == [bitmap |-> v.bitmap, fat |-> v.fat, slots |-> v.slots,
               srch |-> 2, used |-> Unknown, hint |-> NoHint]

NewInode(type, name, parent, dir, entry, flags, start, size) ==
    [st |-> "linked", type |-> type, name |-> name, parent |-> parent, dir |-> dir,
     entry |-> entry, flags |-> flags, start |-> start, size |-> size,
     hoff |-> -1, hclu |-> EOC, dirty |-> FALSE]

\* exfat_read_root.
RootInode(v) ==
    [NewInode("dir", None, Root, Chain(RootClu, 0, 1), -1, 1, RootClu, 0)
        EXCEPT !.size = ChainLen(v, Chain(RootClu, 0, 1))]

Init ==
    /\ vol \in {Mounted(v) : v \in Disks}
    /\ inode = [i \in Inodes |-> IF i = Root THEN RootInode(vol) ELSE Free]
    /\ pending = [i \in Inodes |-> None]
    /\ done = 0 /\ faults = {}

\* The directories a system call can name, the mutex of the directory at hand.
OpenDir(d) == Linked(d) /\ IsDir(d)
Positive(d, name) == {i \in Inodes : Linked(i) /\ i # Root /\ inode[i].parent = d
                                    /\ inode[i].name = name}

Change == done < MaxOps /\ done' = done + 1

\* An operation on the entries of inodes that are not at home there: it writes
\* to the entry of another file, or finds none and the file keeps the old one.
Strays(ino, S) == IF \A i \in S : AtHome(vol, ino, i) THEN {} ELSE {"stray entry"}
Misses(i) == IF Linked(i) THEN {"no entry"} ELSE {}

\* The hint says of this directory that it is full, and it is not.
Lies(v, p) ==
    IF v.hint.dir = p.dir /\ v.hint.entry = -1 /\ \E j \in DOMAIN Scan(v, p) : Scan(v, p)[j] = Unused
    THEN {"false hint"} ELSE {}

-----------------------------------------------------------------------------
(* exfat_lookup, with no dentry cached: negative dentries never are         *)
(* (__exfat_revalidate), and the mutex of the directory is kept from a      *)
(* negative lookup to the create or rename it was made for, if any.        *)

Lookup(d, name) ==
    /\ OpenDir(d) /\ pending[d] = None /\ Positive(d, name) = {}
    /\ \E r \in {FindDirEntry(vol, ChainOf(inode[d]), name)} :
       LET p == ChainOf(inode[d])
           h == Slot(vol, p, r.entry)
           empty == h.type = "file" /\ h.size = 0
       IN /\ vol' = r.v
          /\ IF r.entry < 0
             THEN pending' = [pending EXCEPT ![d] = name] /\ UNCHANGED inode
             ELSE /\ \E i \in Inodes :
                        /\ inode[i].st = "free"
                        /\ inode' = [inode EXCEPT ![i] =
                              NewInode(h.type, name, d, p, r.entry,
                                       IF empty THEN 3 ELSE h.flags,
                                       IF empty THEN EOC ELSE h.clu, h.size)]
                  /\ UNCHANGED pending
    /\ UNCHANGED <<done, faults>>

Abandon(d) ==
    /\ pending[d] # None
    /\ pending' = [pending EXCEPT ![d] = None]
    /\ UNCHANGED <<vol, inode, done, faults>>

\* exfat_create: create_file, then an inode that holds what was made.
Create(d) ==
    /\ Change /\ pending[d] # None
    /\ \E i \in Inodes :
        /\ inode[i].st = "free"
        /\ \E e \in {FindEmpty(vol, inode, d, ChainOf(inode[d]), NameLen[pending[d]])} :
           LET name == pending[d]
           IN IF e.entry < 0
              THEN vol' = e.v /\ inode' = e.ino
              ELSE /\ vol' = PutEntry(e.v, e.p, e.entry, NewHead("file", name, 1, Nil, 0))
                   /\ inode' = [e.ino EXCEPT ![i] =
                          NewInode("file", name, d, e.p, e.entry, 3, EOC, 0)]
    /\ pending' = [pending EXCEPT ![d] = None]
    /\ faults' = faults \cup Lies(vol, ChainOf(inode[d]))

\* Mutant of Mkdir: the cluster is taken before the entry.
MkdirClusterFirst(d) ==
    /\ Change /\ pending[d] # None /\ d = Root
    /\ \E i \in Inodes :
        /\ inode[i].st = "free"
        /\ \E a \in {AllocCluster(vol, EOC, 3)} :
           \E e \in {FindEmpty(a.v, inode, d, ChainOf(inode[d]), NameLen[pending[d]])} :
           LET name == pending[d]
               cleared == [e.v EXCEPT !.slots = Over(Block({a.clu}, Unused), @)]
           IN IF e.entry < 0 \/ a.clu = EOC
              THEN /\ vol' = e.v
                   /\ inode' = e.ino
              ELSE /\ vol' = PutEntry(cleared, e.p, e.entry, NewHead("dir", name, 3, a.clu, 1))
                   /\ inode' = [e.ino EXCEPT ![i] =
                          NewInode("dir", name, d, e.p, e.entry, 3, a.clu, 1)]
    /\ pending' = [pending EXCEPT ![d] = None]
    /\ faults' = faults \cup Lies(vol, ChainOf(inode[d]))

\* exfat_mkdir: create_dir takes the entry before the cluster.
Mkdir(d) ==
    /\ Change /\ pending[d] # None /\ d = Root
    /\ \E i \in Inodes :
        /\ inode[i].st = "free"
        /\ \E e \in {FindEmpty(vol, inode, d, ChainOf(inode[d]), NameLen[pending[d]])} :
           \E a \in {AllocCluster(e.v, EOC, 3)} :
           LET name == pending[d]
               cleared == [a.v EXCEPT !.slots = Over(Block({a.clu}, Unused), @)]
           IN IF e.entry < 0 \/ a.clu = EOC
              THEN /\ vol' = IF e.entry < 0 THEN e.v ELSE a.v
                   /\ inode' = e.ino
              ELSE /\ vol' = PutEntry(cleared, e.p, e.entry, NewHead("dir", name, 3, a.clu, 1))
                   /\ inode' = [e.ino EXCEPT ![i] =
                          NewInode("dir", name, d, e.p, e.entry, 3, a.clu, 1)]
    /\ pending' = [pending EXCEPT ![d] = None]
    /\ faults' = faults \cup Lies(vol, ChainOf(inode[d]))

\* exfat_unlink: the entry goes first, then the clusters.  An inode still held
\* keeps the place of its entry, and its length.
Unlink(i, held) ==
    /\ Change /\ Linked(i) /\ ~IsDir(i) /\ pending[inode[i].parent] = None
    /\ LET f == inode[i]
       IN /\ Locate(vol, f.dir, f.entry)[1] \in Clusters
          /\ vol' = Release(RemoveEntry(vol, f.dir, f.entry), ChainOf(f))
          /\ inode' = [inode EXCEPT ![i] =
                IF held THEN [@ EXCEPT !.st = "orphan", !.flags = 3, !.start = EOC] ELSE Free]
    /\ faults' = faults \cup Strays(inode, {i})
    /\ UNCHANGED pending

\* is_dir_empty: no entry before the first unused slot.
IsDirEmpty(v, p) ==
    LET s == Scan(v, p)
    IN \A j \in DOMAIN s : IsHead(s[j]) => \E k \in 0 .. j - 1 : s[k] = Unused

\* exfat_rmdir.
Rmdir(i, held) ==
    /\ Change /\ Linked(i) /\ IsDir(i) /\ i # Root
    /\ pending[i] = None /\ pending[inode[i].parent] = None
    /\ LET f == inode[i]
       IN /\ held \/ \A j \in Inodes : inode[j].st # "free" => inode[j].parent # i
          /\ IsDirEmpty(vol, ChainOf(f))
          /\ vol' = Release(RemoveEntry(vol, f.dir, f.entry), ChainOf(f))
          /\ inode' = [inode EXCEPT ![i] =
                IF held THEN [@ EXCEPT !.st = "orphan", !.flags = 3, !.start = EOC] ELSE Free]
    /\ faults' = faults \cup Strays(inode, {i})
    /\ UNCHANGED pending

-----------------------------------------------------------------------------
(* exfat_rename.                                                           *)

\* update_parent_info: the directory may have grown since the file was found.
Refreshed(f, ino) == [f EXCEPT !.dir = ChainOf(ino[f.parent])]

\* rename_file and move_file: the head of inode i's entry under its new name.
Renamed(v, f, name) == [Slot(v, f.dir, f.entry) EXCEPT !.name = name]

\* rename_file, in one directory: a longer name needs a new place, which is
\* looked for in p, a copy of f.dir; only its index comes back to the inode.
RenameFile(v, ino, i, name) ==
    LET f == ino[i]
        head == Renamed(v, f, name)
        old == EntryLength(v, f.dir, f.entry)
        To(e) == IF e.entry < 0 THEN [ok |-> FALSE, v |-> e.v, ino |-> e.ino]
                 ELSE [ok |-> TRUE,
                       v |-> DeleteEntry(PutEntry(e.v, e.p, e.entry, head), e.p, f.entry, 0, old),
                       ino |-> [e.ino EXCEPT ![i].entry = e.entry]]
    IN IF old >= NameLen[name]
       THEN [ok |-> TRUE, ino |-> ino,
             v |-> DeleteEntry(PutEntry(v, f.dir, f.entry, head),
                               f.dir, f.entry, NameLen[name], old)]
       ELSE To(FindEmpty(v, ino, f.parent, f.dir, NameLen[name]))

\* Mutant of MoveFile: the inode keeps the old directory.
MoveFileKeepsDir(v, ino, i, d, name) ==
    LET f == ino[i]
        old == EntryLength(v, f.dir, f.entry)
        To(e) == IF e.entry < 0 THEN [ok |-> FALSE, v |-> e.v, ino |-> e.ino]
                 ELSE [ok |-> TRUE,
                       v |-> DeleteEntry(PutEntry(e.v, e.p, e.entry, Renamed(v, f, name)),
                                         f.dir, f.entry, 0, old),
                       ino |-> [e.ino EXCEPT ![i].entry = e.entry]]
    IN To(FindEmpty(v, ino, d, ChainOf(ino[d]), NameLen[name]))

\* move_file, to directory d.
MoveFile(v, ino, i, d, name) ==
    LET f == ino[i]
        old == EntryLength(v, f.dir, f.entry)
        To(e) == IF e.entry < 0 THEN [ok |-> FALSE, v |-> e.v, ino |-> e.ino]
                 ELSE [ok |-> TRUE,
                       v |-> DeleteEntry(PutEntry(e.v, e.p, e.entry, Renamed(v, f, name)),
                                         f.dir, f.entry, 0, old),
                       ino |-> [e.ino EXCEPT ![i].dir = e.p, ![i].entry = e.entry]]
    IN To(FindEmpty(v, ino, d, ChainOf(ino[d]), NameLen[name]))

\* A target keeps its clusters, and what its inode knew of its entry.
Rename(i, d, name, held) ==
    LET p == inode[i].parent
        targets == Positive(d, name)
        fresh == [j \in Inodes |-> IF j \in targets \cup {i} THEN Refreshed(inode[j], inode)
                                   ELSE inode[j]]
        Gone(v, f) == DeleteEntry(v, f.dir, f.entry, 0, EntryLength(v, f.dir, f.entry))
    IN /\ Change /\ Linked(i) /\ i # Root /\ OpenDir(d) /\ i \notin targets
       /\ p # d => pending[p] = None
       /\ pending[d] = IF targets = {} THEN name ELSE None
       /\ IsDir(i) => d = Root
       /\ \A t \in targets :
              /\ inode[t].type = inode[i].type
              /\ IsDir(t) => pending[t] = None /\ IsDirEmpty(vol, ChainOf(inode[t]))
              /\ held \/ \A j \in Inodes : inode[j].st # "free" => inode[j].parent # t
       /\ targets = {} => ~held
       /\ \E r \in {IF p = d THEN RenameFile(vol, fresh, i, name)
                    ELSE MoveFile(vol, fresh, i, d, name)} :
          /\ IF ~r.ok
             THEN vol' = r.v /\ inode' = r.ino
             ELSE /\ vol' = IF targets = {} THEN r.v
                            ELSE Gone(r.v, r.ino[CHOOSE t \in targets : TRUE])
                  /\ inode' = [j \in Inodes |->
                        IF j = i
                        THEN [r.ino[j] EXCEPT !.parent = d, !.name = name, !.dirty = TRUE]
                        ELSE IF j \in targets
                        THEN IF held THEN [r.ino[j] EXCEPT !.st = "orphan"] ELSE Free
                        ELSE r.ino[j]]
          /\ faults' = faults \cup Strays(fresh, targets \cup {i}) \cup
                 (IF r.ok /\ \E t \in targets : inode[t].start # EOC THEN {"leak"} ELSE {}) \cup
                 (IF p # d \/ NameLen[inode[i].name] < NameLen[name]
                  THEN Lies(vol, ChainOf(inode[d])) ELSE {})
       /\ pending' = [pending EXCEPT ![d] = None]

-----------------------------------------------------------------------------
(* Reads, writes and sizes.  They need an inode, not a name.                *)

HasData(i) == inode[i].st # "free" /\ inode[i].type = "file"

\* A file without a name has lost its clusters, not its length: what it is given
\* instead is one cluster, and the next ones are taken to be its own as well.
Loses(i) == IF Orphan(i) /\ inode[i].start = EOC /\ inode[i].size > 0
            THEN {"lost data"} ELSE {}

\* exfat_get_block, within the length or for one more cluster.
Map(i, off, size) ==
    \E m \in {MapCluster(vol, inode[i], off)} :
    LET grown == m.v.bitmap # vol.bitmap
    IN /\ vol' = m.v
       /\ inode' = [inode EXCEPT ![i] = IF m.ok /\ size # @.size
                                       THEN [m.f EXCEPT !.size = size, !.dirty = TRUE]
                                       ELSE m.f]
       /\ faults' = faults \cup Loses(i) \cup
              (IF m.wrote THEN Strays(inode, {i}) ELSE {}) \cup
              (IF grown /\ ~m.ok THEN Misses(i) ELSE {}) \cup
              (IF grown /\ (Orphan(i) \/ size = off) THEN {"leak"} ELSE {})
       /\ UNCHANGED pending

Read(i, off) ==
    /\ HasData(i) /\ off < inode[i].size
    /\ Map(i, off, inode[i].size)
    /\ UNCHANGED done

\* exfat_write_begin and exfat_write_end, past the end.
Write(i) ==
    /\ Change /\ HasData(i) /\ inode[i].size < MaxSize
    /\ Map(i, inode[i].size, inode[i].size + 1)

\* The data could not be copied: exfat_write_failed cuts back to i_size, which
\* is what the length already is, so that ffsTruncateFile returns at once.
WriteFails(i) ==
    /\ Change /\ HasData(i) /\ inode[i].size < MaxSize
    /\ MapCluster(vol, inode[i], inode[i].size).ok
    /\ Map(i, inode[i].size, inode[i].size)

\* Mutant of Truncate: of a run the last cluster that is kept is freed as well.
TruncateOneMore(i, size) ==
    /\ Change /\ HasData(i) /\ size < inode[i].size
    /\ LET f == inode[i]
           chained == f.flags = 1 /\ size > 0
           cut == Chain(IF size = 0 THEN f.start
                        ELSE IF chained THEN NthCluster(vol, ChainOf(f), size)
                        ELSE f.start + size - 1,
                        IF chained THEN f.size ELSE f.size - size, f.flags)
           last == NthCluster(vol, ChainOf(f), size - 1)
           g == [f EXCEPT !.size = size, !.dirty = TRUE,
                          !.flags = IF size = 0 THEN 3 ELSE @,
                          !.start = IF size = 0 THEN EOC ELSE @]
           head == Slot(vol, f.dir, f.entry)
           told == PutSlots(vol, f.dir, f.entry, <<IF size = 0
                       THEN [head EXCEPT !.size = 0, !.flags = 1, !.clu = Nil]
                       ELSE [head EXCEPT !.size = size]>>)
       IN IF EntrySet(vol, f.dir, f.entry)
          THEN /\ vol' = Release(IF chained THEN [told EXCEPT !.fat[last] = EOC] ELSE told, cut)
               /\ inode' = [inode EXCEPT ![i] = [g EXCEPT !.hoff = -1, !.hclu = EOC]]
               /\ faults' = faults \cup Strays(inode, {i})
          ELSE /\ inode' = [inode EXCEPT ![i] = g]
               /\ faults' = faults \cup Misses(i)
               /\ UNCHANGED vol
    /\ UNCHANGED pending

\* exfat_setattr with a smaller size: truncate_setsize, ffsTruncateFile.
Truncate(i, size) ==
    /\ Change /\ HasData(i) /\ size < inode[i].size
    /\ LET f == inode[i]
           chained == f.flags = 1 /\ size > 0
           cut == Chain(IF size = 0 THEN f.start
                        ELSE IF chained THEN NthCluster(vol, ChainOf(f), size)
                        ELSE f.start + size,
                        IF chained THEN f.size ELSE f.size - size, f.flags)
           last == NthCluster(vol, ChainOf(f), size - 1)
           g == [f EXCEPT !.size = size, !.dirty = TRUE,
                          !.flags = IF size = 0 THEN 3 ELSE @,
                          !.start = IF size = 0 THEN EOC ELSE @]
           head == Slot(vol, f.dir, f.entry)
           told == PutSlots(vol, f.dir, f.entry, <<IF size = 0
                       THEN [head EXCEPT !.size = 0, !.flags = 1, !.clu = Nil]
                       ELSE [head EXCEPT !.size = size]>>)
       IN IF EntrySet(vol, f.dir, f.entry)
          THEN /\ vol' = Release(IF chained THEN [told EXCEPT !.fat[last] = EOC] ELSE told, cut)
               /\ inode' = [inode EXCEPT ![i] = [g EXCEPT !.hoff = -1, !.hclu = EOC]]
               /\ faults' = faults \cup Strays(inode, {i})
          ELSE /\ inode' = [inode EXCEPT ![i] = g]
               /\ faults' = faults \cup Misses(i)
               /\ UNCHANGED vol
    /\ UNCHANGED pending

\* Mutant of WriteInode: the length is not written.
WriteInodeForgets(i) ==
    /\ i # Root /\ inode[i].st # "free" /\ inode[i].dirty
    /\ LET f == inode[i]
           head == Slot(vol, f.dir, f.entry)
       IN IF EntrySet(vol, f.dir, f.entry)
          THEN /\ vol' = PutSlots(vol, f.dir, f.entry, <<head>>)
               /\ faults' = faults \cup Strays(inode, {i})
          ELSE /\ faults' = faults \cup Misses(i)
               /\ UNCHANGED vol
    /\ inode' = [inode EXCEPT ![i].dirty = FALSE]
    /\ UNCHANGED <<pending, done>>

\* exfat_write_inode, ffsSetStat: the kernel writes back what is dirty; that the
\* entry set was not there is not looked at.
WriteInode(i) ==
    /\ i # Root /\ inode[i].st # "free" /\ inode[i].dirty
    /\ LET f == inode[i]
           head == Slot(vol, f.dir, f.entry)
       IN IF EntrySet(vol, f.dir, f.entry)
          THEN /\ vol' = PutSlots(vol, f.dir, f.entry, <<[head EXCEPT !.size = f.size]>>)
               /\ faults' = faults \cup Strays(inode, {i})
          ELSE /\ faults' = faults \cup Misses(i)
               /\ UNCHANGED vol
    /\ inode' = [inode EXCEPT ![i].dirty = FALSE]
    /\ UNCHANGED <<pending, done>>

\* exfat_evict_inode: what is linked was written before; an orphan is not.
Evict(i) ==
    /\ i # Root /\ inode[i].st # "free" /\ pending[i] = None
    /\ Linked(i) => ~inode[i].dirty
    /\ \A j \in Inodes : inode[j].st # "free" => inode[j].parent # i
    /\ inode' = [inode EXCEPT ![i] = Free]
    /\ UNCHANGED <<vol, pending, done, faults>>

\* exfat_statfs, ffsGetVolInfo.
Statfs ==
    /\ vol.used = Unknown
    /\ vol' = [vol EXCEPT !.used = CountUsed(vol)]
    /\ UNCHANGED <<inode, pending, done, faults>>

\* ffsUmountVol, ffsMountVol.
Remount ==
    /\ \A i \in Inodes \ {Root} : inode[i].st = "free"
    /\ pending[Root] = None
    /\ vol' = Mounted(vol)
    /\ inode' = [inode EXCEPT ![Root] = RootInode(vol)]
    /\ UNCHANGED <<pending, done, faults>>

Next ==
    /\ faults \subseteq {"leak"}
    /\ \/ \E d \in Inodes :
              \/ \E name \in Names : Lookup(d, name)
              \/ Abandon(d) \/ Create(d) \/ Mkdir(d)
       \/ \E i \in Inodes :
              \/ \E held \in BOOLEAN : Unlink(i, held) \/ Rmdir(i, held)
              \/ \E d \in Inodes, name \in Names, held \in BOOLEAN : Rename(i, d, name, held)
              \/ \E k \in 0 .. MaxSize : Read(i, k) \/ Truncate(i, k)
              \/ Write(i) \/ WriteFails(i) \/ WriteInode(i) \/ Evict(i)
       \/ Statfs \/ Remount

Spec == Init /\ [][Next]_vars

-----------------------------------------------------------------------------
(* What is on the volume, and who has it.                                  *)

Sound == faults \subseteq {"leak"}

HeadsOf(v, p) == LET s == Scan(v, p) IN {s[j] : j \in {k \in DOMAIN s : IsHead(s[k])}}
HeadChain(h) == Chain(h.clu, h.size, h.flags)

\* The clusters of a file or directory: of its inode if there is one, for the
\* entry may not have the size yet, else of its entry.
ClustersOf(f) == IF f.st = "free" \/ f.start = EOC THEN {} ELSE ChainSet(vol, ChainOf(f))
ClustersAt(d, h) ==
    IF \E i \in Inodes : d \in Inodes /\ i \in Positive(d, h.name)
    THEN ClustersOf(inode[CHOOSE i \in Inodes : i \in Positive(d, h.name)])
    ELSE IF h.type = "file" /\ h.size = 0 THEN {} ELSE ChainSet(vol, HeadChain(h))

\* Everything that has clusters, by its path; orphans by their inode.
InRoot == HeadsOf(vol, ChainOf(inode[Root]))
InDir(h) == HeadsOf(vol, HeadChain(h))
InodeOf(h) == IF Positive(Root, h.name) = {} THEN None
              ELSE CHOOSE i \in Inodes : i \in Positive(Root, h.name)
Owners ==
    {[who |-> <<>>, clus |-> ClustersOf(inode[Root])], [who |-> <<None, None>>, clus |-> SystemClus]}
    \cup {[who |-> <<h.name>>, clus |-> ClustersAt(Root, h)] : h \in InRoot}
    \cup (UNION {{[who |-> <<h.name, g.name>>, clus |-> ClustersAt(InodeOf(h), g)] : g \in InDir(h)} :
                     h \in {x \in InRoot : x.type = "dir"}})
    \cup {[who |-> <<i>>, clus |-> ClustersOf(inode[i])] : i \in {j \in Inodes : Orphan(j)}}

-----------------------------------------------------------------------------
(* What the operations on files rely on, of the inodes ino and a volume v. *)

Of(q) == {q[k] : k \in 1 .. Len(q)}

\* The chain p goes through the clusters q, in this order, and ends there.
Through(v, p, q) ==
    /\ q \in Seq(Clusters) /\ Len(q) > 0
    /\ \A j, k \in 1 .. Len(q) : q[j] = q[k] => j = k
    /\ p.dir = q[1] /\ p.flags \in {1, 3}
    /\ p.flags = 3 => p.size = Len(q) /\ \A k \in 1 .. Len(q) : q[k] = p.dir + (k - 1)
    /\ p.flags = 1 => /\ \A k \in 1 .. Len(q) - 1 : v.fat[q[k]] = q[k + 1]
                      /\ v.fat[q[Len(q)]] = EOC

\* hint_last_off and hint_last_clu are those of a cluster of the file.
HintOK(f, q) == f.hoff > 0 => f.hoff < Len(q) /\ f.hclu = q[f.hoff + 1]

Owns(f) == f.st # "free" /\ f.start # EOC
Clus(v, f) == ChainSeq(v, ChainOf(f))

Whole(v, f, q) ==
    /\ Through(v, ChainOf(f), q) /\ Of(q) \subseteq v.bitmap
    /\ HintOK(f, q) /\ f.size \in 1 .. Len(q)

\* No inode shares a cluster with another, and each has all of its own.
Apart(v, ino) ==
    /\ \A i \in Inodes : Owns(ino[i]) => Whole(v, ino[i], Clus(v, ino[i]))
    /\ \A i, j \in Inodes : Owns(ino[i]) /\ Owns(ino[j]) /\ i # j
                            => Of(Clus(v, ino[i])) \cap Of(Clus(v, ino[j])) = {}

\* A chain of a file that has no inode.
Stranger(v, ino, p, q) ==
    /\ Through(v, p, q) /\ Of(q) \subseteq v.bitmap
    /\ \A i \in Inodes : Owns(ino[i]) => Of(q) \cap Of(Clus(v, ino[i])) = {}

\* An inode: only files, and what is removed, may have no clusters.
InodeOK(f) ==
    \/ f = Free
    \/ /\ DOMAIN f = {"st", "type", "name", "parent", "dir", "entry", "flags", "start",
                      "size", "hoff", "hclu", "dirty"}
       /\ f.st \in {"linked", "orphan"} /\ f.type \in {"file", "dir"} /\ f.flags \in {1, 3}
       /\ f.hoff \in Int /\ f.size \in Nat
       /\ f.st = "linked" /\ f.start = EOC => f.size = 0 /\ f.type = "file"
       /\ f.st = "orphan" => f.start = EOC

\* No file or directory has lost or shares a cluster; a name is being looked up
\* in directories only, and the root is where it was.
FilesApart ==
    /\ Apart(vol, inode)
    /\ \A i \in Inodes : InodeOK(inode[i])
    /\ \A d \in Inodes : pending[d] # None => Linked(d) /\ IsDir(d)
    /\ Linked(Root) /\ IsDir(Root) /\ inode[Root].start = RootClu /\ inode[Root].flags = 1

\* What a lookup may find that has no inode: its entry tells of a whole chain.
EntriesApart ==
    \A d \in Inodes : Linked(d) /\ IsDir(d) =>
        \A h \in HeadsOf(vol, ChainOf(inode[d])) :
            LET q == ChainSeq(vol, HeadChain(h))
            IN \/ Positive(d, h.name) # {}
               \/ h.type = "file" /\ h.size = 0
               \/ Stranger(vol, inode, HeadChain(h), q) /\ h.size \in 1 .. Len(q)

-----------------------------------------------------------------------------
(* What the directories, their entries and the inodes have to do with each *)
(* other.  T gives the clusters of each directory by the first of them, E  *)
(* is the set of the entries that are in them.                             *)

\* Entries on the volume.
Heads == [type : {"file", "dir"}, name : Names, flags : {1, 3},
          clu : Clusters \cup {Nil}, size : Nat]

SlotsOK(v) == DOMAIN v.slots = Clusters \X (0 .. SlotsPerClu - 1)

\* The directory that lies in the clusters q, slot by slot.
Loc(q, j) == <<q[j \div SlotsPerClu + 1], j % SlotsPerClu>>
View(v, q) == [j \in 0 .. Len(q) * SlotsPerClu - 1 |-> v.slots[Loc(q, j)]]

\* Entries are whole, and nothing comes behind a slot that was never used.
InOrder(s) ==
    /\ \A j \in DOMAIN s : s[j] \in Heads \cup {Ext, Deleted, Unused}
    /\ \A j \in DOMAIN s : IsHead(s[j]) =>
          \A m \in 1 .. NameLen[s[j].name] - 1 : j + m \in DOMAIN s /\ s[j + m] = Ext
    /\ \A j, k \in DOMAIN s : s[j] = Unused /\ j < k => s[k] = Unused

HeadsAt(s) == {j \in DOMAIN s : IsHead(s[j])}
Entries(v, T) ==
    UNION {{[dir |-> c, at |-> j, head |-> View(v, T[c])[j]] : j \in HeadsAt(View(v, T[c]))} :
               c \in DOMAIN T}

\* hint_uentry and its clu.
HintType(h) ==
    /\ DOMAIN h = {"dir", "entry", "clu"} /\ DOMAIN h.clu = {"dir", "size", "flags"}
    /\ h.entry \in Nat \cup {-1}

\* Where hint_uentry says that a directory has room, it has the slots from there
\* on, and all before are used.
HintTrue(E, v, T) ==
    /\ HintType(v.hint)
    /\ v.hint.dir \in DOMAIN T /\ v.hint.entry # -1 =>
          LET q == T[v.hint.dir]
              k == v.hint.entry \div SlotsPerClu
          IN /\ k < Len(q) /\ Through(v, v.hint.clu, SubSeq(q, k + 1, Len(q)))
             /\ \A j \in 0 .. v.hint.entry - 1 : View(v, q)[j] # Unused
             /\ v.hint.dir = RootClu => v.hint.clu.flags = 1
             /\ \A x \in E : x.head.type = "dir" /\ x.head.clu = v.hint.dir
                             => x.head.flags = v.hint.clu.flags

\* An inode has the entry x.
Has(ino, i, x) ==
    ino[i].st = "linked" /\ ino[i].name = x.head.name /\ ino[ino[i].parent].start = x.dir

\* The entries that have clusters, but no inode.
Lone(E, ino) == {x \in E : /\ x.head.type = "dir" \/ x.head.size # 0
                           /\ \A i \in Inodes \ {Root} : ~Has(ino, i, x)}
ClusAt(v, x) == ChainSeq(v, HeadChain(x.head))

\* The inode f and its entry h say the same, of the length once it was written.
Agrees(f, h) ==
    /\ h.name = f.name /\ h.type = f.type
    /\ f.start = EOC => h.size = 0
    /\ f.start # EOC => h.clu = f.start /\ h.flags = f.flags
    /\ ~f.dirty \/ f.type = "dir" => h.size = f.size

\* Entries of directories are in the root only, one for each directory.
DirsTrue(E, ino, T) ==
    /\ RootClu \in DOMAIN T
    /\ \A d \in Inodes : ino[d].st = "linked" /\ ino[d].type = "dir" => ino[d].start \in DOMAIN T
    /\ \A c \in DOMAIN T \ {RootClu} : \E x \in E : x.head.type = "dir" /\ x.head.clu = c
    /\ \A x \in E : x.head.type = "dir" => x.dir = RootClu /\ x.head.clu \in DOMAIN T \ {RootClu}
    /\ \A x, y \in E : x.head.type = "dir" /\ y.head.type = "dir" /\ x.head.clu = y.head.clu
                       => x = y

\* No two entries of a directory have the same name.
EntriesTrue(E, T) ==
    /\ \A x \in E : x.dir \in DOMAIN T /\ x.head \in Heads
    /\ \A x, y \in E : x.dir = y.dir /\ x.head.name = y.head.name => x = y

\* The inode i has the entry x in its directory, where that of a directory stays.
Home(E, ino, i, x) ==
    /\ x \in E /\ x.dir = ino[ino[i].parent].start /\ Agrees(ino[i], x.head)
    /\ ino[i].type = "dir" => x.at = ino[i].entry

\* Each inode has an entry in its directory, and no two have the same.  It knows the
\* directory as it was when the inode was looked up or moved: perhaps still as a run.
HomesTrue(E, ino) ==
    /\ \A i \in Inodes \ {Root} : ino[i].st = "linked" =>
          LET f == ino[i]
          IN /\ f.parent \in Inodes /\ ino[f.parent].st = "linked" /\ ino[f.parent].type = "dir"
             /\ f.entry \in Nat /\ f.dir.dir = ino[f.parent].start /\ f.dir.flags \in {1, 3}
             /\ f.dir.flags = 1 => ino[f.parent].flags = 1
             /\ f.type = "dir" => f.parent = Root /\ f.dir.flags = 1
             /\ \E x \in E : Home(E, ino, i, x)
    /\ \A i, j \in Inodes \ {Root} :
          ino[i].st = "linked" /\ ino[j].st = "linked"
          /\ ino[i].parent = ino[j].parent /\ ino[i].name = ino[j].name => i = j

\* A name that is looked up in vain is not there.
NamesMissing(E, ino, pnd) ==
    \A d \in Inodes : pnd[d] # None =>
        pnd[d] \in Names /\ \A x \in E : x.dir = ino[d].start => x.head.name # pnd[d]

NamesTrue(E, ino, pnd, T) ==
    /\ DirsTrue(E, ino, T) /\ EntriesTrue(E, T) /\ HomesTrue(E, ino) /\ NamesMissing(E, ino, pnd)

\* Directories are whole, and what the entries L without an inode tell of is whole
\* and nobody else's.
ChainsTrue(L, v, ino, T) ==
    /\ \A d \in Inodes : ino[d].st = "linked" /\ ino[d].type = "dir" =>
          T[ino[d].start] = Clus(v, ino[d]) /\ ino[d].size = Len(T[ino[d].start])
    /\ \A x \in L : /\ Stranger(v, ino, HeadChain(x.head), ClusAt(v, x))
                    /\ x.head.size \in 1 .. Len(ClusAt(v, x))
                    /\ x.head.type = "dir" => T[x.head.clu] = ClusAt(v, x)
                                              /\ x.head.size = Len(T[x.head.clu])
    /\ \A x, y \in L : x # y => Of(ClusAt(v, x)) \cap Of(ClusAt(v, y)) = {}

\* The system tables are nobody's, and each cluster in use is somebody's.
NothingLost(L, v, ino) ==
    /\ \A c \in SystemClus : Stranger(v, ino, Chain(c, 1, 3), <<c>>)
    /\ \A x \in L : Of(ClusAt(v, x)) \cap SystemClus = {}
    /\ \A c \in v.bitmap : \/ c \in SystemClus
                           \/ \E i \in Inodes : Owns(ino[i]) /\ c \in Of(Clus(v, ino[i]))
                           \/ \E x \in L : c \in Of(ClusAt(v, x))

DataTrue(L, v, ino, T) == ChainsTrue(L, v, ino, T) /\ NothingLost(L, v, ino)

Tree(v, ino, pnd, T) ==
    LET E == Entries(v, T)
    IN /\ SlotsOK(v) /\ HintTrue(E, v, T) /\ \A c \in DOMAIN T : InOrder(View(v, T[c]))
       /\ NamesTrue(E, ino, pnd, T) /\ DataTrue(Lone(E, ino), v, ino, T)

\* The directories of a volume.
Table(v) ==
    LET root == ChainSeq(v, Chain(RootClu, 0, 1))
        dirs == {h \in HeadsOf(v, Chain(RootClu, 0, 1)) : h.type = "dir"}
    IN [c \in {RootClu} \cup {h.clu : h \in dirs} |->
           IF c = RootClu THEN root
           ELSE ChainSeq(v, HeadChain(CHOOSE h \in dirs : h.clu = c))]

\* ffsMountVol takes the volume as it is; here it is one that the driver has left,
\* with no fault: its directories are in order and its chains whole and apart.
FirstInodes(v) == [i \in Inodes |-> IF i = Root THEN RootInode(v) ELSE Free]

ASSUME DisksAssumption ==
    \A v \in Disks :
        /\ v.bitmap \subseteq Clusters
        /\ v.fat \in [Clusters -> Clusters \cup {Nil, EOC}]
        /\ LET q == ChainSeq(v, Chain(RootClu, 0, 1))
           IN Through(v, Chain(RootClu, 0, 1), q) /\ Of(q) \subseteq v.bitmap
        /\ Tree(Mounted(v), FirstInodes(Mounted(v)), [i \in Inodes |-> None], Table(Mounted(v)))

-----------------------------------------------------------------------------
(* Properties.                                                             *)

InodeType ==
    [st : {"linked", "orphan"}, type : {"file", "dir"}, name : Names \cup {None},
     parent : Inodes, dir : [dir : Clusters, size : 0 .. NumClusters, flags : {1, 3}],
     entry : -1 .. NumClusters * SlotsPerClu, flags : {1, 3}, start : Clusters \cup {EOC},
     size : 0 .. NumClusters, hoff : -1 .. MaxSize, hclu : Clusters \cup {EOC},
     dirty : BOOLEAN]

\* Types; no operation leaves a chain through clusters the volume does not have.
TypeOK ==
    /\ vol.bitmap \subseteq Clusters
    /\ vol.fat \in [Clusters -> Clusters \cup {Nil, EOC}]
    /\ vol.srch \in Clusters
    /\ vol.used \in -1 .. NumClusters
    /\ \A i \in Inodes : inode[i] \in InodeType \cup {Free}
    /\ pending \in [Inodes -> Names \cup {None}]
    /\ done \in 0 .. MaxOps

\* No cluster belongs to two files, directories or system tables, and each that
\* belongs to one is marked in the bitmap: contiguous runs and FAT chains are
\* told apart, and turned into each other, without mixing them up
\* (exfat_alloc_cluster, exfat_chain_cont_cluster, find_empty_entry).  Until a
\* leak, the chain of each inode is whole and its hint is of a cluster of it; so
\* is that of each entry whose file has no inode.
NoSharedCluster ==
    /\ Sound => LET all == Owners
                IN \A a \in all : /\ a.clus \subseteq vol.bitmap
                                  /\ \A b \in all : a # b => a.clus \cap b.clus = {}
    /\ faults = {} => FilesApart /\ EntriesApart

\* statfs tells the truth of the bitmap: used_clusters is kept up to date by
\* every allocation and release, the failing ones included.
UsedIsCount == Sound => vol.used \in {Unknown, Cardinality(vol.bitmap)}

\* A name that has an inode is found again by a lookup, once only: no entry
\* lies behind an unused slot, where exfat_find_dir_entry stops.
NamesResolve ==
    Sound => \A i \in Inodes \ {Root} : Linked(i) =>
        LET p == ChainOf(inode[inode[i].parent])
            s == Scan(vol, p)
        IN /\ FindIn(s, vol, p, inode[i].name).entry >= 0
           /\ Cardinality({j \in DOMAIN s : IsHead(s[j]) /\ s[j].name = inode[i].name}) = 1

\* The inode and its entry agree on where the data is, at any moment; on the
\* length too once the inode was written back and found its entry.
InodeAgrees ==
    Sound => \A i \in Inodes \ {Root} : Linked(i) /\ AtHome(vol, inode, i) =>
        LET f == inode[i]
            h == Slot(vol, f.dir, f.entry)
        IN /\ f.type = h.type
           /\ f.start = EOC => h.clu = Nil \/ h.size = 0
           /\ f.start # EOC => h.clu = f.start /\ h.flags = f.flags
           /\ ~f.dirty => h.size = f.size

\* ffsSetStat and ffsRemoveFile find the entry through fid->dir and fid->entry.
\* An inode loses its entry that way only by its own renaming, to a longer name,
\* in a directory which that very step turns from a run into a chain.
KeepsItsPlace ==
    [][\A i \in Inodes \ {Root} :
          (/\ Linked(i) /\ Linked(i)' /\ Sound'
           /\ ~AtHome(vol', inode', i) /\ AtHome(vol, inode, i))
          => LET p == inode[i].parent
             IN /\ inode'[i].parent = p
                /\ NameLen[inode[i].name] < NameLen[inode'[i].name]
                /\ inode[p].flags = 3 /\ inode'[p].flags = 1]_vars

\* Every allocated cluster has an owner, until one of three operations loses some:
\* a rename onto a file, which frees nothing (ffsMoveFile), a write that failed
\* after its cluster was allocated (exfat_write_failed), and the use of a file
\* that has no name any more (ffsMapCluster).  Nothing else leaks, no failure in
\* the middle of a creation, growth or conversion of a chain either.
LeaksAreKnown == faults = {} => vol.bitmap = UNION {o.clus : o \in Owners}

\* exfat_core.c:962, "ffsRemoveFile : remove a file", which it does by "(1) update the
\* directory entry" and "(2) free the clusters": no entry names clusters that are free.
RemovedIsGone ==
    \A x \in DOMAIN vol.slots :
        IsHead(vol.slots[x]) /\ vol.slots[x].clu \in Clusters => vol.slots[x].clu \in vol.bitmap

=============================================================================
