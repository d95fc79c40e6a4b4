----------------------------- MODULE ExfatCache -----------------------------
(***************************************************************************)
(* The buffer cache of the exFAT driver (exfat_cache.c): a fixed number of *)
(* buffers in one list by their last use and in the circular lists of a    *)
(* hash table, with the pointers these are made of.  The FAT cache of the  *)
(* same file is this cache without Lock and Release.                       *)
(*                                                                         *)
(* Every call runs under v_sem, so each is one step.  What is in a sector  *)
(* is not modelled: buffers are the kernel's own of that sector, and one   *)
(* that was modified is written by the kernel.                             *)
(***************************************************************************)
EXTENDS Naturals, Sequences, FiniteSets

CONSTANTS
    Array,         \* buf_cache_array: the buffers, a sequence
    HashSize,      \* BUF_CACHE_HASH_SIZE
    SectorsPerClu, \* sectors_per_clu
    Sectors,       \* sector numbers
    Outside,       \* those behind the end of the volume
    None

Size == Len(Array)             \* BUF_CACHE_SIZE
Bufs == {Array[k] : k \in 1 .. Size}
Heads == 0 .. HashSize - 1     \* buf_cache_hash_list
Nodes == Heads \cup Bufs

ASSUME CacheAssumption ==
    /\ Array \in Seq(Bufs) /\ Size > 2 /\ Bufs \cap Nat = {}
    /\ \A j, k \in 1 .. Size : Array[j] = Array[k] => j = k
    /\ HashSize \in Nat /\ HashSize > 1 /\ SectorsPerClu \in Nat \ {0}
    /\ Sectors \subseteq Nat /\ Outside \subseteq Sectors
    /\ None \notin Sectors \cup Bufs

VARIABLES
    lru,      \* the buffers from the most to the least recently used
    links,    \* hash_next and hash_prev, of buffers and heads
    sec,      \* the sector of each buffer; None: sec is ~0 and drv -1
    locked,   \* the buffers with LOCKBIT
    work,     \* the entries that the driver is at work on, the outer one first
    ejected,  \* dev_ejected
    torn,     \* history: a buffer that was in no list was taken out of one
    cut       \* history: what is done inside has unlocked the outer entry as well

cache == <<lru, links, sec, locked>>
vars == <<cache, work, ejected, torn, cut>>

-----------------------------------------------------------------------------
(* The lists.                                                              *)

\* ~0 as a sector number of 32 bits; HashSize is a power of 2.
Hash(s) == IF s = None THEN HashSize - 2 ELSE (s + s \div SectorsPerClu) % HashSize

\* buf_cache_insert_hash: b becomes the first after h.
InsertHash(l, b, h) ==
    [next |-> [l.next EXCEPT ![b] = l.next[h], ![h] = b],
     prev |-> [l.prev EXCEPT ![b] = h, ![l.next[h]] = b]]

\* Mutant: one of the two pointers is forgotten.
RemoveHashHalf(l, b) ==
    [next |-> [l.next EXCEPT ![l.prev[b]] = l.next[b]], prev |-> l.prev]

\* buf_cache_remove_hash, which leaves the pointers of b itself as they were.
RemoveHash(l, b) ==
    [next |-> [l.next EXCEPT ![l.prev[b]] = l.next[b]],
     prev |-> [l.prev EXCEPT ![l.next[b]] = l.prev[b]]]

InList(l, b) == l.next[l.prev[b]] = b

\* buf_cache_find: through the list of s until it is there or at the head again.
Endless == "endless"
Find(s) ==
    LET h == Hash(s)
        walk[n \in Nat] == links.next[IF n = 0 THEN h ELSE walk[n - 1]]
        ends == {n \in 0 .. Cardinality(Nodes) :
                    walk[n] = h \/ (walk[n] \in Bufs /\ sec[walk[n]] = s)}
    IN IF ends = {} THEN Endless
       ELSE LET b == walk[CHOOSE n \in ends : \A m \in ends : n <= m]
            IN IF b = h THEN None ELSE b

Others(b) == LET k == CHOOSE n \in 1 .. Size : lru[n] = b
             IN SubSeq(lru, 1, k - 1) \o SubSeq(lru, k + 1, Size)

MoveToMru(b) == <<b>> \o Others(b)
MoveToLru(b) == Append(Others(b), b)

-----------------------------------------------------------------------------
(* buf_init, at a mount: every buffer in turn goes to the front of the     *)
(* list by use, and to the front of the list of ~0.                        *)

Pushed == [k \in 1 .. Size |-> Array[Size + 1 - k]]

AllInList ==
    LET ring == <<Hash(None)>> \o Pushed
        At(k) == ring[(k % (Size + 1)) + 1]
        place == [x \in Bufs \cup {Hash(None)} |-> CHOOSE k \in DOMAIN ring : ring[k] = x]
    IN [next |-> [x \in Nodes |-> IF x \in DOMAIN place THEN At(place[x]) ELSE x],
        prev |-> [x \in Nodes |-> IF x \in DOMAIN place THEN At(place[x] + Size - 1) ELSE x]]

Init ==
    /\ lru = Pushed /\ links = AllInList
    /\ sec = [b \in Bufs |-> None] /\ locked = {}
    /\ work = <<>> /\ ejected = FALSE /\ torn = FALSE /\ cut = FALSE

-----------------------------------------------------------------------------
(* buf_getblk.                                                             *)

\* Mutant: the last buffer is taken, locked or not.
VictimAnyway(k) == k = Size

\* buf_cache_get: the last buffer that is not locked.
Victim(k) == lru[k] \notin locked /\ \A j \in k + 1 .. Size : lru[j] \in locked

Hit(s) ==
    /\ Find(s) \in Bufs
    /\ lru' = MoveToMru(Find(s))
    /\ UNCHANGED <<links, sec, locked, ejected, torn>>

\* sector_read fails behind the end of the volume, and always once it has failed
\* otherwise.  The buffer is then in no list, until it is used again: that takes it
\* out of the list once more, which changes nothing if the list is as it was.
Miss(s, ok) ==
    /\ Find(s) = None
    /\ ok => s \notin Outside /\ ~ejected
    /\ \E k \in DOMAIN lru :
        /\ Victim(k)
        /\ LET b == lru[k]
               without == RemoveHash(links, b)
               with == InsertHash(without, b, Hash(s))
           IN /\ links' = IF ok THEN with ELSE RemoveHash(with, b)
              /\ sec' = [sec EXCEPT ![b] = IF ok THEN s ELSE None]
              /\ lru' = IF ok THEN MoveToMru(b) ELSE MoveToLru(b)
              /\ torn' = (torn \/ (~InList(links, b) /\ without # links))
    /\ ejected' = (ejected \/ ~(ok \/ s \in Outside))
    /\ UNCHANGED locked

-----------------------------------------------------------------------------
(* What the driver does with the cache (exfat_core.c): it looks at an      *)
(* entry, or works on it, with its sector locked if it reads others        *)
(* meanwhile.  A rename that makes its directory grow corrects the entry   *)
(* of that directory, locked too, while it keeps the entry it renames      *)
(* (rename_file and move_file, find_empty_entry, update_dir_checksum).     *)

Depth == 2   \* of entries at work on one inside the other

Entry(s, h) == [sec |-> s, held |-> h]
Top == work[Len(work)]
Idle == work = <<>>

\* get_entry_in_dir.  Where it fails in rename_file and move_file, sector_old is still
\* that of the entry before, which is locked and unlocked if the cache has it.
GetEntry(s) ==
    /\ ~Idle => Top.held
    /\ \/ /\ Hit(s) \/ Miss(s, TRUE)
          /\ \/ UNCHANGED work
             \/ Len(work) < Depth /\ work' = Append(work, Entry(s, FALSE))
       \/ /\ Miss(s, FALSE)
          /\ \/ UNCHANGED work
             \/ Idle /\ \E b \in Bufs : sec'[b] # None /\ work' = <<Entry(sec'[b], FALSE)>>
    /\ UNCHANGED cut

\* buf_lock.
Lock ==
    /\ ~Idle /\ ~Top.held /\ Find(Top.sec) # Endless
    /\ work' = [work EXCEPT ![Len(work)] = Entry(Top.sec, TRUE)]
    /\ locked' = locked \cup ({Find(Top.sec)} \cap Bufs)
    /\ UNCHANGED <<lru, links, sec, ejected, torn, cut>>

\* Mutant: an early return forgets buf_unlock.
ReturnLocked ==
    /\ ~Idle /\ Find(Top.sec) # Endless
    /\ work' = SubSeq(work, 1, Len(work) - 1)
    /\ cut' = (Len(work) > 1 /\ (cut \/ (Top.held /\ work[1].sec = Top.sec)))
    /\ UNCHANGED <<cache, ejected, torn>>

\* buf_modify, buf_unlock: LOCKBIT goes, whoever else may have set it.
Finish ==
    /\ ~Idle /\ Find(Top.sec) # Endless
    /\ work' = SubSeq(work, 1, Len(work) - 1)
    /\ locked' = IF Top.held THEN locked \ {Find(Top.sec)} ELSE locked
    /\ cut' = (Len(work) > 1 /\ (cut \/ (Top.held /\ work[1].sec = Top.sec)))
    /\ UNCHANGED <<lru, links, sec, ejected, torn>>

\* buf_release, for the clusters of a directory that is removed.
Release(s) ==
    /\ Idle /\ Find(s) \in Bufs
    /\ sec' = [sec EXCEPT ![Find(s)] = None]
    /\ locked' = locked \ {Find(s)}
    /\ lru' = MoveToLru(Find(s))
    /\ UNCHANGED <<links, work, ejected, torn, cut>>

\* buf_release_all, when the volume is unmounted, and FsReleaseCache.
ReleaseAll ==
    /\ Idle
    /\ sec' = [b \in Bufs |-> None] /\ locked' = {}
    /\ UNCHANGED <<lru, links, work, ejected, torn, cut>>

\* The volume is unmounted, and it or another one mounted.
Mount ==
    /\ Idle
    /\ lru' = Pushed /\ links' = AllInList
    /\ sec' = [b \in Bufs |-> None] /\ locked' = {}
    /\ ejected' = FALSE /\ torn' = FALSE
    /\ UNCHANGED <<work, cut>>

Next ==
    \/ \E s \in Sectors : GetEntry(s) \/ Release(s)
    \/ Lock \/ Finish \/ ReleaseAll \/ Mount

Spec == Init /\ [][Next]_vars

-----------------------------------------------------------------------------
(* Properties.                                                             *)

\* A search for a sector ends, with the only buffer that has it if there is one, until a
\* buffer whose read failed is taken out of a list that is no longer as it left it: a
\* directory was removed in between (buf_getblk, buf_release, buf_cache_remove_hash).
SearchesFind ==
    ~torn => \A s \in Sectors :
        IF \E b \in Bufs : sec[b] = s
        THEN Find(s) \in Bufs /\ {b \in Bufs : sec[b] = s} = {Find(s)}
        ELSE Find(s) = None

\* What the driver has locked stays in the cache and locked, through everything that is
\* read, fails to be read and is locked inside, unless an entry of the same sector was
\* unlocked inside; no LOCKBIT outlives the work it was set for, and there is always a buffer
\* for buf_cache_get to take (buf_lock, buf_unlock, update_dir_checksum in find_empty_entry).
LocksAreHeld ==
    ~torn =>
        /\ \A k \in DOMAIN work : work[k].held /\ ~(k = 1 /\ cut) =>
              \E b \in locked : sec[b] = work[k].sec
        /\ \A b \in locked : \E k \in DOMAIN work : work[k].held /\ sec[b] = work[k].sec
        /\ \E b \in Bufs : b \notin locked

\* The cache is one of the sectors used last, which gives up the oldest, but none that is
\* locked, whatever is read and fails to be read while one or two are (buf_cache_get,
\* move_to_mru and move_to_lru, buf_release).
SC == INSTANCE SectorCache WITH
    slots <- [k \in 1 .. Size |-> sec[lru[k]]],
    kept <- {sec[b] : b \in locked}

KeepsLastUsed == SC!Init /\ [][SC!Next \/ torn']_(SC!vars)
=============================================================================
