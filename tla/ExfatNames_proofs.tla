------------------------- MODULE ExfatNames_proofs --------------------------
(***************************************************************************)
(* The operations of ExfatVolume that make, remove, rename and move an     *)
(* entry keep the catalogue (Consistent) too.  From all operations the     *)
(* theorems: until the first fault no cluster is shared, names and inodes  *)
(* agree, and no cluster is marked that has no owner.                      *)
(***************************************************************************)
EXTENDS ExfatTree_proofs

-----------------------------------------------------------------------------
(* An entry is made.                                                       *)

LEMMA PendingDropped ==
  ASSUME NEW v, NEW ino, NEW pnd, NEW T, Consistent(v, ino, pnd, T), NEW d
  PROVE  Consistent(v, ino, [pnd EXCEPT ![d] = None], T)
  <1> DEFINE pn2 == [pnd EXCEPT ![d] = None]
  <1>1. /\ Good(v, ino) /\ Dirs(ino, pnd) /\ HintTrue(Entries(v, T), v, T)
        /\ NamesMissing(Entries(v, T), ino, pnd)
    BY DEF Consistent, Catalogue, NamesTrue
  <1>2. Dirs(ino, pn2)  BY <1>1, PendingCleared
  <1>3. NamesMissing(Entries(v, T), ino, pn2)
    <2>1. \A b \in Inodes : pn2[b] # None => pn2[b] = pnd[b]  BY <1>1 DEF Dirs
    <2> HIDE DEF pn2
    <2> QED BY <1>1, <2>1 DEF NamesMissing
  <1>4. QuietStep(v, ino, pnd, T, None, v, ino, pn2)
    <2>1. None \notin Inodes /\ None # Root  BY NoneAssumption, VolumeAssumption
    <2>2. ChainsSame(v, v)  BY <1>1 DEF ChainsSame, Good
    <2> QED BY <1>1, <1>2, <1>3, <2>1, <2>2 DEF QuietStep
  <1> QED BY <1>4, QuietKeeps

\* The inode i is made for the name that was looked up in d, with the entry y.
Entered(v, ino, pnd, T, d, i, y, jno, T2) ==
    /\ d \in Inodes /\ pnd[d] # None /\ i \in Inodes /\ ino[i].st = "free"
    /\ \A j \in Inodes : j # i => jno[j] = ino[j]
    /\ jno[i].st = "linked" /\ jno[i].parent = d /\ jno[i].dir = ChainOf(ino[d])
    /\ jno[i].entry = y.at /\ jno[i].entry \in Nat
    /\ y.dir = ino[d].start /\ y.head \in Heads /\ y.head.name = pnd[d] /\ Agrees(jno[i], y.head)
    /\ Dirs(jno, [pnd EXCEPT ![d] = None]) /\ InodeOK(jno[i])
    /\ IF y.head.type = "dir"
       THEN d = Root /\ y.head.clu \notin DOMAIN T /\ DOMAIN T2 = DOMAIN T \cup {y.head.clu}
       ELSE DOMAIN T2 = DOMAIN T
LEMMA EnteredNames ==
  ASSUME NEW v, NEW ino, NEW pnd, NEW T, Consistent(v, ino, pnd, T), NEW d, NEW i, NEW y, NEW jno,
         NEW T2, Entered(v, ino, pnd, T, d, i, y, jno, T2)
  PROVE  NamesStep(Entries(v, T), v, ino, pnd, T, i, {}, {y}, jno, [pnd EXCEPT ![d] = None], T2)
  <1> USE DEF Entered
  <1> DEFINE E == Entries(v, T)
             pn2 == [pnd EXCEPT ![d] = None]
             c == ino[d].start
  <1>1. /\ Good(v, ino) /\ Dirs(ino, pnd) /\ NamesTrue(E, ino, pnd, T) /\ DirsTrue(E, ino, T)
        /\ EntriesTrue(E, T) /\ NamesMissing(E, ino, pnd)
    BY DEF Consistent, Catalogue, NamesTrue
  <1>2. /\ IsDirectory(ino[d]) /\ c \in DOMAIN T /\ ino[d].flags \in {1, 3} /\ i # Root /\ i # d
        /\ Root \in Inodes
    <2>1. IsDirectory(ino[d])  BY <1>1 DEF Dirs, IsDirectory
    <2>2. c \in DOMAIN T /\ ino[d].flags \in {1, 3}  BY <2>1, OpenedIs
    <2> QED BY <1>1, <2>1, <2>2, VolumeAssumption DEF Dirs, IsDirectory
  <1>3. /\ \A b \in Inodes : pn2[b] # None => b # d /\ pn2[b] = pnd[b]
        /\ Dirs(jno, pn2)
    BY <1>1 DEF Dirs
  <1>4. \A z \in E : z.dir = c => z.head.name # pnd[d]  BY <1>1 DEF NamesMissing
  <1> HIDE DEF E, pn2
  <1>5. InodesStep(v, ino, pnd, i, jno, pn2)
    <2>1. NamesStay(ino, jno, i)  BY DEF NamesStay
    <2>2. DirsStay(ino, jno, i)  BY DEF DirsStay, IsDirectory
    <2>3. \A j \in Inodes : InodeOK(jno[j])  BY <1>1 DEF Good
    <2> QED BY <1>1, <1>2, <1>3, <2>1, <2>2, <2>3 DEF InodesStep
  <1>6. EntriesStep(E, ino, i, {}, {y}, jno, T2)
    <2>1. Named(jno, i)  BY <1>2 DEF Named
    <2>2. y.dir \in DOMAIN T2  BY <1>2
    <2>3. y.dir = jno[jno[i].parent].start  BY <1>2
    <2>4. Knows(jno, jno[i])  BY <1>2 DEF Knows, ChainOf, Chain
    <2>5. jno[i].type = y.head.type /\ jno[i].name = pnd[d]  BY DEF Agrees
    <2>6. jno[i].type = "dir" => jno[i].parent = Root /\ jno[i].dir.flags = 1
      BY <1>1, <2>5 DEF Dirs, ChainOf, Chain
    <2>7. ASSUME NEW j \in Inodes \ {Root}, Named(ino, j), ino[j].parent = d
          PROVE  ino[j].name # pnd[d]
      <3>1. ino[j].st = "linked"  BY <2>7 DEF Named
      <3>2. PICK x \in E : Has(ino, j, x)  BY <1>1, <3>1, OwnEntry
      <3> QED BY <1>4, <2>7, <3>2 DEF Has
    <2>8. Placed(ino, jno, i)  BY <1>2, <2>4, <2>5, <2>6, <2>7 DEF Placed, IsDirectory
    <2>9. \A z \in E \ {} : z.dir = y.dir /\ z.head.name = y.head.name => z = y  BY <1>4
    <2> QED BY <2>1, <2>2, <2>3, <2>8, <2>9 DEF EntriesStep
  <1>7. TableStep(E, T, {}, {y}, T2)
    <2>1. RootClu \in DOMAIN T /\ (d = Root => c = RootClu)  BY <1>1 DEF DirsTrue, Dirs
    <2>2. \A z \in E : z.head.type = "dir" => z.head.clu \in DOMAIN T  BY <1>1 DEF DirsTrue
    <2> QED BY <2>1, <2>2 DEF TableStep
  <1>8. MissingStep({y}, pnd, jno, pn2)
    <2>1. ASSUME NEW b \in Inodes, pn2[b] # None, y.dir = jno[b].start PROVE FALSE
      <3>1. b # d /\ pnd[b] # None  BY <1>3, <2>1
      <3>2. IsDirectory(ino[b])  BY <1>1, <3>1 DEF Dirs, IsDirectory
      <3>3. b # i  BY <3>2 DEF IsDirectory
      <3>4. ino[b].start = c  BY <2>1, <3>3
      <3>5. Owns(ino[b]) /\ Owns(ino[d])  BY <1>1, <1>2, <3>2, DirOwns DEF Good, IsDirectory
      <3> QED BY <1>1, <3>1, <3>4, <3>5, SameDirectory
    <2> QED BY <1>3, <2>1 DEF MissingStep
  <1> QED BY <1>5, <1>6, <1>7, <1>8 DEF NamesStep, E, pn2

\* init_dir_entry and init_ext_entry, where there is room.
PlacedAt(v, T, c, p, e, h) ==
    LET w == PutEntry(v, p, e, h)
        y == EntryAt(c, e, h)
    IN /\ Rewritten(v, w, T, c, e, {y}) /\ y \notin Entries(v, T)
       /\ Entries(w, T) = Entries(v, T) \cup {y} /\ SameFat(v, w) /\ w.hint = v.hint
LEMMA EnteredSlots ==
  ASSUME NEW v, VolOK(v), NEW T, TableOK(v, T), Ordered(v, T), NEW c \in DOMAIN T,
         NEW p, Through(v, p, T[c]), NEW h \in Heads, NEW e, Spot(View(v, T[c]), e, NameLen[h.name]),
         \A m \in 0 .. NameLen[h.name] - 1 : IsEmpty(View(v, T[c])[e + m])
  PROVE  PlacedAt(v, T, c, p, e, h)
  <1> DEFINE n == NameLen[h.name]
             s == View(v, T[c])
             w == PutEntry(v, p, e, h)
             y == EntryAt(c, e, h)
  <1>1. e \in Nat /\ n \in Nat \ {0} /\ \A m \in 0 .. n - 1 : e + m \in Idx(T[c])
    <2>1. DOMAIN s = Idx(T[c])  BY ViewDomain
    <2> QED BY <2>1 DEF Spot
  <1>2. FatOK(v)  BY DEF VolOK
  <1>3. LeadsTo(v, p, e, T[c], e, n)
    <2> HIDE DEF n
    <2> QED BY <1>1, <1>2, LeadsStraight, Zenon
  <1>4. Rewritten(v, w, T, c, e, {y})  BY <1>1, <1>3, WriteEntry
  <1>5. ASSUME NEW x \in Entries(v, T), x.dir = c, x.at = e PROVE FALSE
    <2>1. x.at \in HeadsAt(s) /\ IsHead(s[e])
      <3>1. x.at \in HeadsAt(View(v, T[x.dir]))  BY EntryFacts
      <3> QED BY <1>5, <3>1 DEF HeadsAt
    <2>2. IsEmpty(s[e])
      <3>1. 0 \in 0 .. n - 1 /\ e + 0 = e  BY <1>1
      <3>2. IsEmpty(s[e + 0])  BY <3>1
      <3> QED BY <3>1, <3>2
    <2> QED BY <2>1, <2>2 DEF IsEmpty, IsHead
  <1>6. y.dir = c /\ y.at = e  BY DEF EntryAt
  <1>7. Entries(w, T) = Entries(v, T) \cup {y}
    <2> HIDE DEF y, w
    <2>1. Entries(w, T) = {x \in Entries(v, T) : ~(x.dir = c /\ x.at = e)} \cup {y}
      BY <1>4 DEF Rewritten
    <2> QED BY <1>5, <2>1
  <1>8. y \notin Entries(v, T)  BY <1>5, <1>6
  <1>9. SameFat(v, w) /\ w.hint = v.hint
    <2>1. w = PutSlots(v, p, e, [m \in 1 .. n |-> IF m = 1 THEN h ELSE Ext])  BY DEF PutEntry
    <2> QED BY <2>1, PutSlotsKeeps
  <1> QED BY <1>4, <1>7, <1>8, <1>9 DEF PlacedAt
LEMMA PendingRoom ==
  ASSUME NEW T, Consistent(vol, inode, pending, T), NEW d \in Inodes, pending[d] # None,
         Lies(vol, ChainOf(inode[d])) = {}
  PROVE  LET e == FindEmpty(vol, inode, d, ChainOf(inode[d]), NameLen[pending[d]])
         IN /\ IsDirectory(inode[d]) /\ pending[d] \in Names
            /\ \E T2 : /\ Made(vol, inode, pending, T, d, e.v, e.ino, T2)
                       /\ RoomMade(e, d, NameLen[pending[d]], T2)
  <1> DEFINE n == NameLen[pending[d]]
  <1>1. IsDirectory(inode[d])  BY ConsistentIs DEF Dirs, IsDirectory
  <1>2. pending[d] \in Names  BY ConsistentIs DEF NamesTrue, NamesMissing
  <1>3. n \in 1 .. SlotsPerClu  BY <1>2, VolumeAssumption
  <1> HIDE DEF n
  <1>4. LET e == FindEmpty(vol, inode, d, ChainOf(inode[d]), n)
        IN \E T2 : Made(vol, inode, pending, T, d, e.v, e.ino, T2) /\ RoomMade(e, d, n, T2)
    BY <1>1, <1>3, FindEmptyMade
  <1> QED BY <1>1, <1>2, <1>4 DEF n

\* A directory where there is room, as it is found.
RoomFacts(ino, pnd, d, e, T2, n, c) ==
    /\ Consistent(e.v, e.ino, pnd, T2) /\ IsDirectory(e.ino[d])
    /\ e.ino[d].start = c /\ ino[d].start = c
    /\ VolOK(e.v) /\ Counted(e.v) /\ TableOK(e.v, T2) /\ Ordered(e.v, T2) /\ Good(e.v, e.ino)
    /\ c \in DOMAIN T2 /\ e.p = ChainOf(e.ino[d]) /\ Through(e.v, e.p, T2[c])
    /\ e.v.hint = NoHint /\ Spot(View(e.v, T2[c]), e.entry, n)
    /\ \A m \in 0 .. n - 1 : IsEmpty(View(e.v, T2[c])[e.entry + m])
    /\ \A j \in Inodes : ino[j].st = "free" => j # d /\ e.ino[j] = ino[j]
LEMMA RoomIn ==
  ASSUME NEW v, NEW ino, NEW pnd, NEW T, NEW d \in Inodes, NEW e, NEW T2, NEW n,
         Made(v, ino, pnd, T, d, e.v, e.ino, T2), RoomMade(e, d, n, T2), e.entry \in Nat,
         IsDirectory(ino[d])
  PROVE  RoomFacts(ino, pnd, d, e, T2, n, ino[d].start)
  <1>1. Consistent(e.v, e.ino, pnd, T2) /\ IsDirectory(e.ino[d]) /\ e.ino[d].start = ino[d].start
    BY DEF Made, InodeGrows, SameName, IsDirectory
  <1>2. e.ino[d].start \in DOMAIN T2 /\ Through(e.v, ChainOf(e.ino[d]), T2[e.ino[d].start])
    BY <1>1, OpenedIs
  <1>3. /\ Ordered(e.v, T2) /\ Good(e.v, e.ino) /\ VolOK(e.v) /\ Counted(e.v) /\ TableOK(e.v, T2)
    BY <1>1, TableIs DEF Consistent, Catalogue, Good
  <1>4. \A j \in Inodes : ino[j].st = "free" => j # d /\ e.ino[j] = ino[j]
    BY DEF Made, InodeGrows, IsDirectory
  <1> QED BY <1>1, <1>2, <1>3, <1>4 DEF RoomMade, RoomFacts

\* exfat_create
LEMMA CreateConsistent ==
  ASSUME NEW T, Consistent(vol, inode, pending, T), faults' = {}, NEW d \in Inodes, Create(d)
  PROVE  \E T2 : Consistent(vol', inode', pending', T2)
  <1> DEFINE name == pending[d]
             n == NameLen[name]
             pn2 == [pending EXCEPT ![d] = None]
             e == FindEmpty(vol, inode, d, ChainOf(inode[d]), n)
             h == NewHead("file", name, 1, Nil, 0)
  <1>1. PICK i \in Inodes :
          /\ inode[i].st = "free"
          /\ IF e.entry < 0 THEN vol' = e.v /\ inode' = e.ino
             ELSE /\ vol' = PutEntry(e.v, e.p, e.entry, h)
                  /\ inode' = [e.ino EXCEPT ![i] = NewInode("file", name, d, e.p, e.entry, 3, EOC, 0)]
    BY DEF Create
  <1>2. /\ pending[d] # None /\ pending' = pn2 /\ Lies(vol, ChainOf(inode[d])) = {}
    BY DEF Create
  <1>3. Dirs(inode', pn2)  BY <1>2, ConsistentIs, CreateKeeps, Zenon
  <1>4. /\ IsDirectory(inode[d]) /\ name \in Names
        /\ \E T2 : /\ Made(vol, inode, pending, T, d, e.v, e.ino, T2)
                   /\ RoomMade(e, d, n, T2)
    BY <1>2, PendingRoom
  <1> HIDE DEF e
  <1>5. PICK T2 : Made(vol, inode, pending, T, d, e.v, e.ino, T2) /\ RoomMade(e, d, n, T2)
    BY <1>4
  <1>6. e.entry \in Nat \cup {-1}  BY <1>5 DEF RoomMade
  <1>7. CASE e.entry = -1
    <2>1. vol' = e.v /\ inode' = e.ino  BY <1>1, <1>7
    <2>2. Consistent(e.v, e.ino, pending, T2)  BY <1>5 DEF Made
    <2> QED BY <1>2, <2>1, <2>2, PendingDropped, Zenon
  <1>8. CASE e.entry \in Nat
    <2> DEFINE v == e.v
               ino == e.ino
               w == vol'
               jno == inode'
               c == ino[d].start
               E == Entries(v, T2)
               y == EntryAt(c, e.entry, h)
    <2>1. /\ Consistent(v, ino, pending, T2) /\ IsDirectory(ino[d]) /\ c = inode[d].start
          /\ VolOK(v) /\ Counted(v) /\ TableOK(v, T2) /\ Ordered(v, T2) /\ Good(v, ino)
          /\ c \in DOMAIN T2 /\ e.p = ChainOf(ino[d]) /\ Through(v, e.p, T2[c])
          /\ v.hint = NoHint /\ Spot(View(v, T2[c]), e.entry, n)
          /\ \A m \in 0 .. n - 1 : IsEmpty(View(v, T2[c])[e.entry + m])
          /\ \A j \in Inodes : inode[j].st = "free" => j # d /\ ino[j] = inode[j]
      <3> HIDE DEF n
      <3>1. RoomFacts(inode, pending, d, e, T2, n, inode[d].start)  BY <1>4, <1>5, <1>8, RoomIn, Zenon
      <3> QED BY <3>1 DEF RoomFacts
    <2>2. /\ h \in Heads /\ h.name = name /\ h.type = "file" /\ h.size = 0
      BY <1>4 DEF NewHead, Heads
    <2>3. /\ w = PutEntry(v, e.p, e.entry, h)
          /\ jno = [ino EXCEPT ![i] = NewInode("file", name, d, e.p, e.entry, 3, EOC, 0)]
      BY <1>1, <1>8
    <2> HIDE DEF h, v
    <2>4. /\ Rewritten(v, w, T2, c, e.entry, {y}) /\ y \notin E
          /\ Entries(w, T2) = E \cup {y} /\ SameFat(v, w) /\ w.hint = v.hint
      <3> HIDE DEF c, y
      <3>0. /\ n = NameLen[h.name] /\ Spot(View(v, T2[c]), e.entry, NameLen[h.name])
            /\ \A m \in 0 .. NameLen[h.name] - 1 : IsEmpty(View(v, T2[c])[e.entry + m])
        BY <2>1, <2>2
      <3> HIDE DEF n, w
      <3>1. /\ Rewritten(v, w, T2, c, e.entry, {EntryAt(c, e.entry, h)})
            /\ EntryAt(c, e.entry, h) \notin Entries(v, T2)
            /\ Entries(w, T2) = Entries(v, T2) \cup {EntryAt(c, e.entry, h)}
            /\ SameFat(v, w) /\ w.hint = v.hint
        <4> DEFINE p == e.p
                   at == e.entry
        <4>1. /\ VolOK(v) /\ TableOK(v, T2) /\ Ordered(v, T2) /\ c \in DOMAIN T2
              /\ Through(v, p, T2[c]) /\ h \in Heads
              /\ Spot(View(v, T2[c]), at, NameLen[h.name])
              /\ \A m \in 0 .. NameLen[h.name] - 1 : IsEmpty(View(v, T2[c])[at + m])
          BY <2>1, <2>2, <3>0
        <4> HIDE DEF p, at
        <4>2. PlacedAt(v, T2, c, p, at, h)
          BY ONLY <4>1, EnteredSlots
        <4> QED BY <2>3, <4>2 DEF PlacedAt, p, at
      <3> QED BY <3>1 DEF y
    <2>5. /\ i # d /\ ino[i] = inode[i] /\ ino[i].st = "free" /\ DOMAIN ino = Inodes
      BY <1>1, <2>1 DEF Good
    <2>6. /\ jno[i] = NewInode("file", name, d, e.p, e.entry, 3, EOC, 0)
          /\ \A j \in Inodes : j # i => jno[j] = ino[j]
          /\ DOMAIN jno = Inodes
      BY <2>3, <2>5
    <2>7. InodeOK(jno[i]) /\ ~Owns(jno[i])  BY <2>6, NewFileIs
    <2>8. /\ jno[i].st = "linked" /\ jno[i].type = "file" /\ jno[i].name = name
          /\ jno[i].parent = d /\ jno[i].dir = e.p /\ jno[i].entry = e.entry /\ jno[i].start = EOC
          /\ jno[i].size = 0
      BY <2>6 DEF NewInode
    <2>9. y.dir = c /\ y.at = e.entry /\ y.head = h  BY DEF EntryAt
    <2> HIDE DEF ino, w, jno, y
    <2>10. Keeps(v, ino, w, jno)
      <3>1. ChainsSame(v, w)  BY <2>1, <2>4, SameFatChains
      <3>2. \A j \in Inodes : InodeOK(jno[j]) /\ (Owns(jno[j]) => SameData(ino[j], jno[j]))
        BY <2>1, <2>6, <2>7 DEF Good, SameData
      <3> QED BY <2>1, <2>6, <3>1, <3>2, KeepsChains
    <2>11. Agrees(jno[i], h)  BY <2>2, <2>8 DEF Agrees
    <2>12. Entered(v, ino, pending, T2, d, i, y, jno, T2)
      BY <1>2, <1>3, <1>8, <2>1, <2>2, <2>5, <2>6, <2>7, <2>8, <2>9, <2>11 DEF Entered, c, jno
    <2>13. NamesStep(E, v, ino, pending, T2, i, {}, {y}, jno, pn2, T2)
      BY <2>1, <2>12, EnteredNames, Zenon
    <2>14. UsedBy(v, ino[i]) = {} /\ ~Owns(ino[i])  BY <2>5 DEF UsedBy, Owns
    <2>15. DataSteps(v, ino, w, jno, i)
      <3>1. OthersStay(v, w, UsedBy(v, ino[i]))
        <4>1. \A p, q : Through(v, p, q) => Through(w, p, q)  BY <2>1, <2>4, SameFatIs
        <4>2. w.bitmap = v.bitmap  BY <2>4 DEF SameFat, SameClusters
        <4> QED BY <2>14, <4>1, <4>2 DEF OthersStay
      <3>2. \A j \in Inodes : j # i => SameOwner(ino[j], jno[j])  BY <2>6 DEF SameOwner
      <3>3. w.bitmap \subseteq (v.bitmap \ UsedBy(v, ino[i])) \cup UsedBy(w, jno[i])
        BY <2>4, <2>14 DEF SameFat, SameClusters
      <3> QED BY <2>1, <2>10, <3>1, <3>2, <3>3 DEF DataSteps, Keeps
    <2>16. TableSteps(v, ino, T2, w, jno, T2, i)  BY <2>8 DEF TableSteps, IsDirectory
    <2>17. Catalogue(Entries(w, T2), w, jno, pn2, T2)
      <3> DEFINE X == {}
                 Y == {y}
      <3>1. /\ \A z \in E : Named(ino, i) /\ Has(ino, i, z) => z \in X
            /\ Y \cap (E \ X) = {} /\ NamesStep(E, v, ino, pending, T2, i, X, Y, jno, pn2, T2)
        BY <2>4, <2>5, <2>13 DEF Named
      <3>2. Entries(w, T2) = (E \ X) \cup Y  BY <2>4
      <3>3. Catalogue(E, v, ino, pending, T2)  BY <2>1 DEF Consistent
      <3> HIDE DEF X, Y, E, pn2
      <3>4. Catalogue((E \ X) \cup Y, w, jno, pn2, T2)
        BY <2>15, <2>16, <3>1, <3>3, CatalogueStep
      <3> QED BY <3>2, <3>4
    <2>18. Ordered(w, T2)  BY <2>4 DEF Rewritten
    <2>19. HintTrue(Entries(w, T2), w, T2)
      <3>1. HintType(w.hint) /\ w.hint.entry = -1  BY <2>1, <2>4, NoHintIs
      <3> QED BY <3>1, NoHintIs
    <2>20. Consistent(w, jno, pn2, T2)  BY <2>17, <2>18, <2>19 DEF Consistent
    <2> QED BY <1>2, <2>20 DEF w, jno
  <1> QED BY <1>6, <1>7, <1>8

-----------------------------------------------------------------------------
(* A directory is made: it gets a cluster that was free, which is cleared. *)
Added(T, x) == [c \in DOMAIN T \cup {x} |-> IF c = x THEN <<x>> ELSE T[c]]

LEMMA AddedIs ==
  ASSUME NEW v, NEW T, TableOK(v, T), Ordered(v, T), NEW x \in Clusters \ v.bitmap,
         NEW w, w.slots = Over(Block({x}, Unused), v.slots), w.bitmap = v.bitmap \cup {x}
  PROVE  LET T2 == Added(T, x)
         IN /\ x \notin DOMAIN T /\ DOMAIN T2 = DOMAIN T \cup {x} /\ T2[x] = <<x>>
            /\ \A c \in DOMAIN T : T2[c] = T[c] /\ View(w, T2[c]) = View(v, T[c])
            /\ TableOK(w, T2) /\ Ordered(w, T2) /\ Entries(w, T2) = Entries(v, T)
  <1> DEFINE T2 == Added(T, x)
             q == <<x>>
  <1>1. q \in Seq(Clusters) /\ Len(q) = 1 /\ q[1] = x  OBVIOUS
  <1>2. /\ \A c \in DOMAIN T : T[c] \in Seq(Clusters) /\ Len(T[c]) > 0 /\ T[c][1] = c
        /\ \A c \in DOMAIN T : Len(T[c]) \in Nat /\ Of(T[c]) \subseteq v.bitmap
    BY LenProperties DEF TableOK
  <1>3. x \notin DOMAIN T
    <2> SUFFICES ASSUME x \in DOMAIN T PROVE FALSE  OBVIOUS
    <2>1. 1 \in 1 .. Len(T[x]) /\ T[x][1] = x  BY <1>2
    <2>2. x \in Of(T[x])  BY <2>1 DEF Of
    <2> QED BY <1>2, <2>2
  <1>4. DOMAIN T2 = DOMAIN T \cup {x} /\ T2[x] = q /\ \A c \in DOMAIN T : T2[c] = T[c]
    BY <1>3 DEF Added
  <1> HIDE DEF T2, q
  <1>5. Of(q) = {x}
    <2>1. 1 \in 1 .. Len(q) /\ \A k \in 1 .. Len(q) : k = 1  BY <1>1
    <2> QED BY <1>1, <2>1 DEF Of
  <1>6. /\ SlotsOK(v) /\ SlotsOK(w)
        /\ \A loc \in Clusters \X (0 .. SlotsPerClu - 1) :
              w.slots[loc] = IF loc[1] = x THEN Unused ELSE v.slots[loc]
    <2>1. SlotsOK(v)  BY DEF Ordered
    <2> QED BY <2>1, ClearedSlots
  <1>7. ASSUME NEW c \in DOMAIN T PROVE View(w, T2[c]) = View(v, T[c])
    <2>1. SlotsStay(v, w, {x})  BY <1>6, Zenon DEF SlotsStay, SlotsOK
    <2>2. Of(T[c]) \cap {x} = {} /\ T[c] \in Seq(Clusters)  BY <1>2
    <2>3. View(w, T[c]) = View(v, T[c])  BY <1>6, <2>1, <2>2, ViewsElsewhere
    <2> QED BY <1>4, <2>3
  <1>8. TableOK(w, T2)
    <2>1. \A c \in DOMAIN T2 : /\ T2[c] \in Seq(Clusters) /\ Len(T2[c]) > 0 /\ T2[c][1] = c
                               /\ \A j, k \in 1 .. Len(T2[c]) : T2[c][j] = T2[c][k] => j = k
                               /\ Of(T2[c]) \subseteq w.bitmap
      <3>1. \A j, k \in 1 .. Len(q) : j = k  BY <1>1
      <3> QED BY <1>1, <1>2, <1>4, <1>5, <3>1 DEF TableOK
    <2>2. \A c, d \in DOMAIN T2 : c # d => Of(T2[c]) \cap Of(T2[d]) = {}
      BY <1>2, <1>3, <1>4, <1>5 DEF TableOK
    <2> QED BY <2>1, <2>2 DEF TableOK
  <1>9. ASSUME NEW j \in DOMAIN View(w, q) PROVE View(w, q)[j] = Unused
    <2>1. j \in Idx(q) /\ View(w, q)[j] = w.slots[Loc(q, j)]  BY <1>9 DEF View, Idx
    <2>2. Loc(q, j) \in Clusters \X (0 .. SlotsPerClu - 1) /\ Loc(q, j)[1] \in Of(q)
      BY <1>1, <2>1, LocFacts
    <2> QED BY <1>5, <1>6, <2>1, <2>2, Zenon
  <1>10. Ordered(w, T2)
    <2>1. InOrder(View(w, q))  BY <1>9, SlotKinds DEF InOrder
    <2> QED BY <1>4, <1>6, <1>7, <2>1 DEF Ordered
  <1>11. Entries(w, T2) = Entries(v, T)
    <2>1. ASSUME NEW z PROVE z \in Entries(w, T2) <=> z \in Entries(v, T)
      <3>1. z.dir \in DOMAIN T => View(w, T2[z.dir]) = View(v, T[z.dir])  BY <1>7
      <3>2. z.dir = x => z.at \notin HeadsAt(View(w, T2[z.dir]))
        BY <1>4, <1>9, SlotKinds DEF HeadsAt
      <3> QED BY <1>3, <1>4, <3>1, <3>2, EntryIs
    <2> QED BY <2>1, Zenon
  <1> QED BY <1>3, <1>4, <1>7, <1>8, <1>10, <1>11 DEF T2, q

\* exfat_mkdir: the slots of the volume.
DirectoryPlaced(v, T, a, c, p, e, h) ==
    LET u == [a.v EXCEPT !.slots = Over(Block({a.clu}, Unused), @)]
        w == PutEntry(u, p, e, h)
        T2 == Added(T, a.clu)
        y == EntryAt(c, e, h)
    IN /\ SameFat(a.v, w) /\ w.hint = v.hint /\ Ordered(w, T2)
       /\ a.clu \notin DOMAIN T /\ DOMAIN T2 = DOMAIN T \cup {a.clu} /\ T2[a.clu] = <<a.clu>>
       /\ \A b \in DOMAIN T : T2[b] = T[b]
       /\ y \notin Entries(v, T) /\ Entries(w, T2) = Entries(v, T) \cup {y}

LEMMA DirectorySlots ==
  ASSUME NEW v, VolOK(v), NEW T, TableOK(v, T), Ordered(v, T), NEW c \in DOMAIN T,
         NEW p, Through(v, p, T[c]), NEW a, Takes(v, EOC, 3, a), OthersStay(v, a.v, {}),
         NEW h \in Heads, NEW e, Spot(View(v, T[c]), e, NameLen[h.name]),
         \A m \in 0 .. NameLen[h.name] - 1 : IsEmpty(View(v, T[c])[e + m])
  PROVE  DirectoryPlaced(v, T, a, c, p, e, h)
  <1> DEFINE s == Over(Block({a.clu}, Unused), a.v.slots)
             u == [a.v EXCEPT !.slots = s]
             w == PutEntry(u, p, e, h)
             x == a.clu
             T2 == Added(T, x)
             y == EntryAt(c, e, h)
  <1>1. /\ x \in Clusters \ v.bitmap /\ a.v.bitmap = v.bitmap \cup {x}
        /\ a.v.slots = v.slots /\ a.v.hint = v.hint /\ VolOK(a.v)
    BY DEF Takes
  <1>2. SameFat(a.v, u) /\ u.slots = s /\ u.hint = a.v.hint
    BY <1>1, SlotsAndHint, Zenon DEF VolOK, Fields
  <1> HIDE DEF u
  <1>3. /\ VolOK(u) /\ u.bitmap = v.bitmap \cup {x} /\ u.slots = Over(Block({x}, Unused), v.slots)
        /\ \A b, q : Through(a.v, b, q) => Through(u, b, q)
    BY <1>1, <1>2, SameFatIs, Zenon DEF SameFat, SameClusters
  <1> HIDE DEF s
  <1>4. /\ x \notin DOMAIN T /\ DOMAIN T2 = DOMAIN T \cup {x} /\ T2[x] = <<x>>
        /\ \A b \in DOMAIN T : T2[b] = T[b] /\ View(u, T2[b]) = View(v, T[b])
        /\ TableOK(u, T2) /\ Ordered(u, T2) /\ Entries(u, T2) = Entries(v, T)
    <2> HIDE DEF x
    <2>1. /\ x \notin DOMAIN T /\ DOMAIN Added(T, x) = DOMAIN T \cup {x} /\ Added(T, x)[x] = <<x>>
          /\ \A b \in DOMAIN T : Added(T, x)[b] = T[b] /\ View(u, Added(T, x)[b]) = View(v, T[b])
          /\ TableOK(u, Added(T, x)) /\ Ordered(u, Added(T, x))
          /\ Entries(u, Added(T, x)) = Entries(v, T)
      <3>1. /\ TableOK(v, T) /\ Ordered(v, T) /\ x \in Clusters \ v.bitmap
            /\ u.slots = Over(Block({x}, Unused), v.slots) /\ u.bitmap = v.bitmap \cup {x}
        BY <1>1, <1>3 DEF x
      <3>2. LET T3 == Added(T, x)
            IN /\ x \notin DOMAIN T /\ DOMAIN T3 = DOMAIN T \cup {x} /\ T3[x] = <<x>>
               /\ \A b \in DOMAIN T : T3[b] = T[b] /\ View(u, T3[b]) = View(v, T[b])
               /\ TableOK(u, T3) /\ Ordered(u, T3) /\ Entries(u, T3) = Entries(v, T)
        BY ONLY <3>1, AddedIs, SMTT(60)
      <3> QED BY <3>2
    <2> QED BY <2>1
  <1>5. Through(u, p, T2[c])
    <2>1. Of(T[c]) \subseteq v.bitmap \ {}  BY DEF TableOK
    <2>2. Through(a.v, p, T[c])  BY <2>1 DEF OthersStay
    <2> QED BY <1>3, <1>4, <2>2
  <1> HIDE DEF T2, w, x
  <1>6. PlacedAt(u, T2, c, p, e, h)
    <2>1. c \in DOMAIN T2 /\ View(u, T2[c]) = View(v, T[c])  BY <1>4
    <2> QED BY <1>3, <1>4, <1>5, <2>1, EnteredSlots
  <1>7. /\ Rewritten(u, w, T2, c, e, {y}) /\ y \notin Entries(v, T)
        /\ Entries(w, T2) = Entries(v, T) \cup {y} /\ SameFat(u, w) /\ w.hint = v.hint
    BY <1>1, <1>2, <1>4, <1>6 DEF PlacedAt, w
  <1>8. SameFat(a.v, w)  BY <1>2, <1>7, SameFatTrans
  <1>9. Ordered(w, T2)  BY <1>7 DEF Rewritten
  <1> QED BY <1>4, <1>7, <1>8, <1>9 DEF DirectoryPlaced, w, T2, x, u, s

LEMMA NothingTaken ==
  ASSUME NEW v, NEW ino, NEW pnd, NEW T, Consistent(v, ino, pnd, T), NEW a, TakesNone(v, 3, a),
         Counted(a.v)
  PROVE  Consistent(a.v, ino, pnd, T)
  <1>1. /\ Good(v, ino) /\ Dirs(ino, pnd) /\ HintTrue(Entries(v, T), v, T)
        /\ NamesMissing(Entries(v, T), ino, pnd)
    BY DEF Consistent, Catalogue, NamesTrue
  <1>2. ChainsSame(v, a.v) /\ a.v.slots = v.slots /\ a.v.hint = v.hint
    BY DEF TakesNone, SameClusters, ChainsSame
  <1>3. Keeps(v, ino, a.v, ino)  BY <1>1, <1>2, VolumeKeeps
  <1>4. HintTrue(Entries(v, T), a.v, T)  BY <1>1, <1>2, HintSame
  <1>5. QuietStep(v, ino, pnd, T, None, a.v, ino, pnd)
    <2>1. None \notin Inodes /\ None # Root  BY NoneAssumption, VolumeAssumption
    <2> QED BY <1>1, <1>2, <1>3, <1>4, <2>1 DEF QuietStep, Keeps
  <1> QED BY <1>5, QuietKeeps

\* exfat_mkdir: the directory d, the free inode i, the new cluster of a.
MkdirMakes(v, ino, pnd, T, d, i, p, e, a, h, w, jno) ==
    /\ Consistent(v, ino, pnd, T) /\ d = Root /\ d \in Inodes /\ IsDirectory(ino[d])
    /\ pnd[d] # None /\ p = ChainOf(ino[d]) /\ e \in Nat
    /\ i \in Inodes /\ ino[i].st = "free"
    /\ Takes(v, EOC, 3, a) /\ Counted(a.v) /\ OthersStay(v, a.v, {})
    /\ h \in Heads /\ h.type = "dir" /\ h.name = pnd[d] /\ h.clu = a.clu /\ h.flags = 3 /\ h.size = 1
    /\ DirectoryPlaced(v, T, a, ino[d].start, p, e, h)
    /\ w = PutEntry([a.v EXCEPT !.slots = Over(Block({a.clu}, Unused), @)], p, e, h)
    /\ jno = [ino EXCEPT ![i] = NewInode("dir", h.name, d, p, e, 3, a.clu, 1)]
    /\ v.hint = NoHint /\ Dirs(jno, [pnd EXCEPT ![d] = None])

LEMMA MkdirMakesIt ==
  ASSUME NEW v, NEW ino, NEW pnd, NEW T, NEW d, NEW i, NEW p, NEW e, NEW a, NEW h, NEW w, NEW jno,
         MkdirMakes(v, ino, pnd, T, d, i, p, e, a, h, w, jno)
  PROVE  Consistent(w, jno, [pnd EXCEPT ![d] = None], Added(T, a.clu))
  <1> DEFINE x == a.clu
             T2 == Added(T, x)
             c == ino[d].start
             E == Entries(v, T)
             y == EntryAt(c, e, h)
             f == NewInode("dir", h.name, d, p, e, 3, x, 1)
             pn2 == [pnd EXCEPT ![d] = None]
  <1>1. /\ SameFat(a.v, w) /\ w.hint = v.hint /\ Ordered(w, T2)
        /\ x \notin DOMAIN T /\ DOMAIN T2 = DOMAIN T \cup {x} /\ T2[x] = <<x>>
        /\ \A b \in DOMAIN T : T2[b] = T[b]
        /\ y \notin E /\ Entries(w, T2) = E \cup {y}
    BY DEF MkdirMakes, DirectoryPlaced
  <1>2. /\ Consistent(v, ino, pnd, T) /\ d = Root /\ d \in Inodes /\ IsDirectory(ino[d])
        /\ pnd[d] # None /\ p = ChainOf(ino[d]) /\ e \in Nat /\ i \in Inodes /\ ino[i].st = "free"
        /\ Takes(v, EOC, 3, a) /\ OthersStay(v, a.v, {}) /\ v.hint = NoHint
        /\ h \in Heads /\ h.type = "dir" /\ h.name = pnd[d] /\ h.clu = x /\ h.flags = 3 /\ h.size = 1
        /\ Dirs(jno, pn2)
    BY DEF MkdirMakes
  <1>3. /\ Good(v, ino) /\ DOMAIN ino = Inodes /\ VolOK(v) /\ TableOK(v, T)
        /\ \A j \in Inodes : InodeOK(ino[j])
    BY <1>2, TableIs DEF Consistent, Catalogue, Good
  <1>4. x \in Clusters \ v.bitmap /\ a.v.bitmap = v.bitmap \cup {x} /\ VolOK(a.v)
    BY <1>2 DEF Takes
  <1>5. /\ f.st = "linked" /\ f.type = "dir" /\ f.name = pnd[d] /\ f.parent = d /\ f.dir = p
        /\ f.entry = e /\ f.flags = 3 /\ f.start = x /\ f.size = 1 /\ f.hoff = -1 /\ ~f.dirty
    BY <1>2 DEF NewInode
  <1>6. InodeOK(f) /\ Owns(f) /\ x # EOC
    <2>1. x # EOC  BY <1>4, ClusterFacts
    <2> QED BY <2>1 DEF NewInode, InodeOK, Owns
  <1>7. /\ \A j \in Inodes : jno[j] = IF j = i THEN f ELSE ino[j]
        /\ DOMAIN jno = Inodes
    BY <1>2, <1>3 DEF MkdirMakes
  <1> HIDE DEF f
  <1>8. OneDirectory(v, a, w, f)
    <2>1. Counted(a.v)  BY DEF MkdirMakes
    <2>2. ChainsSame(a.v, w)  BY <1>1, <1>4, <2>1, SameFatChains
    <2> QED BY <1>2, <1>5, <1>6, <2>2 DEF OneDirectory
  <1>9. Keeps(v, ino, w, jno)  BY <1>2, <1>3, <1>7, <1>8, OneDirectoryKeeps
  <1>10. Clus(w, f) = <<x>> /\ Of(<<x>>) = {x}
    <2>1. Whole(w, f, <<x>>) /\ Of(<<x>>) = {x}  BY <1>8, OneDirectoryIs
    <2>2. VolOK(w)  BY <1>9 DEF Keeps, Good
    <2> QED BY <2>1, <2>2, WholeIsClus
  <1>11. y.dir = c /\ y.at = e /\ y.head = h  BY DEF EntryAt
  <1> HIDE DEF y, x, pn2
  <1>12. Agrees(f, h)  BY <1>2, <1>5, <1>6 DEF Agrees
  <1>13. Entered(v, ino, pnd, T, d, i, y, jno, T2)
    <2>1. Dirs(jno, [pnd EXCEPT ![d] = None])  BY <1>2 DEF pn2
    <2> HIDE DEF T2
    <2> QED BY <1>1, <1>2, <1>5, <1>6, <1>7, <1>11, <1>12, <2>1 DEF Entered
  <1> HIDE DEF T2
  <1>14. NamesStep(E, v, ino, pnd, T, i, {}, {y}, jno, pn2, T2)
    BY <1>2, <1>13, EnteredNames, Zenon DEF pn2
  <1>15. UsedBy(v, ino[i]) = {} /\ UsedBy(w, jno[i]) = {x}
    BY <1>2, <1>6, <1>7, <1>10 DEF UsedBy, Owns
  <1>16. DataSteps(v, ino, w, jno, i)
    <2>1. OthersStay(v, w, {})
      <3>1. \A q, r : Through(a.v, q, r) => Through(w, q, r)  BY <1>1, <1>4, SameFatIs
      <3>2. w.bitmap = a.v.bitmap  BY <1>1 DEF SameFat, SameClusters
      <3> QED BY <1>2, <3>1, <3>2 DEF OthersStay
    <2>2. \A j \in Inodes : j # i => SameOwner(ino[j], jno[j])  BY <1>7 DEF SameOwner
    <2>3. w.bitmap \subseteq (v.bitmap \ UsedBy(v, ino[i])) \cup UsedBy(w, jno[i])
      BY <1>1, <1>4, <1>15 DEF SameFat, SameClusters
    <2> QED BY <1>2, <1>3, <1>9, <1>15, <2>1, <2>2, <2>3 DEF DataSteps, Keeps
  <1>17. TableSteps(v, ino, T, w, jno, T2, i)
    <2>1. jno[i] = f /\ Len(<<x>>) = 1  BY <1>2, <1>7
    <2> QED BY <1>1, <1>5, <1>10, <2>1, Zenon DEF TableSteps
  <1>18. Catalogue(Entries(w, T2), w, jno, pn2, T2)
    <2> DEFINE X == {}
               Y == {y}
    <2>1. /\ \A z \in E : Named(ino, i) /\ Has(ino, i, z) => z \in X
          /\ Y \cap (E \ X) = {} /\ NamesStep(E, v, ino, pnd, T, i, X, Y, jno, pn2, T2)
      BY <1>1, <1>2, <1>14 DEF Named
    <2>2. Entries(w, T2) = (E \ X) \cup Y  BY <1>1
    <2>3. Catalogue(E, v, ino, pnd, T)  BY <1>2 DEF Consistent
    <2> HIDE DEF X, Y, E
    <2>4. Catalogue((E \ X) \cup Y, w, jno, pn2, T2)
      BY <1>16, <1>17, <2>1, <2>3, CatalogueStep
    <2> QED BY <2>2, <2>4
  <1>19. HintTrue(Entries(w, T2), w, T2)
    <2>1. HintType(w.hint) /\ w.hint.entry = -1  BY <1>1, <1>2, NoHintIs
    <2> QED BY <2>1, NoHintIs
  <1> QED BY <1>1, <1>18, <1>19 DEF Consistent, T2, x, pn2

LEMMA MkdirConsistent ==
  ASSUME NEW T, Consistent(vol, inode, pending, T), faults' = {}, NEW d \in Inodes, Mkdir(d)
  PROVE  \E T2 : Consistent(vol', inode', pending', T2)
  <1> DEFINE name == pending[d]
             n == NameLen[name]
             pn2 == [pending EXCEPT ![d] = None]
             e == FindEmpty(vol, inode, d, ChainOf(inode[d]), n)
             a == AllocCluster(e.v, EOC, 3)
             h == NewHead("dir", name, 3, a.clu, 1)
             w == PutEntry([a.v EXCEPT !.slots = Over(Block({a.clu}, Unused), @)], e.p, e.entry, h)
  <1>1. PICK i \in Inodes :
          /\ inode[i].st = "free"
          /\ IF e.entry < 0 \/ a.clu = EOC
             THEN vol' = (IF e.entry < 0 THEN e.v ELSE a.v) /\ inode' = e.ino
             ELSE /\ vol' = w
                  /\ inode' = [e.ino EXCEPT ![i] = NewInode("dir", name, d, e.p, e.entry, 3, a.clu, 1)]
    BY SMTT(60) DEF Mkdir
  <1>2. /\ pending[d] # None /\ pending' = pn2 /\ Lies(vol, ChainOf(inode[d])) = {} /\ d = Root
    BY DEF Mkdir
  <1>3. Dirs(inode', pn2)  BY <1>2, ConsistentIs, MkdirKeeps, Zenon
  <1>4. /\ IsDirectory(inode[d]) /\ name \in Names
        /\ \E T2 : /\ Made(vol, inode, pending, T, d, e.v, e.ino, T2)
                   /\ RoomMade(e, d, n, T2)
    BY <1>2, PendingRoom
  <1> HIDE DEF e
  <1>5. PICK T2 : Made(vol, inode, pending, T, d, e.v, e.ino, T2) /\ RoomMade(e, d, n, T2)
    BY <1>4
  <1>6. e.entry \in Nat \cup {-1}  BY <1>5 DEF RoomMade
  <1>7. Consistent(e.v, e.ino, pending, T2)  BY <1>5 DEF Made
  <1>8. VolOK(e.v) /\ Counted(e.v)  BY <1>7 DEF Consistent, Catalogue, Good
  <1>9. /\ Takes(e.v, EOC, 3, a) \/ TakesNone(e.v, 3, a)
        /\ Counted(a.v) /\ OthersStay(e.v, a.v, {})
    BY <1>8, AllocTakesAFreeCluster, Zenon
  <1> HIDE DEF a
  <1>10. CASE e.entry = -1
    <2>1. vol' = e.v /\ inode' = e.ino  BY <1>1, <1>10
    <2> QED BY <1>2, <1>7, <2>1, PendingDropped, Zenon
  <1>11. CASE e.entry \in Nat /\ a.clu = EOC
    <2>1. vol' = a.v /\ inode' = e.ino  BY <1>1, <1>11
    <2>2. TakesNone(e.v, 3, a)  BY <1>9, <1>11, ClusterFacts DEF Takes
    <2>3. Consistent(a.v, e.ino, pending, T2)  BY <1>7, <1>9, <2>2, NothingTaken
    <2> QED BY <1>2, <2>1, <2>3, PendingDropped, Zenon
  <1>12. CASE e.entry \in Nat /\ a.clu # EOC
    <2> DEFINE v == e.v
               ino == e.ino
               c == ino[d].start
               p == e.p
               at == e.entry
    <2>1. /\ Consistent(v, ino, pending, T2) /\ IsDirectory(ino[d]) /\ c = inode[d].start
          /\ VolOK(v) /\ Counted(v) /\ TableOK(v, T2) /\ Ordered(v, T2) /\ Good(v, ino)
          /\ c \in DOMAIN T2 /\ p = ChainOf(ino[d]) /\ Through(v, p, T2[c])
          /\ v.hint = NoHint /\ Spot(View(v, T2[c]), at, n)
          /\ \A m \in 0 .. n - 1 : IsEmpty(View(v, T2[c])[at + m])
          /\ \A j \in Inodes : inode[j].st = "free" => j # d /\ ino[j] = inode[j]
      <3> HIDE DEF n
      <3>1. RoomFacts(inode, pending, d, e, T2, n, inode[d].start)  BY <1>4, <1>5, <1>12, RoomIn, Zenon
      <3> QED BY <3>1 DEF RoomFacts
    <2>2. Takes(v, EOC, 3, a) /\ OthersStay(v, a.v, {}) /\ Counted(a.v) /\ a.clu \in Clusters
      BY <1>9, <1>12 DEF Takes, TakesNone
    <2>3. /\ h \in Heads /\ h.name = name /\ h.type = "dir" /\ h.size = 1 /\ h.flags = 3
          /\ h.clu = a.clu
      BY <1>4, <2>2 DEF NewHead, Heads
    <2>4. /\ vol' = PutEntry([a.v EXCEPT !.slots = Over(Block({a.clu}, Unused), @)], p, at, h)
          /\ inode' = [ino EXCEPT ![i] = NewInode("dir", h.name, d, p, at, 3, a.clu, 1)]
      BY <1>1, <1>12, <2>3
    <2> HIDE DEF h, v, p, at
    <2>5. DirectoryPlaced(v, T2, a, c, p, at, h)
      <3> HIDE DEF c
      <3>1. /\ VolOK(v) /\ TableOK(v, T2) /\ Ordered(v, T2) /\ c \in DOMAIN T2
            /\ Through(v, p, T2[c]) /\ h \in Heads
            /\ Spot(View(v, T2[c]), at, NameLen[h.name])
            /\ \A m \in 0 .. NameLen[h.name] - 1 : IsEmpty(View(v, T2[c])[at + m])
        BY <2>1, <2>3
      <3> QED BY ONLY <2>2, <3>1, DirectorySlots
    <2>6. /\ ino[i].st = "free" /\ at \in Nat  BY <1>1, <1>12, <2>1 DEF at
    <2>7. MkdirMakes(v, ino, pending, T2, d, i, p, at, a, h, vol', inode')
      BY <1>2, <1>3, <2>1, <2>2, <2>3, <2>4, <2>5, <2>6 DEF MkdirMakes
    <2> HIDE DEF ino
    <2>8. Consistent(vol', inode', pn2, Added(T2, a.clu))
      <3> HIDE DEF n, name
      <3>1. PICK w2, jno : w2 = vol' /\ jno = inode'  OBVIOUS
      <3>2. MkdirMakes(v, ino, pending, T2, d, i, p, at, a, h, w2, jno)  BY <2>7, <3>1
      <3>3. Consistent(w2, jno, pn2, Added(T2, a.clu))  BY ONLY <3>2, MkdirMakesIt
      <3> QED BY <3>1, <3>3
    <2> QED BY <1>2, <2>8
  <1> QED BY <1>6, <1>10, <1>11, <1>12

-----------------------------------------------------------------------------
(* An entry is removed.                                                    *)

\* The inode i forgets its entry x, and T2 the directory that it was.
Forgets(E, v, ino, pnd, T, i, x, jno, T2) ==
    /\ Good(v, ino) /\ Dirs(ino, pnd) /\ NamesTrue(E, ino, pnd, T)
    /\ Named(ino, i) /\ x \in E /\ Has(ino, i, x)
    /\ \A j \in Inodes : j # i => jno[j] = ino[j]
    /\ jno[i].st # "linked" /\ InodeOK(jno[i]) /\ Dirs(jno, pnd)
    /\ IF IsDirectory(ino[i]) THEN /\ DOMAIN T2 = DOMAIN T \ {ino[i].start}
                                   /\ \A z \in E : z.dir # ino[i].start
       ELSE DOMAIN T2 = DOMAIN T

LEMMA ForgetsNames ==
  ASSUME NEW E, NEW v, NEW ino, NEW pnd, NEW T, NEW i, NEW x, NEW jno, NEW T2,
         Forgets(E, v, ino, pnd, T, i, x, jno, T2)
  PROVE  NamesStep(E, v, ino, pnd, T, i, {x}, {}, jno, pnd, T2)
  <1> USE DEF Forgets
  <1>1. /\ DirsTrue(E, ino, T) /\ EntriesTrue(E, T) /\ i \in Inodes \ {Root} /\ ino[i].st = "linked"
        /\ ~Named(jno, i)
    BY DEF NamesTrue, Named
  <1>2. Home(E, ino, i, x)  BY <1>1, HasIsHome
  <1>3. Agrees(ino[i], x.head) /\ x.head.type = ino[i].type
    BY <1>2 DEF Home, Agrees
  <1>4. IsDirectory(ino[i]) => x.head.clu = ino[i].start
    <2>1. IsDirectory(ino[i]) => ino[i].start # EOC
      BY <1>1, DirOwns DEF Good, IsDirectory, Owns
    <2> QED BY <1>3, <2>1 DEF Agrees
  <1>5. InodesStep(v, ino, pnd, i, jno, pnd)
    <2>1. NamesStay(ino, jno, i)  BY DEF NamesStay
    <2>2. ASSUME IsDirectory(ino[i]), NEW j \in Inodes \ {Root}, Named(ino, j), ino[j].parent = i
          PROVE  FALSE
      <3>1. ino[j].st = "linked"  BY <2>2 DEF Named
      <3>2. PICK y \in E : Has(ino, j, y)  BY <3>1, OwnEntry
      <3> QED BY <2>2, <3>2 DEF Has
    <2>3. DirsStay(ino, jno, i)  BY <1>1, <2>2 DEF DirsStay, IsDirectory
    <2>4. \A j \in Inodes : InodeOK(jno[j])  BY DEF Good
    <2> QED BY <1>1, <2>1, <2>3, <2>4 DEF InodesStep
  <1>6. EntriesStep(E, ino, i, {x}, {}, jno, T2)  BY <1>1 DEF EntriesStep
  <1>7. TableStep(E, T, {x}, {}, T2)
    <2>1. IsDirectory(ino[i]) <=> x.head.type = "dir"  BY <1>1, <1>3 DEF IsDirectory
    <2>2. x.head.type = "dir" => x.head.clu # RootClu  BY <1>1 DEF DirsTrue
    <2>3. RootClu \in DOMAIN T  BY <1>1 DEF DirsTrue
    <2>4. \A c \in DOMAIN T2 : c \in DOMAIN T /\ (x.head.type = "dir" => x.head.clu # c)
      BY <1>4, <2>1
    <2>5. \A c \in DOMAIN T \ DOMAIN T2 : /\ x.head.type = "dir" /\ x.head.clu = c
                                          /\ \A z \in E : z.dir # c
      BY <1>4, <2>1
    <2> QED BY <1>4, <2>1, <2>2, <2>3, <2>4, <2>5 DEF TableStep
  <1>8. MissingStep({}, pnd, jno, pnd)  BY DEF MissingStep
  <1> QED BY <1>5, <1>6, <1>7, <1>8 DEF NamesStep

\* is_dir_empty
LEMMA EmptyDirectory ==
  ASSUME NEW v, NEW ino, NEW pnd, NEW T, Consistent(v, ino, pnd, T), NEW i \in Inodes,
         IsDirectory(ino[i]), IsDirEmpty(v, ChainOf(ino[i]))
  PROVE  \A x \in Entries(v, T) : x.dir # ino[i].start
  <1> DEFINE c == ino[i].start
             s == View(v, T[c])
  <1>1. c \in DOMAIN T /\ Through(v, ChainOf(ino[i]), T[c])  BY OpenedIs
  <1>2. FatOK(v) /\ InOrder(s)
    BY <1>1 DEF Consistent, Catalogue, Good, VolOK, Ordered
  <1>3. Scan(v, ChainOf(ino[i])) = s /\ DOMAIN s = Idx(T[c])  BY <1>1, <1>2, SlotIs
  <1>4. ASSUME NEW j \in DOMAIN s, IsHead(s[j]) PROVE FALSE
    <2>1. PICK k \in 0 .. j - 1 : s[k] = Unused  BY <1>3, <1>4 DEF IsDirEmpty
    <2>2. k \in DOMAIN s /\ k < j
      <3> DEFINE N == Len(T[c]) * SlotsPerClu
      <3>1. TableOK(v, T)  BY TableIs DEF Consistent
      <3>2. N \in Nat /\ DOMAIN s = 0 .. N - 1  BY <1>1, <3>1, ViewDomain
      <3> HIDE DEF N
      <3> QED BY <1>4, <2>1, <3>2
    <2>3. s[j] = Unused  BY <1>2, <1>4, <2>1, <2>2 DEF InOrder
    <2> QED BY <1>4, <2>3, SlotKinds
  <1> SUFFICES ASSUME NEW x \in Entries(v, T), x.dir = c PROVE FALSE  OBVIOUS
  <1>5. x.at \in HeadsAt(View(v, T[x.dir]))  BY EntryFacts
  <1> QED BY <1>4, <1>5 DEF HeadsAt

\* Directories without entries do not matter.
Part(E, T, T2) ==
    /\ DOMAIN T2 \subseteq DOMAIN T /\ \A c \in DOMAIN T2 : T2[c] = T[c]
    /\ \A c \in DOMAIN T \ DOMAIN T2 : \A z \in E : z.dir # c

LEMMA RewrittenPart ==
  ASSUME NEW v, NEW T, NEW T2, Part(Entries(v, T), T, T2), TableOK(v, T), Ordered(v, T),
         NEW w, NEW c, NEW e, Rewritten(v, w, T, c, e, {})
  PROVE  /\ Rewritten(v, w, T2, c, e, {}) /\ Entries(v, T2) = Entries(v, T) /\ TableOK(v, T2)
         /\ Ordered(v, T2)
  <1> DEFINE E == Entries(v, T)
  <1>1. DOMAIN T2 \subseteq DOMAIN T /\ \A b \in DOMAIN T2 : T2[b] = T[b]  BY DEF Part
  <1>2. ASSUME NEW u, \A x \in Entries(u, T) : x \in E
        PROVE  Entries(u, T2) = Entries(u, T)
    <2>1. ASSUME NEW x PROVE x \in Entries(u, T2) <=> x \in Entries(u, T)
      <3>1. x \in Entries(u, T) => x.dir \in DOMAIN T2
        <4>1. x \in Entries(u, T) => x.dir \in DOMAIN T /\ x \in E  BY <1>2, EntryFacts
        <4> QED BY <4>1 DEF Part
      <3>2. x.dir \in DOMAIN T2 => View(u, T2[x.dir]) = View(u, T[x.dir])  BY <1>1
      <3> QED BY <1>1, <3>1, <3>2, EntryIs
    <2> QED BY <2>1
  <1>3. Entries(v, T2) = E  BY <1>2
  <1>4. Entries(w, T) = {x \in E : ~(x.dir = c /\ x.at = e)} \cup {}  BY DEF Rewritten
  <1>5. Entries(w, T2) = Entries(w, T)  BY <1>2, <1>4
  <1>6. TableOK(v, T2)  BY <1>1 DEF TableOK
  <1>7. Ordered(v, T2) /\ Ordered(w, T2)  BY <1>1 DEF Ordered, Rewritten
  <1>8. Rewritten(v, w, T2, c, e, {})
    <2> HIDE DEF E
    <2> QED BY <1>1, <1>3, <1>4, <1>5, <1>7 DEF Rewritten
  <1> QED BY <1>3, <1>6, <1>7, <1>8

\* exfat_unlink and exfat_rmdir
LEMMA RemoveConsistent ==
  ASSUME NEW T, Consistent(vol, inode, pending, T), faults' = {}, NEW i \in Inodes,
         NEW held \in BOOLEAN, Unlink(i, held) \/ Rmdir(i, held)
  PROVE  \E T2 : Consistent(vol', inode', pending', T2)
  <1> DEFINE f == inode[i]
             E == Entries(vol, T)
             c == f.start
             used == UsedBy(vol, f)
             T2 == IF IsDirectory(f) THEN [b \in DOMAIN T \ {c} |-> T[b]] ELSE T
             told == RemoveEntry(vol, f.dir, f.entry)
  <1>1. /\ Inv /\ Good(vol, inode) /\ Dirs(inode, pending) /\ VolOK(vol) /\ Counted(vol)
        /\ NamesTrue(E, inode, pending, T) /\ DOMAIN inode = Inodes /\ HintTrue(E, vol, T)
        /\ TableOK(vol, T) /\ InodeOK(f)
    BY ConsistentIs
  <1>2. PICK w, jno : w = vol' /\ jno = inode'  OBVIOUS
  <1>3. /\ Keeps(vol, inode, w, jno) /\ Dirs(jno, pending)
        /\ VolOK(w) /\ OthersStay(vol, w, used) /\ w.bitmap = vol.bitmap \ used
        /\ pending' = pending
    <2>1. pending' = pending  BY DEF Unlink, Rmdir
    <2>2. Keeps(vol, inode, vol', inode') /\ Dirs(inode', pending')  BY <1>1, RemovalKeeps
    <2>3. /\ VolOK(vol') /\ OthersStay(vol, vol', UsedBy(vol, inode[i]))
          /\ vol'.bitmap = vol.bitmap \ UsedBy(vol, inode[i])
      BY <1>1, RemovalStays
    <2> QED BY <1>2, <2>1, <2>2, <2>3
  <1>4. /\ f.st = "linked" /\ i # Root /\ w = Release(told, ChainOf(f))
        /\ Strays(inode, {i}) = {}
        /\ (IsDirectory(f) => IsDirEmpty(vol, ChainOf(f)))
    <2>1. CASE Unlink(i, held)
      <3>1. /\ f.st = "linked" /\ f.type # "dir" /\ vol' = Release(told, ChainOf(f))
            /\ Strays(inode, {i}) = {}
        BY <2>1, Zenon DEF Unlink, Linked, IsDir
      <3> QED BY <1>1, <1>2, <3>1, Zenon DEF Dirs, IsDirectory
    <2>2. CASE Rmdir(i, held)
      <3>1. /\ f.st = "linked" /\ i # Root /\ vol' = Release(told, ChainOf(f))
            /\ Strays(inode, {i}) = {} /\ IsDirEmpty(vol, ChainOf(f))
        BY <2>2 DEF Rmdir, Linked, IsDir
      <3> QED BY <1>2, <3>1
    <2> QED BY <2>1, <2>2
  <1>5. /\ \A j \in Inodes : j # i => jno[j] = inode[j]
        /\ jno[i].st # "linked" /\ ~Owns(jno[i]) /\ InodeOK(jno[i])
    <2> DEFINE h == IF held THEN [f EXCEPT !.st = "orphan", !.flags = 3, !.start = EOC] ELSE Free
    <2>1. jno = [inode EXCEPT ![i] = h]  BY <1>2 DEF Unlink, Rmdir
    <2>2. h.st # "linked" /\ ~Owns(h)
      <3>1. CASE held
        <4>1. DOMAIN f = {"st", "type", "name", "parent", "dir", "entry",
                          "flags", "start", "size", "hoff", "hclu", "dirty"}
          BY <1>1, <1>4 DEF InodeOK, Free
        <4>2. h.st = "orphan" /\ h.start = EOC  BY <3>1, <4>1
        <4> QED BY <4>2 DEF Owns
      <3>2. CASE ~held  BY <3>2, FreeOwnsNone DEF Free
      <3> QED BY <3>1, <3>2
    <2> HIDE DEF h
    <2>3. \A j \in Inodes : jno[j] = IF j = i THEN h ELSE inode[j]  BY <1>1, <2>1
    <2>4. InodeOK(jno[i])  BY <1>3 DEF Keeps, Good
    <2> QED BY <2>2, <2>3, <2>4
  <1>6. Named(inode, i) /\ AtHome(vol, inode, i)
    <2>1. AtHome(vol, inode, i)
      <3>1. Strays(inode, {i}) = {}  BY <1>4
      <3>2. {"stray entry"} # {}  BY Zenon
      <3> QED BY <3>1, <3>2, Zenon DEF Strays
    <2> QED BY <1>4, <2>1 DEF Named
  <1>7. PICK x \in E :
          /\ Home(E, inode, i, x) /\ Has(inode, i, x) /\ x.dir \in DOMAIN T
          /\ told = DeleteEntry(vol, f.dir, f.entry, 0, NameLen[x.head.name])
          /\ Rewritten(vol, told, T, x.dir, x.at, {})
    <2>1. AfterGrowth(vol, vol, {})  BY <1>1 DEF AfterGrowth, OthersStay
    <2>2. PICK x \in E :
            LET n == NameLen[x.head.name]
            IN /\ Home(E, inode, i, x) /\ x.dir \in DOMAIN T /\ x.at \in HeadsAt(View(vol, T[x.dir]))
               /\ LeadsTo(vol, f.dir, f.entry, T[x.dir], x.at, n)
               /\ EntryLength(vol, f.dir, f.entry) = n
               /\ Locate(vol, f.dir, f.entry)[1] \in Clusters /\ f.entry \in Nat
      BY <1>6, <2>1, HomeEntry
    <2>3. told = DeleteEntry(vol, f.dir, f.entry, 0, NameLen[x.head.name])
      BY <2>2 DEF RemoveEntry
    <2>4. Ordered(vol, T)  BY DEF Consistent
    <2>5. x.head = View(vol, T[x.dir])[x.at]  BY EntryFacts
    <2> HIDE DEF told
    <2>6. Rewritten(vol, told, T, x.dir, x.at, {})
      <3> DEFINE p == f.dir
                 at == f.entry
                 n == NameLen[View(vol, T[x.dir])[x.at].name]
                 b == x.dir
                 e == x.at
      <3>1. /\ at \in Int /\ b \in DOMAIN T /\ LeadsTo(vol, p, at, T[b], e, n)
            /\ e \in HeadsAt(View(vol, T[b])) /\ n = NameLen[View(vol, T[b])[e].name]
            /\ told = DeleteEntry(vol, p, at, 0, n)
        BY <2>2, <2>3, <2>5
      <3> HIDE DEF p, at, n, b, e
      <3>2. Rewritten(vol, DeleteEntry(vol, p, at, 0, n), T, b, e, {})
        BY <1>1, <2>4, <3>1, WipeEntry, Zenon
      <3> QED BY <3>1, <3>2 DEF b, e
    <2>7. Has(inode, i, x)
      <3>1. i \in Inodes \ {Root} /\ inode[i].st = "linked"  BY <1>6 DEF Named
      <3>2. x.head.name = f.name /\ x.dir = inode[f.parent].start
        BY <2>2 DEF Home, Agrees
      <3> QED BY <3>1, <3>2 DEF Has
    <2> QED BY <2>2, <2>3, <2>6, <2>7
  <1>8. IsDirectory(f) => \A z \in E : z.dir # c  BY <1>4, EmptyDirectory
  <1>9. Part(E, T, T2) /\ DOMAIN T2 = IF IsDirectory(f) THEN DOMAIN T \ {c} ELSE DOMAIN T
    BY <1>8 DEF Part
  <1>10. Forgets(E, vol, inode, pending, T, i, x, jno, T2)
    <2> HIDE DEF T2
    <2> QED BY <1>1, <1>3, <1>5, <1>6, <1>7, <1>8, <1>9 DEF Forgets
  <1> HIDE DEF T2, told
  <1>11. /\ Rewritten(vol, told, T2, x.dir, x.at, {}) /\ Entries(vol, T2) = E /\ TableOK(vol, T2)
         /\ Ordered(vol, T2)
    <2>1. Ordered(vol, T)  BY DEF Consistent
    <2> QED BY <1>1, <1>7, <1>9, <2>1, RewrittenPart
  <1>12. SameFat(vol, told) /\ told.hint = vol.hint /\ VolOK(told)
    <2>1. \E at, seq : told = PutSlots(vol, f.dir, at, seq)  BY <1>7 DEF DeleteEntry
    <2> QED BY <1>1, <2>1, PutSlotsKeeps
  <1>13. /\ SlotsOK(w) /\ w.hint = vol.hint /\ SlotsStay(told, w, used)
    <2>1. told.bitmap = vol.bitmap /\ SlotsOK(told)
      BY <1>11, <1>12 DEF SameFat, SameClusters, Rewritten, Ordered
    <2>2. SlotsOK(w) /\ w.hint = told.hint /\ SlotsStay(told, w, told.bitmap \ w.bitmap)
      BY <1>4, <1>12, <2>1, ReleaseSlots
    <2>3. told.bitmap \ w.bitmap \subseteq used  BY <1>3, <2>1
    <2> QED BY <1>12, <2>2, <2>3 DEF SlotsStay
  <1>14. \A d \in DOMAIN T2 : /\ Of(T2[d]) \cap used = {} /\ d \in DOMAIN T /\ T2[d] = T[d]
    <2> TAKE d \in DOMAIN T2
    <2>1. d \in DOMAIN T /\ T2[d] = T[d] /\ ~(IsDirectory(f) /\ f.start = d)
      BY <1>9 DEF Part
    <2>2. Catalogue(E, vol, inode, pending, T)  BY DEF Consistent
    <2> QED BY <2>1, <2>2, DirectoryApart
  <1>15. Rewritten(vol, w, T2, x.dir, x.at, {})
    <2> HIDE DEF used
    <2> QED BY <1>11, <1>13, <1>14, RewrittenElsewhere
  <1>16. Entries(w, T2) = (E \ {x}) \cup {}
    <2>1. x \in Entries(vol, T2)  BY <1>7, <1>11
    <2>2. Entries(w, T2) = (Entries(vol, T2) \ {x}) \cup {}  BY <1>15, <2>1, RewrittenEntries
    <2> QED BY <1>11, <2>2
  <1>17. DataSteps(vol, inode, w, jno, i)
    <2>1. \A j \in Inodes : j # i => SameOwner(inode[j], jno[j])  BY <1>5 DEF SameOwner
    <2> QED BY <1>1, <1>3, <2>1 DEF DataSteps, Keeps
  <1>18. TableSteps(vol, inode, T, w, jno, T2, i)
    <2>1. ASSUME IsDirectory(f) PROVE c \in used
      <3>1. Owns(f)  BY <1>1, <2>1, DirOwns DEF IsDirectory, Good
      <3>2. Through(vol, ChainOf(f), Clus(vol, f))  BY <1>1, <3>1 DEF Good, Apart, Whole
      <3>3. ChainOf(f).dir = c  BY DEF ChainOf, Chain
      <3> DEFINE q == Clus(vol, f)
      <3> HIDE DEF q, c
      <3>4. q[1] = c /\ 1 \in 1 .. Len(q)
        <4>1. Through(vol, ChainOf(f), q)  BY <3>2 DEF q
        <4>2. Len(q) \in Nat  BY <4>1, RunEnd
        <4> QED BY <3>3, <4>1, <4>2 DEF Through
      <3> QED BY <3>1, <3>4 DEF UsedBy, Of, q
    <2>2. \A d \in DOMAIN T : d \notin UsedBy(vol, inode[i]) \cup UsedBy(w, jno[i]) => T2[d] = T[d]
      BY <1>9, <1>14, <2>1
    <2>3. ~IsDirectory(jno[i])  BY <1>5 DEF IsDirectory
    <2> QED BY <2>2, <2>3 DEF TableSteps
  <1>19. Catalogue(Entries(w, T2), w, jno, pending, T2)
    <2> DEFINE X == {x}
               Y == {}
    <2>1. NamesStep(E, vol, inode, pending, T, i, X, Y, jno, pending, T2)
      BY <1>10, ForgetsNames
    <2>2. \A z \in E : Named(inode, i) /\ Has(inode, i, z) => z \in X
      <3>1. i \in Inodes \ {Root} /\ inode[i].st = "linked"  BY <1>6 DEF Named
      <3>2. \E u \in E : \A z \in E : Has(inode, i, z) => z = u  BY <1>1, <3>1, OwnEntry
      <3> QED BY <1>7, <3>2
    <2>3. Entries(w, T2) = (E \ X) \cup Y /\ Y \cap (E \ X) = {}  BY <1>16
    <2>4. Catalogue(E, vol, inode, pending, T)  BY DEF Consistent
    <2> HIDE DEF X, Y, E
    <2>5. Catalogue((E \ X) \cup Y, w, jno, pending, T2)
      BY <1>17, <1>18, <2>1, <2>2, <2>3, <2>4, CatalogueStep
    <2> QED BY <2>3, <2>5
  <1>20. HintTrue(Entries(w, T2), w, T2)
    <2> DEFINE E2 == Entries(w, T2)
    <2>1. \A z \in E2 : z \in E  BY <1>16
    <2>2. \A d \in DOMAIN T2 : \A j \in Nat :
             j \in DOMAIN View(vol, T[d]) /\ View(w, T[d])[j] = Unused => View(vol, T[d])[j] = Unused
      BY <1>14, <1>15 DEF Rewritten
    <2> HIDE DEF E2, used
    <2>3. HintStep(E, vol, T, E2, w, T2, used)
      BY <1>1, <1>3, <1>13, <1>14, <2>1, <2>2 DEF HintStep
    <2> QED BY <1>1, <2>3, HintKept DEF E2
  <1>21. Ordered(w, T2)  BY <1>15 DEF Rewritten
  <1>22. Consistent(w, jno, pending, T2)  BY <1>19, <1>20, <1>21 DEF Consistent
  <1> QED BY <1>2, <1>3, <1>22
-----------------------------------------------------------------------------
(* An entry is renamed or moved.                                           *)

\* The inodes of S know their directories as they are now.
Refreshes(ino, jno, S) ==
    /\ DOMAIN jno = Inodes /\ S \subseteq Inodes
    /\ \A j \in S : Named(ino, j) /\ jno[j] = Refreshed(ino[j], ino)
    /\ \A j \in Inodes \ S : jno[j] = ino[j]

\* What it leaves alone.
LikeBefore(f, g) ==
    /\ Like(f, g) /\ g.name = f.name /\ g.parent = f.parent /\ g.entry = f.entry /\ g.dirty = f.dirty

LEMMA RefreshedLike ==
  ASSUME NEW ino, NEW jno, NEW S, Refreshes(ino, jno, S), \A j \in Inodes : InodeOK(ino[j])
  PROVE  /\ \A j \in Inodes : LikeBefore(ino[j], jno[j]) \/ jno[j] = ino[j]
         /\ \A j \in S : jno[j].dir = ChainOf(ino[ino[j].parent]) /\ LikeBefore(ino[j], jno[j])
         /\ \A j \in Inodes \ S : jno[j] = ino[j]
         /\ \A j \in Inodes : /\ jno[j].st = ino[j].st /\ InodeOK(jno[j])
                              /\ Owns(jno[j]) => SameData(ino[j], jno[j])
                              /\ IsDirectory(jno[j]) <=> IsDirectory(ino[j])
                              /\ ino[j] # Free => ChainOf(jno[j]) = ChainOf(ino[j])
  <1>1. ASSUME NEW j \in S
        PROVE  /\ jno[j].dir = ChainOf(ino[ino[j].parent]) /\ LikeBefore(ino[j], jno[j])
               /\ j \in Inodes /\ ino[j] # Free
    <2> DEFINE f == ino[j]
               x == ChainOf(ino[f.parent])
               g == [f EXCEPT !.dir = x]
    <2>1. j \in Inodes /\ jno[j] = g /\ f.st = "linked" /\ InodeOK(f)
      BY DEF Refreshes, Refreshed, Named
    <2>2. f # Free  BY <2>1, FreeOwnsNone
    <2> HIDE DEF x, f
    <2>3. Like(f, g) /\ g.dir = x /\ g.parent = f.parent  BY <2>1, <2>2, LikeDir
    <2>4. g.name = f.name /\ g.entry = f.entry /\ g.dirty = f.dirty  OBVIOUS
    <2> HIDE DEF g
    <2> QED BY <2>1, <2>2, <2>3, <2>4 DEF LikeBefore, x, f
  <1>2. \A j \in Inodes \ S : jno[j] = ino[j]  BY DEF Refreshes
  <1>3. ASSUME NEW j \in Inodes
        PROVE  /\ jno[j].st = ino[j].st /\ InodeOK(jno[j])
               /\ Owns(jno[j]) => SameData(ino[j], jno[j])
               /\ IsDirectory(jno[j]) <=> IsDirectory(ino[j])
               /\ ino[j] # Free => ChainOf(jno[j]) = ChainOf(ino[j])
    <2>1. CASE j \in S
      <3>1. Like(ino[j], jno[j]) /\ ino[j] # Free  BY <1>1, <2>1 DEF LikeBefore
      <3>2. InodeOK(jno[j]) /\ (Owns(jno[j]) => SameData(ino[j], jno[j]))
            /\ ChainOf(jno[j]) = ChainOf(ino[j])
        BY <3>1, LikeIs
      <3> QED BY <3>1, <3>2 DEF Like, IsDirectory
    <2>2. CASE j \notin S
      <3>1. jno[j] = ino[j]  BY <1>2, <2>2
      <3> QED BY <3>1 DEF SameData
    <2> QED BY <2>1, <2>2
  <1> QED BY <1>1, <1>2, <1>3

LEMMA RefreshedConsistent ==
  ASSUME NEW v, NEW ino, NEW pnd, NEW T, Consistent(v, ino, pnd, T), NEW jno, NEW S,
         Refreshes(ino, jno, S)
  PROVE  Consistent(v, jno, pnd, T) /\ Keeps(v, ino, v, jno)
  <1> DEFINE E == Entries(v, T)
  <1>1. /\ Catalogue(E, v, ino, pnd, T) /\ Good(v, ino) /\ Dirs(ino, pnd) /\ Root \in Inodes
        /\ NamesTrue(E, ino, pnd, T) /\ \A j \in Inodes : InodeOK(ino[j])
    BY VolumeAssumption DEF Consistent, Catalogue, Good
  <1>2. /\ \A j \in Inodes : LikeBefore(ino[j], jno[j]) \/ jno[j] = ino[j]
        /\ \A j \in S : jno[j].dir = ChainOf(ino[ino[j].parent])
        /\ \A j \in Inodes \ S : jno[j] = ino[j]
        /\ \A j \in Inodes : /\ jno[j].st = ino[j].st /\ InodeOK(jno[j])
                             /\ Owns(jno[j]) => SameData(ino[j], jno[j])
                             /\ IsDirectory(jno[j]) <=> IsDirectory(ino[j])
    BY <1>1, RefreshedLike
  <1>3. Keeps(v, ino, v, jno)
    <2>1. ChainsSame(v, v)  BY <1>1 DEF ChainsSame, Good
    <2>2. DOMAIN jno = Inodes  BY DEF Refreshes
    <2> QED BY <1>1, <1>2, <2>1, <2>2, KeepsChains
  <1>4. Dirs(jno, pnd)
    <2>1. LikeBefore(ino[Root], jno[Root]) \/ jno[Root] = ino[Root]  BY <1>1, <1>2
    <2>2. \A j \in Inodes : ino[j].st = "linked" /\ ino[j].type = "dir" =>
                              jno[j].st = "linked" /\ jno[j].type = "dir"
      BY <1>2 DEF IsDirectory
    <2> QED BY <1>1, <2>1, <2>2 DEF Dirs, LikeBefore, Like
  <1>5. None \notin Inodes /\ None # Root  BY NoneAssumption, VolumeAssumption
  <1>6. InodesStep(v, ino, pnd, None, jno, pnd)
    <2>1. NamesStay(ino, jno, None)
      <3> SUFFICES ASSUME NEW j \in Inodes
                   PROVE  /\ jno[j].st = "linked" <=> ino[j].st = "linked"
                          /\ ino[j].st = "linked" =>
                                /\ jno[j].type = ino[j].type /\ jno[j].start = ino[j].start
                                /\ j # Root => /\ jno[j].name = ino[j].name /\ jno[j].parent = ino[j].parent
                                               /\ jno[j].entry = ino[j].entry /\ jno[j].size = ino[j].size
                                               /\ jno[j].flags = ino[j].flags /\ jno[j].dirty = ino[j].dirty
                                               /\ jno[j].dir \in {ino[j].dir, ChainOf(ino[ino[j].parent])}
        BY DEF NamesStay
      <3>1. LikeBefore(ino[j], jno[j]) \/ jno[j] = ino[j]  BY <1>2
      <3>2. jno[j].dir \in {ino[j].dir, ChainOf(ino[ino[j].parent])}  BY <1>2
      <3> QED BY <3>1, <3>2 DEF LikeBefore, Like
    <2>2. DirsStay(ino, jno, None)
      <3> SUFFICES ASSUME NEW j \in Inodes, IsDirectory(ino[j])
                   PROVE  /\ IsDirectory(jno[j]) /\ jno[j].start = ino[j].start
                          /\ ino[j].flags = 1 => jno[j].flags = 1
        BY DEF DirsStay
      <3>1. LikeBefore(ino[j], jno[j]) \/ jno[j] = ino[j]  BY <1>2
      <3> QED BY <1>2, <3>1 DEF LikeBefore, Like
    <2> QED BY <1>1, <1>2, <1>4, <1>5, <2>1, <2>2 DEF InodesStep
  <1>7. NamesStep(E, v, ino, pnd, T, None, {}, {}, jno, pnd, T)
    <2>1. EntriesStep(E, ino, None, {}, {}, jno, T)
      <3>1. ~Named(jno, None)  BY <1>5 DEF Named
      <3> QED BY <3>1 DEF EntriesStep
    <2>2. TableStep(E, T, {}, {}, T)  BY <1>1 DEF TableStep, NamesTrue, DirsTrue
    <2>3. MissingStep({}, pnd, jno, pnd)  BY DEF MissingStep
    <2> QED BY <1>6, <2>1, <2>2, <2>3 DEF NamesStep
  <1>8. DataSteps(v, ino, v, jno, Root) /\ TableSteps(v, ino, T, v, jno, T, Root)
    <2>1. OthersStay(v, v, UsedBy(v, ino[Root]))  BY DEF OthersStay
    <2>2. \A j \in Inodes : SameOwner(ino[j], jno[j])
      <3> TAKE j \in Inodes
      <3>1. LikeBefore(ino[j], jno[j]) \/ jno[j] = ino[j]  BY <1>2
      <3> QED BY <3>1 DEF LikeBefore, Like, SameOwner
    <2>3. LikeBefore(ino[Root], jno[Root]) \/ jno[Root] = ino[Root]  BY <1>1, <1>2
    <2>4. jno[Root].start = ino[Root].start /\ jno[Root].size = ino[Root].size
          /\ ChainOf(jno[Root]) = ChainOf(ino[Root])
      BY <2>3 DEF LikeBefore, Like, ChainOf
    <2>5. Clus(v, jno[Root]) = Clus(v, ino[Root])  BY <2>4 DEF Clus
    <2>6. UsedBy(v, jno[Root]) = UsedBy(v, ino[Root])
      <3>1. Owns(ino[Root])  BY <1>1, DirOwns DEF Dirs
      <3>2. Owns(jno[Root])
        <4>1. jno[Root].st = "linked" /\ jno[Root].type = "dir"  BY <1>4 DEF Dirs
        <4> QED BY <1>1, <1>2, <4>1, DirOwns
      <3> QED BY <2>5, <3>1, <3>2 DEF UsedBy
    <2>7. IsDirectory(ino[Root])  BY <1>1 DEF Dirs, IsDirectory
    <2>8. T[ino[Root].start] = Clus(v, ino[Root]) /\ ino[Root].size = Len(T[ino[Root].start])
      BY <1>1, <2>7 DEF Catalogue, DataTrue, ChainsTrue, IsDirectory
    <2> HIDE DEF E
    <2> QED BY <1>1, <1>3, <2>1, <2>2, <2>4, <2>5, <2>6, <2>8 DEF DataSteps, TableSteps, Keeps
  <1>9. Catalogue(E, v, jno, pnd, T)
    <2> DEFINE X == {}
               Y == {}
               t == None
    <2>1. /\ \A z \in E : Named(ino, t) /\ Has(ino, t, z) => z \in X
          /\ Y \cap (E \ X) = {} /\ NamesStep(E, v, ino, pnd, T, t, X, Y, jno, pnd, T)
      BY <1>5, <1>7 DEF Named
    <2>2. (E \ X) \cup Y = E  OBVIOUS
    <2> HIDE DEF X, Y, E, t
    <2>3. Catalogue((E \ X) \cup Y, v, jno, pnd, T)  BY <1>1, <1>8, <2>1, CatalogueStep
    <2> QED BY <2>2, <2>3
  <1> QED BY <1>3, <1>9 DEF Consistent

\* A chain that is longer leads to the same slots.
LEMMA LeadsLonger ==
  ASSUME NEW v, FatOK(v), NEW p, NEW q, Through(v, p, q), NEW w, FatOK(w), NEW r \in Seq(Clusters),
         \A a, b \in 1 .. Len(r) : r[a] = r[b] => a = b, Len(q) <= Len(r),
         \A k \in 1 .. Len(q) : r[k] = q[k], p.flags = 1 => Through(w, p, r),
         NEW at \in Nat, NEW e, NEW n, LeadsTo(v, p, at, q, e, n)
  PROVE  LeadsTo(w, p, at, r, e, n)
  <1>1. /\ q \in Seq(Clusters) /\ Len(q) \in Nat /\ Len(r) \in Nat /\ e \in Nat /\ n \in Nat
        /\ p.flags \in {1, 3}
        /\ \A m \in 0 .. n - 1 : e + m \in Idx(q) /\ Locate(v, p, at + m) = Loc(q, e + m)
    BY RunEnd DEF LeadsTo, Through
  <1>2. \A j \in Idx(q) : j \in Idx(r) /\ Loc(r, j) = Loc(q, j)
    <2>1. Len(q) * SlotsPerClu <= Len(r) * SlotsPerClu
          /\ Len(q) * SlotsPerClu \in Nat /\ Len(r) * SlotsPerClu \in Nat
      <3> DEFINE a == Len(q)
                 g == Len(r) - Len(q)
      <3>1. a \in Nat /\ g \in Nat /\ Len(r) = a + g /\ SlotsPerClu \in Nat
        BY <1>1, VolumeAssumption
      <3> HIDE DEF a, g
      <3>2. (a + g) * SlotsPerClu = a * SlotsPerClu + g * SlotsPerClu
            /\ a * SlotsPerClu \in Nat /\ g * SlotsPerClu \in Nat
        BY <3>1
      <3> QED BY <3>1, <3>2 DEF a
    <2> TAKE j \in Idx(q)
    <2>2. j \in Nat /\ j \div SlotsPerClu + 1 \in 1 .. Len(q)  BY <1>1, LocFacts
    <2>3. Loc(r, j) = Loc(q, j)  BY <2>2 DEF Loc
    <2>4. j \in Idx(r)  BY <2>1, <2>2 DEF Idx
    <2> QED BY <2>3, <2>4
  <1>3. ASSUME NEW m \in 0 .. n - 1
        PROVE  Locate(w, p, at + m) = Loc(q, e + m) /\ e + m \in Idx(q)
    <2> DEFINE j == at + m
               k == e + m
    <2>1. j \in Nat /\ Locate(v, p, j) = Loc(q, k) /\ k \in Idx(q)  BY <1>1
    <2> HIDE DEF j, k
    <2>2. CASE p.flags = 3
      <3>1. Locate(w, p, j) = Locate(v, p, j)  BY <2>2 DEF Locate, NthCluster
      <3> QED BY <2>1, <3>1 DEF j, k
    <2>3. CASE p.flags = 1
      <3>1. j \in Idx(q)
        <4>1. NthCluster(v, p, j \div SlotsPerClu) \in Clusters
          <5>1. Loc(q, k) \in Clusters \X (0 .. SlotsPerClu - 1)  BY <1>1, <2>1, LocFacts
          <5>2. Locate(v, p, j)[1] \in Clusters  BY <2>1, <5>1
          <5> QED BY <5>2 DEF Locate
        <4>2. \A x \in Nat : x >= Len(q) => NthCluster(v, p, x) \notin Clusters
          BY <2>3, NthThrough
        <4>3. j \div SlotsPerClu \in Nat /\ \A x \in Nat : j >= x * SlotsPerClu => j \div SlotsPerClu >= x
          BY <2>1, DivMod
        <4>4. ~(j >= Len(q) * SlotsPerClu)  BY <1>1, <4>1, <4>2, <4>3
        <4>5. Len(q) * SlotsPerClu \in Nat  BY <1>1, VolumeAssumption
        <4> QED BY <2>1, <4>4, <4>5 DEF Idx
      <3>2. Locate(v, p, j) = Loc(q, j)  BY <3>1, SlotIs
      <3>3. Through(w, p, r) /\ j \in Idx(r)  BY <1>2, <2>3, <3>1
      <3>4. Locate(w, p, j) = Loc(r, j)  BY <3>3, SlotIs
      <3> QED BY <1>2, <2>1, <3>1, <3>2, <3>4 DEF j, k
    <2> QED BY <1>1, <2>2, <2>3
  <1> QED BY <1>1, <1>2, <1>3, Zenon DEF LeadsTo

\* An entry is found in a directory that has grown as it was before.
LEMMA LeadsGrow ==
  ASSUME NEW v, NEW ino, NEW pnd, NEW T, Consistent(v, ino, pnd, T), NEW d \in Inodes,
         NEW w, NEW jno, NEW T2, Made(v, ino, pnd, T, d, w, jno, T2), IsDirectory(ino[d]),
         NEW i, Named(ino, i), ino[i].dir = ChainOf(ino[ino[i].parent]),
         NEW c, c = ino[ino[i].parent].start, NEW e, NEW n,
         LeadsTo(v, ino[i].dir, ino[i].entry, T[c], e, n)
  PROVE  LeadsTo(w, ino[i].dir, ino[i].entry, T2[c], e, n)
  <1> DEFINE f == ino[i]
             p == f.parent
             b == ino[d].start
             at == f.entry
  <1>1. /\ p \in Inodes /\ IsDirectory(ino[p]) /\ c \in DOMAIN T /\ Through(v, f.dir, T[c])
        /\ at \in Nat
    BY ParentIs
  <1>2. /\ FatOK(v) /\ TableOK(v, T) /\ FatOK(w) /\ TableOK(w, T2) /\ Consistent(w, jno, pnd, T2)
        /\ OthersStay(v, w, Of(T[b])) /\ DOMAIN T2 = DOMAIN T
        /\ (T2[c] = T[c] \/ (c = b /\ \E x \in Clusters : T2[c] = Append(T[c], x)))
    <2>1. Consistent(w, jno, pnd, T2)  BY DEF Made
    <2> QED BY <1>1, <2>1, TableIs, Zenon DEF Made, Consistent, Catalogue, Good, VolOK
  <1>3. b \in DOMAIN T  BY OpenedIs
  <1>4. /\ e \in Nat /\ n \in Nat /\ T[c] \in Seq(Clusters) /\ Len(T[c]) \in Nat
        /\ \A m \in 0 .. n - 1 : e + m \in Idx(T[c]) /\ Locate(v, f.dir, at + m) = Loc(T[c], e + m)
    <2>1. T[c] \in Seq(Clusters)  BY <1>1, <1>2, Zenon DEF TableOK
    <2> QED BY <2>1, LenProperties DEF LeadsTo
  <1>5. CASE c # b
    <2>1. T2[c] = T[c] /\ Of(T[c]) \cap Of(T[b]) = {}  BY <1>1, <1>2, <1>3, <1>5, Zenon DEF TableOK
    <2> DEFINE used == Of(T[b])
    <2>2. OthersStay(v, w, used) /\ Of(T[c]) \cap used = {}  BY <1>2, <2>1
    <2> HIDE DEF used
    <2>3. LeadsTo(w, ino[i].dir, ino[i].entry, T[c], e, n)  BY <1>2, <2>2, LeadsStay, Zenon
    <2> QED BY <2>1, <2>3
  <1>6. CASE c = b
    <2>1. p = d /\ IsDirectory(jno[d]) /\ jno[d].start = c /\ (ino[d].flags = 1 => jno[d].flags = 1)
      <3>1. \A j \in Inodes : IsDirectory(ino[j]) /\ ino[j].start = b => j = d  BY OpenedIs
      <3> QED BY <1>1, <1>6, <3>1, Zenon DEF Made, InodeGrows, SameName, IsDirectory
    <2>2. Through(w, ChainOf(jno[d]), T2[c]) /\ c \in DOMAIN T2  BY <1>2, <2>1, OpenedIs
    <2> DEFINE q == T[c]
               r == T2[c]
    <2>3. /\ r \in Seq(Clusters) /\ Len(r) \in Nat /\ Len(q) \in Nat /\ q \in Seq(Clusters)
          /\ \A j, k \in 1 .. Len(r) : r[j] = r[k] => j = k
          /\ Through(v, f.dir, q) /\ Through(w, ChainOf(jno[d]), r)
          /\ LeadsTo(v, f.dir, at, q, e, n)
          /\ r = q \/ \E x \in Clusters : r = Append(q, x)
      BY <1>1, <1>2, <1>4, <2>2, LenProperties, Zenon DEF TableOK
    <2>4. f.dir.flags = 1 => Through(w, f.dir, r)
      <3> SUFFICES ASSUME f.dir.flags = 1 PROVE Through(w, f.dir, r)  OBVIOUS
      <3> DEFINE p1 == f.dir
                 p2 == ChainOf(jno[d])
      <3>1. p1.flags = 1 /\ p2.flags = 1 /\ p2.dir = p1.dir
        BY <1>6, <2>1 DEF ChainOf, Chain
      <3>2. Through(w, p2, r)  BY <2>3, Zenon
      <3> HIDE DEF r, p1, p2
      <3>3. Through(w, p1, r)  BY <3>1, <3>2 DEF Through
      <3> QED BY <3>3 DEF p1
    <2> DEFINE p1 == f.dir
    <2> HIDE DEF q, r, p1, at
    <2>5. Len(q) <= Len(r) /\ \A k \in 1 .. Len(q) : r[k] = q[k]
      <3>1. CASE r = q  BY <2>3, <3>1
      <3>2. CASE \E x \in Clusters : r = Append(q, x)
        <4>1. PICK x \in Clusters : r = Append(q, x)  BY <3>2
        <4>2. Len(r) = Len(q) + 1 /\ \A k \in 1 .. Len(q) : r[k] = q[k]
          BY <2>3, <4>1, AppendProperties
        <4> QED BY <2>3, <4>2
      <3> QED BY <2>3, <3>1, <3>2
    <2>6. LeadsTo(w, p1, at, r, e, n)
      BY <1>1, <1>2, <2>3, <2>4, <2>5, LeadsLonger, Zenon DEF p1, at
    <2> QED BY <2>6 DEF p1, at, r
  <1> QED BY <1>5, <1>6

\* The slots of the directories change, so that their entries are E2.
Carved(v, w, T, E2) ==
    /\ SameFat(v, w) /\ w.hint = v.hint /\ VolOK(w) /\ TableOK(w, T) /\ Ordered(w, T)
    /\ Entries(w, T) = E2
    /\ \A d \in DOMAIN T, j \in Nat : j \in DOMAIN View(v, T[d]) /\ View(w, T[d])[j] = Unused
                                      => View(v, T[d])[j] = Unused

LEMMA CarvedIs ==
  ASSUME NEW v, VolOK(v), NEW T, TableOK(v, T), NEW w, SameFat(v, w), w.hint = v.hint,
         NEW c, NEW e, NEW Y, Rewritten(v, w, T, c, e, Y)
  PROVE  Carved(v, w, T, {x \in Entries(v, T) : ~(x.dir = c /\ x.at = e)} \cup Y)
  <1>1. VolOK(w)  BY SameFatIs
  <1>2. w.bitmap = v.bitmap  BY DEF SameFat, SameClusters
  <1>3. TableOK(w, T)  BY <1>2 DEF TableOK
  <1> QED BY <1>1, <1>3 DEF Carved, Rewritten

LEMMA CarvedTrans ==
  ASSUME NEW u, NEW v, NEW w, NEW T, NEW E1, NEW E2, Carved(u, v, T, E1), Carved(v, w, T, E2)
  PROVE  Carved(u, w, T, E2)
  <1>1. \A d \in DOMAIN T : DOMAIN View(u, T[d]) = DOMAIN View(v, T[d])  BY DEF View
  <1>2. SameFat(u, w)  BY DEF Carved, SameFat, SameClusters
  <1> QED BY <1>1, <1>2 DEF Carved

\* One entry less.
LEMMA CarvedWipe ==
  ASSUME NEW v, VolOK(v), NEW T, TableOK(v, T), Ordered(v, T), NEW x \in Entries(v, T),
         NEW p, NEW at \in Int, NEW n, n = NameLen[x.head.name],
         LeadsTo(v, p, at, T[x.dir], x.at, n)
  PROVE  /\ Carved(v, DeleteEntry(v, p, at, 0, n), T, Entries(v, T) \ {x})
         /\ EntryLength(v, p, at) = n
  <1> DEFINE w == DeleteEntry(v, p, at, 0, n)
             c == x.dir
             e == x.at
  <1>1. /\ c \in DOMAIN T /\ e \in HeadsAt(View(v, T[c])) /\ n = NameLen[View(v, T[c])[e].name]
        /\ LeadsTo(v, p, at, T[c], e, n)
    BY EntryFacts
  <1> HIDE DEF c, e
  <1>2. Rewritten(v, w, T, c, e, {})  BY <1>1, WipeEntry
  <1>3. SameFat(v, w) /\ w.hint = v.hint
    <2>1. \E b, seq : w = PutSlots(v, p, b, seq)  BY DEF DeleteEntry
    <2> QED BY <2>1, PutSlotsKeeps
  <1>4. EntryLength(v, p, at) = n
    <2> DEFINE q == T[c]
    <2>1. InOrder(View(v, q)) /\ IsHead(View(v, q)[e]) /\ e \in DOMAIN View(v, q)
          /\ LeadsTo(v, p, at, q, e, n) /\ n = NameLen[View(v, q)[e].name]
      BY <1>1 DEF Ordered, HeadsAt
    <2> HIDE DEF q
    <2> QED BY <2>1, WholeEntry, Zenon
  <1> HIDE DEF w
  <1>5. Carved(v, w, T, {z \in Entries(v, T) : ~(z.dir = c /\ z.at = e)} \cup {})
    BY <1>2, <1>3, CarvedIs
  <1>6. Entries(w, T) = (Entries(v, T) \ {x}) \cup {}
    BY <1>2, RewrittenEntries DEF c, e
  <1>7. Carved(v, w, T, Entries(v, T) \ {x})  BY <1>5, <1>6 DEF Carved
  <1> QED BY <1>4, <1>7 DEF w

\* rename_file, where the new name needs no more slots than the old one
LEMMA CarvedInPlace ==
  ASSUME NEW v, VolOK(v), NEW T, TableOK(v, T), Ordered(v, T), NEW x \in Entries(v, T),
         NEW p, NEW at \in Int, NEW n, n = NameLen[x.head.name],
         LeadsTo(v, p, at, T[x.dir], x.at, n), NEW h \in Heads, NEW k, k = NameLen[h.name], k <= n
  PROVE  Carved(v, DeleteEntry(PutEntry(v, p, at, h), p, at, k, n), T,
                (Entries(v, T) \ {x}) \cup {EntryAt(x.dir, x.at, h)})
  <1> DEFINE w == DeleteEntry(PutEntry(v, p, at, h), p, at, k, n)
             c == x.dir
             e == x.at
             y == EntryAt(c, e, h)
  <1>1. /\ c \in DOMAIN T /\ e \in HeadsAt(View(v, T[c])) /\ n = NameLen[View(v, T[c])[e].name]
        /\ LeadsTo(v, p, at, T[c], e, n)
    BY EntryFacts
  <1> HIDE DEF c, e
  <1>2. Rewritten(v, w, T, c, e, {y})  BY <1>1, RenameInPlace, Zenon
  <1>3. SameFat(v, w) /\ w.hint = v.hint
    <2> DEFINE u == PutEntry(v, p, at, h)
    <2>1. SameFat(v, u) /\ VolOK(u) /\ u.hint = v.hint
      <3>1. \E seq : u = PutSlots(v, p, at, seq)  BY Zenon DEF PutEntry
      <3> QED BY <3>1, PutSlotsKeeps
    <2> HIDE DEF u
    <2>2. w = PutSlots(u, p, at + k, [m \in 1 .. n - k |-> Deleted])  BY DEF DeleteEntry, u
    <2>3. SameFat(u, w) /\ w.hint = u.hint  BY <2>1, <2>2, PutSlotsKeeps
    <2> QED BY <2>1, <2>3 DEF SameFat, SameClusters
  <1> HIDE DEF w, y
  <1>5. Carved(v, w, T, {z \in Entries(v, T) : ~(z.dir = c /\ z.at = e)} \cup {y})
    BY <1>2, <1>3, CarvedIs
  <1>6. Entries(w, T) = (Entries(v, T) \ {x}) \cup {y}
    <2> DEFINE Y == {y}
    <2>1. Rewritten(v, w, T, x.dir, x.at, Y)  BY <1>2 DEF c, e
    <2> HIDE DEF Y
    <2>2. Entries(w, T) = (Entries(v, T) \ {x}) \cup Y  BY <2>1, RewrittenEntries
    <2> QED BY <2>2 DEF Y
  <1>7. Carved(v, w, T, (Entries(v, T) \ {x}) \cup {y})  BY <1>5, <1>6 DEF Carved
  <1> QED BY <1>7 DEF w, y, c, e

\* The entry is made anew where there is room, and the old one deleted.
LEMMA CarvedMove ==
  ASSUME NEW v, VolOK(v), NEW T, TableOK(v, T), Ordered(v, T), NEW c, NEW q, NEW e, NEW h \in Heads,
         PlacedAt(v, T, c, q, e, h), NEW x \in Entries(v, T),
         NEW p, NEW at \in Int, NEW n, n = NameLen[x.head.name],
         LeadsTo(v, p, at, T[x.dir], x.at, n)
  PROVE  /\ Carved(v, DeleteEntry(PutEntry(v, q, e, h), p, at, 0, n), T,
                   (Entries(v, T) \ {x}) \cup {EntryAt(c, e, h)})
         /\ EntryAt(c, e, h) \notin Entries(v, T)
  <1> DEFINE u == PutEntry(v, q, e, h)
             w == DeleteEntry(u, p, at, 0, n)
             y == EntryAt(c, e, h)
             E == Entries(v, T)
  <1>1. /\ Rewritten(v, u, T, c, e, {y}) /\ y \notin E /\ Entries(u, T) = E \cup {y}
        /\ SameFat(v, u) /\ u.hint = v.hint
    BY DEF PlacedAt
  <1> HIDE DEF u, y
  <1>2. Carved(v, u, T, E \cup {y})
    <2>1. Carved(v, u, T, {z \in Entries(v, T) : ~(z.dir = c /\ z.at = e)} \cup {y})
      BY <1>1, CarvedIs
    <2> QED BY <1>1, <2>1 DEF Carved
  <1>3. /\ LeadsTo(u, p, at, T[x.dir], x.at, n) /\ x \in Entries(u, T)
        /\ VolOK(u) /\ TableOK(u, T) /\ Ordered(u, T)
    <2>1. LeadsTo(u, p, at, T[x.dir], x.at, n)  BY <1>1, SameLocate DEF SameFat, SameClusters
    <2> QED BY <1>1, <1>2, <2>1 DEF Carved
  <1>4. Carved(u, w, T, Entries(u, T) \ {x})  BY <1>3, CarvedWipe, Zenon
  <1>5. Entries(u, T) \ {x} = (E \ {x}) \cup {y}  BY <1>1
  <1> HIDE DEF w, E
  <1>6. Carved(v, w, T, (E \ {x}) \cup {y})  BY <1>2, <1>4, <1>5, CarvedTrans
  <1> QED BY <1>1, <1>6 DEF w, u, y, E

\* The target of a rename, a file without clusters, loses its entry.
LEMMA TargetForgotten ==
  ASSUME NEW E, NEW v, NEW ino, NEW pnd, NEW T, Catalogue(E, v, ino, pnd, T), NEW t,
         Named(ino, t), ~Owns(ino[t]), NEW x \in E, Has(ino, t, x), NEW jno, DOMAIN jno = Inodes,
         \A j \in Inodes : j # t => jno[j] = ino[j],
         jno[t].st # "linked", ~Owns(jno[t]), InodeOK(jno[t])
  PROVE  Catalogue(E \ {x}, v, jno, pnd, T)
  <1>1. /\ Good(v, ino) /\ Dirs(ino, pnd) /\ NamesTrue(E, ino, pnd, T) /\ t \in Inodes \ {Root}
        /\ ino[t].st = "linked" /\ InodeOK(ino[t])
    BY DEF Catalogue, Named, Good
  <1>2. ~IsDirectory(ino[t]) /\ ~IsDirectory(jno[t])  BY <1>1, DirOwns DEF IsDirectory
  <1>3. Dirs(jno, pnd)
    <2>1. jno[Root] = ino[Root]  BY <1>1, VolumeAssumption
    <2>2. \A j \in Inodes : pnd[j] # None => jno[j].st = "linked" /\ jno[j].type = "dir"
      <3> TAKE j \in Inodes
      <3>1. CASE j = t  BY <1>1, <1>2, <3>1 DEF Dirs, IsDirectory
      <3>2. CASE j # t  BY <1>1, <3>2 DEF Dirs
      <3> QED BY <3>1, <3>2
    <2> QED BY <1>1, <2>1, <2>2 DEF Dirs
  <1>4. Forgets(E, v, ino, pnd, T, t, x, jno, T)  BY <1>1, <1>2, <1>3 DEF Forgets
  <1>5. Keeps(v, ino, v, jno)
    <2>1. ChainsSame(v, v)  BY <1>1 DEF ChainsSame, Good
    <2>2. \A j \in Inodes : InodeOK(jno[j]) /\ (Owns(jno[j]) => SameData(ino[j], jno[j]))
      <3> TAKE j \in Inodes
      <3>1. CASE j = t  BY <3>1
      <3>2. CASE j # t  BY <1>1, <3>2 DEF Good, SameData
      <3> QED BY <3>1, <3>2
    <2> QED BY <1>1, <2>1, <2>2, KeepsChains
  <1>6. DataSteps(v, ino, v, jno, t)
    <2>1. \A j \in Inodes : j # t => SameOwner(ino[j], jno[j])  BY DEF SameOwner
    <2>2. UsedBy(v, ino[t]) = {}  BY DEF UsedBy
    <2> QED BY <1>1, <1>5, <2>1, <2>2 DEF DataSteps, Keeps, OthersStay
  <1>7. TableSteps(v, ino, T, v, jno, T, t)  BY <1>2 DEF TableSteps
  <1> DEFINE X == {x}
             Y == {}
  <1>8. /\ NamesStep(E, v, ino, pnd, T, t, X, Y, jno, pnd, T)
        /\ Y \cap (E \ X) = {} /\ E \ {x} = (E \ X) \cup Y
    BY <1>4, ForgetsNames
  <1>9. \A z \in E : Named(ino, t) /\ Has(ino, t, z) => z \in X
    <2>1. \E u \in E : \A z \in E : Has(ino, t, z) => z = u  BY <1>1, OwnEntry
    <2> QED BY <2>1
  <1> HIDE DEF X, Y
  <1>10. Catalogue((E \ X) \cup Y, v, jno, pnd, T)  BY <1>6, <1>7, <1>8, <1>9, CatalogueStep
  <1> QED BY <1>8, <1>10

\* The inode i gets the name in the directory d, and the entry y for x.
Moves(E, v, ino, pnd, T, i, d, name, x, y, w, jno) ==
    /\ Catalogue(E, v, ino, pnd, T) /\ Named(ino, i) /\ x \in E /\ Has(ino, i, x)
    /\ d \in Inodes /\ IsDirectory(ino[d]) /\ (ino[i].type = "dir" => d = Root)
    /\ name \in Names /\ \A z \in E \ {x} : z.dir = ino[d].start => z.head.name # name
    /\ y.dir = ino[d].start /\ y.head = [x.head EXCEPT !.name = name] /\ y \notin E \ {x}
    /\ SameFat(v, w) /\ DOMAIN jno = Inodes /\ \A j \in Inodes : j # i => jno[j] = ino[j]
    /\ Like(ino[i], jno[i]) /\ jno[i].name = name /\ jno[i].parent = d /\ jno[i].dirty
    /\ jno[i].entry \in Nat /\ (ino[i].type = "dir" => jno[i].entry = y.at)
    /\ jno[i].dir.dir = ino[d].start /\ jno[i].dir.flags \in {1, 3}
    /\ jno[i].dir.flags = 1 => ino[d].flags = 1
    /\ ino[i].type = "dir" => jno[i].dir.flags = 1

LEMMA MovesFacts ==
  ASSUME NEW E, NEW v, NEW ino, NEW pnd, NEW T, NEW i, NEW d, NEW name, NEW x, NEW y, NEW w, NEW jno,
         Moves(E, v, ino, pnd, T, i, d, name, x, y, w, jno)
  PROVE  /\ Good(v, ino) /\ Dirs(ino, pnd) /\ NamesTrue(E, ino, pnd, T) /\ i \in Inodes \ {Root}
         /\ ino[i].st = "linked" /\ i # d /\ InodeOK(ino[i]) /\ InodeOK(jno[i])
         /\ Home(E, ino, i, x) /\ y.head \in Heads /\ Agrees(jno[i], y.head)
         /\ y.head.type = x.head.type /\ y.head.clu = x.head.clu /\ y.head.name = name
         /\ y.head.flags = x.head.flags /\ x.head.type = ino[i].type
         /\ Keeps(v, ino, w, jno) /\ jno[i].st = "linked" /\ jno[i].type = ino[i].type
         /\ Named(jno, i)
  <1>1. /\ Good(v, ino) /\ Dirs(ino, pnd) /\ NamesTrue(E, ino, pnd, T) /\ i \in Inodes \ {Root}
        /\ ino[i].st = "linked" /\ i # d /\ InodeOK(ino[i])
    BY DEF Moves, Catalogue, Named, Good, IsDirectory
  <1>2. ino[i] # Free  BY <1>1, FreeOwnsNone
  <1>3. /\ Like(ino[i], jno[i]) /\ InodeOK(jno[i]) /\ (Owns(jno[i]) => SameData(ino[i], jno[i]))
    <2>1. Like(ino[i], jno[i])  BY DEF Moves
    <2> QED BY <1>1, <1>2, <2>1, LikeIs
  <1>4. Home(E, ino, i, x) /\ x.head \in Heads
    <2>1. Home(E, ino, i, x)  BY <1>1, HasIsHome DEF Moves
    <2> QED BY <1>1, <2>1 DEF NamesTrue, EntriesTrue, Moves
  <1>5. /\ y.head \in Heads /\ y.head.type = x.head.type /\ y.head.clu = x.head.clu
        /\ y.head.flags = x.head.flags /\ y.head.size = x.head.size /\ y.head.name = name
    <2> DEFINE z == x.head
               h == [z EXCEPT !.name = name]
    <2>1. z \in Heads /\ name \in Names  BY <1>4 DEF Moves
    <2> HIDE DEF z
    <2>2. /\ h \in Heads /\ h.type = z.type /\ h.clu = z.clu /\ h.flags = z.flags /\ h.size = z.size
          /\ h.name = name
      BY <2>1 DEF Heads
    <2> HIDE DEF h
    <2>3. y.head = h  BY DEF Moves, h, z
    <2> QED BY <2>2, <2>3 DEF z
  <1>6. Agrees(ino[i], x.head)  BY <1>4 DEF Home
  <1>7. Agrees(jno[i], y.head) /\ x.head.type = ino[i].type
    <2>1. jno[i].name = name /\ jno[i].dirty  BY DEF Moves
    <2> QED BY <1>3, <1>5, <1>6, <2>1 DEF Agrees, Like
  <1>8. Keeps(v, ino, w, jno)
    <2>1. ChainsSame(v, w)  BY <1>1, SameFatChains DEF Good, Moves
    <2>2. DOMAIN jno = Inodes /\ \A j \in Inodes : j # i => jno[j] = ino[j]  BY DEF Moves
    <2>3. \A j \in Inodes : InodeOK(jno[j]) /\ (Owns(jno[j]) => SameData(ino[j], jno[j]))
      <3> TAKE j \in Inodes
      <3>1. CASE j = i  BY <1>3, <3>1
      <3>2. CASE j # i  BY <1>1, <2>2, <3>2 DEF Good, SameData
      <3> QED BY <3>1, <3>2
    <2> QED BY <1>1, <2>1, <2>2, <2>3, KeepsChains
  <1>9. jno[i].st = "linked" /\ jno[i].type = ino[i].type  BY <1>1, <1>3 DEF Like
  <1> QED BY <1>1, <1>3, <1>4, <1>5, <1>7, <1>8, <1>9 DEF Named

LEMMA MovesNames ==
  ASSUME NEW E, NEW v, NEW ino, NEW pnd, NEW T, NEW i, NEW d, NEW name, NEW x, NEW y, NEW w, NEW jno,
         Moves(E, v, ino, pnd, T, i, d, name, x, y, w, jno)
  PROVE  NamesStep(E, v, ino, pnd, T, i, {x}, {y}, jno, [pnd EXCEPT ![d] = None], T)
  <1> DEFINE pn2 == [pnd EXCEPT ![d] = None]
  <1>1. /\ Good(v, ino) /\ Dirs(ino, pnd) /\ NamesTrue(E, ino, pnd, T) /\ i \in Inodes \ {Root}
        /\ ino[i].st = "linked" /\ i # d /\ InodeOK(ino[i]) /\ InodeOK(jno[i])
        /\ Home(E, ino, i, x) /\ y.head \in Heads /\ Agrees(jno[i], y.head)
        /\ y.head.type = x.head.type /\ y.head.clu = x.head.clu /\ y.head.name = name
        /\ x.head.type = ino[i].type /\ jno[i].st = "linked" /\ jno[i].type = ino[i].type
        /\ Named(jno, i)
    BY MovesFacts
  <1> USE DEF Moves
  <1>2. DirsTrue(E, ino, T) /\ EntriesTrue(E, T) /\ HomesTrue(E, ino)  BY <1>1 DEF NamesTrue
  <1>3. \A j \in Inodes : j # d => pn2[j] = pnd[j]  BY <1>1 DEF Dirs
  <1>4. pn2[d] = None /\ DOMAIN pn2 = Inodes  BY <1>1 DEF Dirs
  <1> HIDE DEF pn2
  <1>5. InodesStep(v, ino, pnd, i, jno, pn2)
    <2>1. NamesStay(ino, jno, i)  BY DEF NamesStay
    <2>2. DirsStay(ino, jno, i)
      <3> SUFFICES ASSUME NEW j \in Inodes, IsDirectory(ino[j])
                   PROVE  /\ IsDirectory(jno[j]) /\ jno[j].start = ino[j].start
                          /\ ino[j].flags = 1 => jno[j].flags = 1
        BY DEF DirsStay
      <3>1. CASE j = i  BY <1>1, <3>1 DEF IsDirectory, Like
      <3>2. CASE j # i  BY <3>2
      <3> QED BY <3>1, <3>2
    <2>3. Dirs(jno, pn2)
      <3>1. \A j \in Inodes : pn2[j] # None => jno[j].st = "linked" /\ jno[j].type = "dir"
        <4> TAKE j \in Inodes
        <4>1. pn2[j] # None => pnd[j] # None  BY <1>3, <1>4
        <4>2. pn2[j] # None => ino[j].st = "linked" /\ ino[j].type = "dir"  BY <1>1, <4>1 DEF Dirs
        <4> QED BY <1>1, <4>2
      <3> QED BY <1>1, <1>4, <3>1, VolumeAssumption DEF Dirs
    <2>4. \A j \in Inodes : InodeOK(jno[j])  BY <1>1 DEF Good
    <2> QED BY <1>1, <2>1, <2>2, <2>3, <2>4 DEF InodesStep
  <1>6. Placed(ino, jno, i)
    <2>1. jno[d] = ino[d]  BY <1>1
    <2>2. Knows(jno, jno[i])  BY <2>1 DEF Knows
    <2>3. ASSUME NEW j \in Inodes \ {Root}, j # i, Named(ino, j), ino[j].parent = d, ino[j].name = name
          PROVE  FALSE
      <3>1. ino[j].st = "linked"  BY <2>3 DEF Named
      <3>2. PICK z \in E : Has(ino, j, z)  BY <1>1, <2>3, <3>1, OwnEntry
      <3>3. z.dir = ino[d].start /\ z.head.name = name  BY <2>3, <3>2 DEF Has
      <3>4. z = x  BY <3>3
      <3>5. Named(ino, i) /\ Has(ino, i, x) /\ Has(ino, j, x)  BY <3>2, <3>4
      <3>6. i = j  BY <1>1, <2>3, <3>5, OneHas
      <3> QED BY <2>3, <3>6
    <2> QED BY <1>1, <2>1, <2>2, <2>3 DEF Placed
  <1>7. EntriesStep(E, ino, i, {x}, {y}, jno, T)
    <2>1. y.dir \in DOMAIN T  BY <1>2 DEF DirsTrue, IsDirectory
    <2>2. y.dir = jno[jno[i].parent].start  BY <1>1
    <2>3. \A z \in E \ {x} : z.dir = y.dir /\ z.head.name = y.head.name => z = y  BY <1>1
    <2> DEFINE X == {x}
               Y == {y}
    <2>4. /\ X \subseteq E /\ \A z \in X : Named(ino, i) /\ Has(ino, i, z)
          /\ \A z \in Y : z = y
          /\ \E z : Y = {z}
          /\ \A z \in E \ X : z \in E \ {x}
      OBVIOUS
    <2>5. jno[i].type = "dir" => y.at = jno[i].entry  BY <1>1
    <2> HIDE DEF X, Y
    <2>6. EntriesStep(E, ino, i, X, Y, jno, T)
      BY <1>1, <1>6, <2>1, <2>2, <2>3, <2>4, <2>5, ZenonT(60) DEF EntriesStep
    <2> QED BY <2>6 DEF X, Y
  <1>8. TableStep(E, T, {x}, {y}, T)
    <2>1. RootClu \in DOMAIN T  BY <1>2 DEF DirsTrue
    <2>2. x.head.type = "dir" => /\ x.head.clu \in DOMAIN T \ {RootClu}
                                 /\ \A z \in E : z.head.type = "dir" /\ z.head.clu = x.head.clu => z = x
      BY <1>2 DEF DirsTrue
    <2>3. x.head.type = "dir" => y.dir = RootClu  BY <1>1 DEF Dirs
    <2>4. Catalogue(E, v, ino, pnd, T) /\ x \in E  OBVIOUS
    <2> DEFINE X == {x}
               Y == {y}
    <2>5. (\A z \in X : z = x /\ z \in E) /\ (\A z \in Y : z = y) /\ x \in X /\ y \in Y  BY <2>4
    <2> HIDE DEF X, Y, Moves
    <2>6. TableStep(E, T, X, Y, T)  BY <1>1, <2>1, <2>2, <2>3, <2>5 DEF TableStep
    <2> QED BY <2>6 DEF X, Y
  <1>9. MissingStep({y}, pnd, jno, pn2)
    <2> SUFFICES ASSUME NEW j \in Inodes, pn2[j] # None
                 PROVE  pn2[j] = pnd[j] /\ (y.dir = jno[j].start => y.head.name # pn2[j])
      BY ZenonT(60) DEF MissingStep
    <2>1. j # d /\ pn2[j] = pnd[j]  BY <1>3, <1>4
    <2>2. IsDirectory(ino[j])  BY <1>1, <2>1 DEF Dirs, IsDirectory
    <2>3. jno[j].start = ino[j].start  BY <1>1 DEF Like
    <2>4. Owns(ino[j]) /\ Owns(ino[d])  BY <1>1, <2>2, DirOwns DEF IsDirectory, Good
    <2>5. ino[j].start # ino[d].start  BY <1>1, <2>1, <2>4, SameDirectory
    <2> QED BY <2>1, <2>3, <2>5
  <1> QED BY <1>5, <1>7, <1>8, <1>9 DEF NamesStep, pn2

LEMMA MovesKeeps ==
  ASSUME NEW E, NEW v, NEW ino, NEW pnd, NEW T, NEW i, NEW d, NEW name, NEW x, NEW y, NEW w, NEW jno,
         Moves(E, v, ino, pnd, T, i, d, name, x, y, w, jno)
  PROVE  Catalogue((E \ {x}) \cup {y}, w, jno, [pnd EXCEPT ![d] = None], T)
  <1>1. /\ Good(v, ino) /\ NamesTrue(E, ino, pnd, T) /\ i \in Inodes \ {Root}
        /\ ino[i].st = "linked" /\ Keeps(v, ino, w, jno) /\ jno[i].type = ino[i].type
        /\ jno[i].st = "linked" /\ Catalogue(E, v, ino, pnd, T) /\ Like(ino[i], jno[i])
    <2>1. /\ Good(v, ino) /\ NamesTrue(E, ino, pnd, T) /\ i \in Inodes \ {Root}
          /\ ino[i].st = "linked" /\ Keeps(v, ino, w, jno) /\ jno[i].type = ino[i].type
          /\ jno[i].st = "linked"
      BY MovesFacts
    <2>2. Catalogue(E, v, ino, pnd, T) /\ Like(ino[i], jno[i])  BY DEF Moves
    <2> QED BY <2>1, <2>2
  <1>2. SameFat(v, w) /\ x \in E /\ y \notin E \ {x} /\ Has(ino, i, x)  BY DEF Moves
  <1>3. ChainsSame(v, w)  BY <1>1, <1>2, SameFatChains DEF Good
  <1>4. /\ jno[i].start = ino[i].start /\ jno[i].size = ino[i].size
        /\ Clus(w, jno[i]) = Clus(v, ino[i]) /\ UsedBy(w, jno[i]) = UsedBy(v, ino[i])
    <2>1. ChainOf(jno[i]) = ChainOf(ino[i]) /\ (Owns(jno[i]) <=> Owns(ino[i]))
      BY <1>1 DEF Like, ChainOf, Owns
    <2>2. \A f : Clus(w, f) = Clus(v, f)  BY <1>3, SameChains
    <2>3. Clus(v, jno[i]) = Clus(v, ino[i])  BY <2>1 DEF Clus
    <2> QED BY <1>1, <2>1, <2>2, <2>3 DEF UsedBy, Like
  <1>5. DataSteps(v, ino, w, jno, i)
    <2>1. \A j \in Inodes : j # i => SameOwner(ino[j], jno[j])  BY DEF SameOwner, Moves
    <2>2. OthersStay(v, w, UsedBy(v, ino[i]))
      <3>1. \A p, q : Through(v, p, q) => Through(w, p, q)  BY <1>1, <1>2, SameFatIs DEF Good
      <3> QED BY <1>3, <3>1 DEF OthersStay, ChainsSame
    <2>3. w.bitmap \subseteq (v.bitmap \ UsedBy(v, ino[i])) \cup UsedBy(w, jno[i])
      BY <1>3, <1>4 DEF ChainsSame
    <2> QED BY <1>1, <2>1, <2>2, <2>3 DEF DataSteps, Keeps
  <1>6. TableSteps(v, ino, T, w, jno, T, i)
    <2>1. IsDirectory(ino[i]) => T[ino[i].start] = Clus(v, ino[i]) /\ ino[i].size = Len(T[ino[i].start])
      BY <1>1 DEF Catalogue, DataTrue, ChainsTrue, IsDirectory
    <2>2. IsDirectory(jno[i]) => IsDirectory(ino[i])  BY <1>1 DEF IsDirectory
    <2> QED BY <1>4, <2>1, <2>2 DEF TableSteps
  <1> DEFINE X == {x}
             Y == {y}
             pn2 == [pnd EXCEPT ![d] = None]
  <1>7. NamesStep(E, v, ino, pnd, T, i, X, Y, jno, pn2, T)  BY MovesNames
  <1>8. \A z \in E : Named(ino, i) /\ Has(ino, i, z) => z \in X
    <2>1. \E u \in E : \A z \in E : Has(ino, i, z) => z = u  BY <1>1, OwnEntry
    <2> QED BY <1>2, <2>1
  <1>9. Y \cap (E \ X) = {}  BY <1>2
  <1> HIDE DEF X, Y, pn2
  <1>10. Catalogue((E \ X) \cup Y, w, jno, pn2, T)
    BY <1>1, <1>5, <1>6, <1>7, <1>8, <1>9, CatalogueStep
  <1> QED BY <1>10 DEF X, Y, pn2

\* The inodes of S have the name in the directory d, and no clusters.
Targets(ino, d, name, S) ==
    \A t \in S : Named(ino, t) /\ ino[t].parent = d /\ ino[t].name = name /\ ~Owns(ino[t])
\* Their entries.
EntriesOf(E, ino, S) == {z \in E : \E t \in S : Has(ino, t, z)}

LEMMA OneTarget ==
  ASSUME NEW v, NEW ino, NEW pnd, NEW T, Consistent(v, ino, pnd, T), NEW d, NEW name, NEW S,
         Targets(ino, d, name, S)
  PROVE  \/ S = {} /\ EntriesOf(Entries(v, T), ino, S) = {}
         \/ \E t \in Inodes \ {Root}, z \in Entries(v, T) :
               /\ S = {t} /\ EntriesOf(Entries(v, T), ino, S) = {z} /\ Has(ino, t, z)
  <1> DEFINE E == Entries(v, T)
  <1>1. NamesTrue(E, ino, pnd, T) /\ Good(v, ino) /\ EntriesTrue(E, T)
    BY DEF Consistent, Catalogue, NamesTrue
  <1> HIDE DEF E
  <1>2. CASE S = {}  BY <1>2 DEF EntriesOf, E
  <1>3. ASSUME NEW t \in S
        PROVE  \E u \in Inodes \ {Root}, z \in E : /\ S = {u} /\ EntriesOf(E, ino, S) = {z}
                                                  /\ Has(ino, u, z)
    <2>1. t \in Inodes \ {Root} /\ ino[t].st = "linked" /\ Named(ino, t)
      BY <1>3 DEF Targets, Named
    <2>2. PICK z \in E : Has(ino, t, z) /\ \A y \in E : Has(ino, t, y) => y = z
      BY <1>1, <2>1, OwnEntry
    <2>3. ASSUME NEW u \in S PROVE u = t
      <3>1. u \in Inodes \ {Root} /\ ino[u].st = "linked" /\ Named(ino, u)
        BY <2>3 DEF Targets, Named
      <3>2. PICK y \in E : Has(ino, u, y)  BY <1>1, <3>1, OwnEntry
      <3>3. y.dir = z.dir /\ y.head.name = z.head.name
        BY <1>3, <2>2, <2>3, <3>2 DEF Targets, Has
      <3>4. y = z  BY <1>1, <3>3 DEF EntriesTrue
      <3> QED BY <1>1, <2>1, <2>2, <3>1, <3>2, <3>4, OneHas
    <2>4. S = {t}  BY <1>3, <2>3
    <2>5. EntriesOf(E, ino, S) = {z}  BY <2>2, <2>4 DEF EntriesOf
    <2> QED BY <2>1, <2>2, <2>4, <2>5
  <1> QED BY <1>2, <1>3 DEF E

\* The inode i is renamed: y takes the place of its entry x, and of those of S.
Renames(v, ino, pnd, T, i, d, name, S, x, y, w, jno) ==
    /\ Consistent(v, ino, pnd, T) /\ Named(ino, i) /\ x \in Entries(v, T) /\ Has(ino, i, x)
    /\ d \in Inodes /\ IsDirectory(ino[d]) /\ (ino[i].type = "dir" => d = Root) /\ name \in Names
    /\ Targets(ino, d, name, S) /\ i \notin S /\ (S = {} => pnd[d] = name)
    /\ y.dir = ino[d].start /\ y.head = [x.head EXCEPT !.name = name] /\ y \notin Entries(v, T) \ {x}
    /\ Carved(v, w, T, ((Entries(v, T) \ EntriesOf(Entries(v, T), ino, S)) \ {x}) \cup {y})
    /\ DOMAIN jno = Inodes /\ \A j \in Inodes \ S : j # i => jno[j] = ino[j]
    /\ \A t \in S : jno[t].st # "linked" /\ ~Owns(jno[t]) /\ InodeOK(jno[t])
    /\ Like(ino[i], jno[i]) /\ jno[i].name = name /\ jno[i].parent = d /\ jno[i].dirty
    /\ jno[i].entry \in Nat /\ (ino[i].type = "dir" => jno[i].entry = y.at)
    /\ jno[i].dir.dir = ino[d].start /\ jno[i].dir.flags \in {1, 3}
    /\ jno[i].dir.flags = 1 => ino[d].flags = 1
    /\ ino[i].type = "dir" => jno[i].dir.flags = 1

LEMMA RenamesCatalogue ==
  ASSUME NEW v, NEW ino, NEW pnd, NEW T, NEW i, NEW d, NEW name, NEW S, NEW x, NEW y, NEW w, NEW jno,
         Renames(v, ino, pnd, T, i, d, name, S, x, y, w, jno)
  PROVE  LET E == Entries(v, T)
         IN Catalogue(((E \ EntriesOf(E, ino, S)) \ {x}) \cup {y}, w, jno, [pnd EXCEPT ![d] = None], T)
  <1> DEFINE E == Entries(v, T)
             Z == EntriesOf(E, ino, S)
             pn2 == [pnd EXCEPT ![d] = None]
  <1>1. /\ Consistent(v, ino, pnd, T) /\ Named(ino, i) /\ x \in E /\ Has(ino, i, x)
        /\ d \in Inodes /\ IsDirectory(ino[d]) /\ (ino[i].type = "dir" => d = Root) /\ name \in Names
        /\ Targets(ino, d, name, S) /\ i \notin S /\ (S = {} => pnd[d] = name)
        /\ y.dir = ino[d].start /\ y.head = [x.head EXCEPT !.name = name] /\ y \notin E \ {x}
        /\ SameFat(v, w)
        /\ DOMAIN jno = Inodes /\ \A j \in Inodes \ S : j # i => jno[j] = ino[j]
        /\ \A t \in S : jno[t].st # "linked" /\ ~Owns(jno[t]) /\ InodeOK(jno[t])
    BY DEF Renames, Carved
  <1>2. /\ Like(ino[i], jno[i]) /\ jno[i].name = name /\ jno[i].parent = d /\ jno[i].dirty
        /\ jno[i].entry \in Nat /\ (ino[i].type = "dir" => jno[i].entry = y.at)
        /\ jno[i].dir.dir = ino[d].start /\ jno[i].dir.flags \in {1, 3}
        /\ jno[i].dir.flags = 1 => ino[d].flags = 1
        /\ ino[i].type = "dir" => jno[i].dir.flags = 1
    BY DEF Renames
  <1>3. /\ Catalogue(E, v, ino, pnd, T) /\ Good(v, ino) /\ NamesTrue(E, ino, pnd, T)
        /\ EntriesTrue(E, T) /\ NamesMissing(E, ino, pnd) /\ DOMAIN ino = Inodes
        /\ \A j \in Inodes : InodeOK(ino[j])
    BY <1>1 DEF Consistent, Catalogue, NamesTrue, Good
  <1> HIDE DEF E
  <1>4. CASE S = {}
    <2>1. Z = {}  BY <1>4 DEF EntriesOf
    <2>2. \A z \in E \ {x} : z.dir = ino[d].start => z.head.name # name
      <3>1. pnd[d] = name /\ name # None  BY <1>1, <1>4, NoneAssumption
      <3> QED BY <1>1, <1>3, <3>1 DEF NamesMissing
    <2>3. \A j \in Inodes : j # i => jno[j] = ino[j]  BY <1>1, <1>4
    <2>4. Moves(E, v, ino, pnd, T, i, d, name, x, y, w, jno)
      BY <1>1, <1>2, <1>3, <2>2, <2>3 DEF Moves
    <2>5. Catalogue((E \ {x}) \cup {y}, w, jno, pn2, T)  BY <2>4, MovesKeeps
    <2>6. (E \ Z) \ {x} = E \ {x}  BY <2>1
    <2> QED BY <2>5, <2>6 DEF E
  <1>5. CASE S # {}
    <2>1. PICK t \in Inodes \ {Root}, z \in E : S = {t} /\ Z = {z} /\ Has(ino, t, z)
      BY <1>1, <1>5, OneTarget DEF E
    <2>2. /\ Named(ino, t) /\ ~Owns(ino[t]) /\ ino[t].parent = d /\ ino[t].name = name /\ t # i
          /\ jno[t].st # "linked" /\ ~Owns(jno[t]) /\ InodeOK(jno[t])
      BY <1>1, <2>1 DEF Targets
    <2> DEFINE kno == [ino EXCEPT ![t] = jno[t]]
               G == E \ {z}
    <2>3. /\ DOMAIN kno = Inodes /\ kno[t] = jno[t] /\ \A j \in Inodes : j # t => kno[j] = ino[j]
      BY <1>3, <2>1
    <2> HIDE DEF kno
    <2>4. Catalogue(G, v, kno, pnd, T)
      BY <1>3, <2>1, <2>2, <2>3, TargetForgotten
    <2>5. ino[i].parent \in Inodes /\ IsDirectory(ino[ino[i].parent])  BY <1>1, ParentIs
    <2>6. ~IsDirectory(ino[t])  BY <1>3, <2>1, <2>2, DirOwns DEF IsDirectory
    <2>7. i \in Inodes \ {Root} /\ kno[i] = ino[i] /\ kno[d] = ino[d]
          /\ kno[ino[i].parent] = ino[ino[i].parent]
      BY <1>1, <2>2, <2>3, <2>5, <2>6 DEF Named
    <2>8. Named(kno, i) /\ Has(kno, i, x)  BY <1>1, <2>7 DEF Named, Has
    <2>9. x # z
      <3>1. x = z => i = t  BY <1>1, <1>3, <2>1, <2>2, OneHas
      <3> QED BY <2>2, <3>1
    <2>10. \A u \in G \ {x} : u.dir = kno[d].start => u.head.name # name
      <3> SUFFICES ASSUME NEW u \in G, u.dir = ino[d].start, u.head.name = name PROVE FALSE
        BY <2>7
      <3>1. z.dir = ino[d].start /\ z.head.name = name  BY <2>1, <2>2 DEF Has
      <3>2. u = z  BY <1>3, <2>1, <3>1 DEF EntriesTrue
      <3> QED BY <3>2
    <2>11. \A j \in Inodes : j # i => jno[j] = kno[j]  BY <1>1, <2>1, <2>3
    <2>12. x \in G /\ y \notin G \ {x} /\ IsDirectory(kno[d])  BY <1>1, <2>7, <2>9
    <2> HIDE DEF G
    <2>13. Moves(G, v, kno, pnd, T, i, d, name, x, y, w, jno)
      BY <1>1, <1>2, <2>4, <2>7, <2>8, <2>10, <2>11, <2>12 DEF Moves
    <2>14. Catalogue((G \ {x}) \cup {y}, w, jno, pn2, T)  BY <2>13, MovesKeeps
    <2>15. E \ Z = G  BY <2>1 DEF G
    <2> QED BY <2>14, <2>15 DEF E
  <1> QED BY <1>4, <1>5

LEMMA RenamesKeeps ==
  ASSUME NEW v, NEW ino, NEW pnd, NEW T, NEW i, NEW d, NEW name, NEW S, NEW x, NEW y, NEW w, NEW jno,
         Renames(v, ino, pnd, T, i, d, name, S, x, y, w, jno)
  PROVE  Consistent(w, jno, [pnd EXCEPT ![d] = None], T)
  <1> DEFINE E == Entries(v, T)
             E2 == ((E \ EntriesOf(E, ino, S)) \ {x}) \cup {y}
             pn2 == [pnd EXCEPT ![d] = None]
  <1>1. Consistent(v, ino, pnd, T) /\ Carved(v, w, T, E2) /\ x \in E
        /\ y.head = [x.head EXCEPT !.name = name]
    BY DEF Renames
  <1>2. Catalogue(E2, w, jno, pn2, T)  BY RenamesCatalogue
  <1>3. /\ VolOK(v) /\ TableOK(v, T) /\ HintTrue(E, v, T) /\ x.head \in Heads
    BY <1>1, TableIs, EntryFacts DEF Consistent, Catalogue, Good
  <1>4. /\ SameFat(v, w) /\ w.hint = v.hint /\ Ordered(w, T) /\ Entries(w, T) = E2
        /\ \A b \in DOMAIN T, j \in Nat : j \in DOMAIN View(v, T[b]) /\ View(w, T[b])[j] = Unused
                                          => View(v, T[b])[j] = Unused
    BY <1>1 DEF Carved
  <1>5. OthersStay(v, w, {})
    <2>1. \A p, q : Through(v, p, q) => Through(w, p, q)  BY <1>3, <1>4, SameFatIs
    <2>2. w.bitmap = v.bitmap  BY <1>4 DEF SameFat, SameClusters
    <2> QED BY <2>1, <2>2 DEF OthersStay
  <1>6. /\ y.head.type = x.head.type /\ y.head.clu = x.head.clu /\ y.head.flags = x.head.flags
    BY <1>1, <1>3 DEF Heads
  <1>7. \A u \in E2 : \E z \in E : /\ z.head.type = u.head.type /\ z.head.clu = u.head.clu
                                   /\ z.head.flags = u.head.flags
    BY <1>1, <1>6, Zenon
  <1> HIDE DEF E2, pn2
  <1>8. HintStep(E, v, T, E2, w, T, {})
    BY <1>3, <1>4, <1>5, <1>7 DEF HintStep
  <1>9. HintTrue(E2, w, T)  BY <1>3, <1>8, HintKept
  <1> QED BY <1>2, <1>4, <1>9 DEF Consistent, pn2

\* The same through the chain that the directory has then.
LEMMA LeadsOver ==
  ASSUME NEW v, FatOK(v), NEW p, NEW q, Through(v, p, q), NEW w, FatOK(w), NEW p2, NEW r,
         Through(w, p2, r), Len(q) <= Len(r), \A k \in 1 .. Len(q) : r[k] = q[k],
         NEW at \in Nat, NEW e, NEW n, LeadsTo(v, p, at, q, e, n)
  PROVE  LeadsTo(w, p2, at, r, e, n)
  <1>1. /\ q \in Seq(Clusters) /\ Len(q) \in Nat /\ Len(r) \in Nat /\ e \in Nat /\ n \in Nat
        /\ p.flags \in {1, 3} /\ p.dir = q[1] /\ r \in Seq(Clusters)
        /\ \A a, b \in 1 .. Len(r) : r[a] = r[b] => a = b
        /\ p.flags = 3 => \A k \in 1 .. Len(q) : q[k] = p.dir + (k - 1)
        /\ \A m \in 0 .. n - 1 : e + m \in Idx(q) /\ Locate(v, p, at + m) = Loc(q, e + m)
    BY RunEnd DEF LeadsTo, Through
  <1>2. \A j \in Idx(q) : j \in Idx(r) /\ Loc(r, j) = Loc(q, j)
    <2>1. Len(q) * SlotsPerClu <= Len(r) * SlotsPerClu
          /\ Len(q) * SlotsPerClu \in Nat /\ Len(r) * SlotsPerClu \in Nat
      <3> DEFINE a == Len(q)
                 g == Len(r) - Len(q)
      <3>1. a \in Nat /\ g \in Nat /\ Len(r) = a + g /\ SlotsPerClu \in Nat
        BY <1>1, VolumeAssumption
      <3> HIDE DEF a, g
      <3>2. (a + g) * SlotsPerClu = a * SlotsPerClu + g * SlotsPerClu
            /\ a * SlotsPerClu \in Nat /\ g * SlotsPerClu \in Nat
        BY <3>1
      <3> QED BY <3>1, <3>2 DEF a
    <2> TAKE j \in Idx(q)
    <2>2. j \in Nat /\ j \div SlotsPerClu + 1 \in 1 .. Len(q)  BY <1>1, LocFacts
    <2>3. Loc(r, j) = Loc(q, j)  BY <2>2 DEF Loc
    <2>4. j \in Idx(r)  BY <2>1, <2>2 DEF Idx
    <2> QED BY <2>3, <2>4
  <1>3. ASSUME NEW m \in 0 .. n - 1
        PROVE  Locate(w, p2, at + m) = Loc(q, e + m) /\ e + m \in Idx(q)
    <2> DEFINE j == at + m
               k == e + m
               x == j \div SlotsPerClu
    <2>1. j \in Nat /\ Locate(v, p, j) = Loc(q, k) /\ k \in Idx(q)  BY <1>1
    <2> HIDE DEF j, k
    <2>2. x \in Nat /\ \A y \in Nat : j >= y * SlotsPerClu => x >= y  BY <2>1, DivMod
    <2>3. NthCluster(v, p, x) = Loc(q, k)[1]  BY <2>1 DEF Locate
    <2>4. Loc(q, k)[1] \in Clusters /\ Loc(q, k)[1] \in Of(q)
      BY <1>1, <2>1, LocFacts
    <2> HIDE DEF x
    <2>5. x < Len(q)
      <3>1. CASE p.flags = 3
        <4>1. PICK a \in 1 .. Len(q) : Loc(q, k)[1] = q[a]  BY <2>4 DEF Of
        <4>2. q[a] = p.dir + (a - 1) /\ p.dir \in Clusters  BY <1>1, <2>4, <3>1, <4>1
        <4>3. NthCluster(v, p, x) = IF p.dir + x \in Clusters \cup {EOC} THEN p.dir + x ELSE Bad
          BY <3>1 DEF NthCluster
        <4>4. p.dir + x = p.dir + (a - 1)
          BY <2>3, <2>4, <4>1, <4>2, <4>3, ClusterFacts
        <4>5. p.dir \in Int
          <5> DEFINE b == p.dir
          <5>1. b \in Clusters  BY <4>2
          <5> HIDE DEF b
          <5>2. b \in Nat  BY <5>1, ClusterFacts
          <5> QED BY <5>2 DEF b
        <4> QED BY <1>1, <2>2, <4>4, <4>5
      <3>2. CASE p.flags = 1
        <4>1. \A y \in Nat : y >= Len(q) => NthCluster(v, p, y) \notin Clusters  BY <3>2, NthThrough
        <4> QED BY <1>1, <2>2, <2>3, <2>4, <4>1
      <3> QED BY <1>1, <3>1, <3>2
    <2>6. j \in Idx(q)
      <3>1. ~(j >= Len(q) * SlotsPerClu)  BY <1>1, <2>2, <2>5
      <3>2. Len(q) * SlotsPerClu \in Nat  BY <1>1, VolumeAssumption
      <3> QED BY <2>1, <3>1, <3>2 DEF Idx
    <2>7. Locate(v, p, j) = Loc(q, j)  BY <2>6, SlotIs
    <2>8. Locate(w, p2, j) = Loc(r, j)  BY <1>2, <2>6, SlotIs
    <2> QED BY <1>2, <2>1, <2>6, <2>7, <2>8 DEF j, k
  <1> QED BY <1>1, <1>2, <1>3, Zenon DEF LeadsTo

\* Through e.p, where the inode knew the directory as it was.
LEMMA LeadsAnew ==
  ASSUME NEW v, NEW ino, NEW pnd, NEW T, Consistent(v, ino, pnd, T), NEW d \in Inodes,
         NEW w, NEW jno, NEW T2, Made(v, ino, pnd, T, d, w, jno, T2), IsDirectory(ino[d]),
         NEW i, Named(ino, i), ino[i].dir = ChainOf(ino[ino[i].parent]),
         NEW c, c = ino[ino[i].parent].start, NEW e, NEW n,
         LeadsTo(v, ino[i].dir, ino[i].entry, T[c], e, n), NEW p, Through(w, p, T2[c])
  PROVE  LeadsTo(w, p, ino[i].entry, T2[c], e, n)
  <1> DEFINE q == T[c]
             r == T2[c]
             at == ino[i].entry
             p1 == ino[i].dir
             b == ino[d].start
  <1>1. c \in DOMAIN T /\ Through(v, p1, q) /\ at \in Nat  BY ParentIs
  <1>2. FatOK(v) /\ FatOK(w) /\ q \in Seq(Clusters) /\ LeadsTo(v, p1, at, q, e, n)
        /\ (r = q \/ \E x \in Clusters : r = Append(q, x))
    <2>1. Consistent(w, jno, pnd, T2)  BY DEF Made
    <2> QED BY <1>1, <2>1, TableIs, Zenon DEF Made, Consistent, Catalogue, Good, VolOK, TableOK
  <1> HIDE DEF q, r, p1, at
  <1>3. Len(q) <= Len(r) /\ \A k \in 1 .. Len(q) : r[k] = q[k]
    <2>0. Len(q) \in Nat  BY <1>2, LenProperties
    <2>1. CASE r = q  BY <2>0, <2>1
    <2>2. CASE \E x \in Clusters : r = Append(q, x)
      <3>1. PICK x \in Clusters : r = Append(q, x)  BY <2>2
      <3>2. Len(r) = Len(q) + 1 /\ \A k \in 1 .. Len(q) : r[k] = q[k]
        BY <1>2, <3>1, AppendProperties
      <3> QED BY <2>0, <3>2
    <2> QED BY <1>2, <2>1, <2>2
  <1>4. Through(w, p, r)  BY DEF r
  <1>5. LeadsTo(w, p, at, r, e, n)  BY <1>1, <1>2, <1>3, <1>4, LeadsOver
  <1> QED BY <1>5 DEF at, r

\* Where the inodes of S find their entries.
Lead(v, ino, T, S) ==
    \A t \in S, z \in Entries(v, T) : Has(ino, t, z) =>
        /\ ino[t].entry \in Int
        /\ LeadsTo(v, ino[t].dir, ino[t].entry, T[z.dir], z.at, NameLen[z.head.name])
\* The entry of the target is deleted, if there is one.
Gone(u, ino, S) ==
    IF S = {} THEN u
    ELSE LET f == ino[CHOOSE t \in S : TRUE]
         IN DeleteEntry(u, f.dir, f.entry, 0, EntryLength(u, f.dir, f.entry))

LEMMA CarvedGone ==
  ASSUME NEW v, NEW ino, NEW pnd, NEW T, Consistent(v, ino, pnd, T), NEW d, NEW name, NEW S,
         Targets(ino, d, name, S), Lead(v, ino, T, S), NEW i, i \notin S, Named(ino, i),
         NEW x \in Entries(v, T), Has(ino, i, x), NEW y, y \notin Entries(v, T) \ {x},
         NEW u, Carved(v, u, T, (Entries(v, T) \ {x}) \cup {y})
  PROVE  Carved(v, Gone(u, ino, S), T,
                ((Entries(v, T) \ EntriesOf(Entries(v, T), ino, S)) \ {x}) \cup {y})
  <1> DEFINE E == Entries(v, T)
             Z == EntriesOf(E, ino, S)
  <1>1. CASE S = {}
    <2>1. Z = {}  BY <1>1 DEF EntriesOf
    <2>2. Gone(u, ino, S) = u  BY <1>1 DEF Gone
    <2>3. ((E \ Z) \ {x}) \cup {y} = (E \ {x}) \cup {y}  BY <2>1
    <2> QED BY <2>2, <2>3
  <1>2. CASE S # {}
    <2>1. PICK t \in Inodes \ {Root}, z \in E : S = {t} /\ Z = {z} /\ Has(ino, t, z)
      BY <1>2, OneTarget
    <2>2. Named(ino, t) /\ t # i  BY <2>1 DEF Targets
    <2>3. Good(v, ino) /\ NamesTrue(E, ino, pnd, T)  BY DEF Consistent, Catalogue
    <2>4. z # x
      <3>1. z = x => i = t  BY <2>1, <2>2, <2>3, OneHas
      <3> QED BY <2>2, <3>1
    <2>5. y # z  BY <2>1, <2>4
    <2> DEFINE p == ino[t].dir
               at == ino[t].entry
               n == NameLen[z.head.name]
    <2>6. at \in Int /\ LeadsTo(v, p, at, T[z.dir], z.at, n)  BY <2>1 DEF Lead
    <2>7. (CHOOSE a \in S : TRUE) = t  BY <2>1
    <2>8. Gone(u, ino, S) = DeleteEntry(u, p, at, 0, EntryLength(u, p, at))
      BY <1>2, <2>7, Zenon DEF Gone
    <2>9. /\ SameFat(v, u) /\ VolOK(u) /\ TableOK(u, T) /\ Ordered(u, T)
          /\ Entries(u, T) = (E \ {x}) \cup {y}
      BY DEF Carved
    <2>10. z \in Entries(u, T)  BY <2>1, <2>4, <2>9
    <2> HIDE DEF p, at, E
    <2>11. LeadsTo(u, p, at, T[z.dir], z.at, n)
      BY <2>6, <2>9, SameLocate DEF SameFat, SameClusters
    <2>12. /\ Carved(u, DeleteEntry(u, p, at, 0, n), T, Entries(u, T) \ {z})
           /\ EntryLength(u, p, at) = n
      BY <2>6, <2>9, <2>10, <2>11, CarvedWipe, Zenon
    <2>13. Entries(u, T) \ {z} = ((E \ Z) \ {x}) \cup {y}  BY <2>1, <2>4, <2>5, <2>9
    <2>14. Carved(v, DeleteEntry(u, p, at, 0, n), T, ((E \ Z) \ {x}) \cup {y})
      BY <2>12, <2>13, CarvedTrans DEF E
    <2> QED BY <2>8, <2>12, <2>14 DEF E
  <1> QED BY <1>1, <1>2

\* The entry of an inode where the inode knows it to be.
LEMMA HomeLead ==
  ASSUME NEW v, NEW ino, NEW pnd, NEW T, Consistent(v, ino, pnd, T), NEW i, Named(ino, i),
         AtHome(v, ino, i)
  PROVE  \E x \in Entries(v, T) :
            LET f == ino[i]
                n == NameLen[x.head.name]
            IN /\ Home(Entries(v, T), ino, i, x) /\ Has(ino, i, x) /\ x.head \in Heads
               /\ x.dir = ino[f.parent].start /\ x.head.name = f.name
               /\ LeadsTo(v, f.dir, f.entry, T[x.dir], x.at, n) /\ f.entry \in Nat
               /\ Slot(v, f.dir, f.entry) = x.head /\ EntryLength(v, f.dir, f.entry) = n
               /\ \A z \in Entries(v, T) : Has(ino, i, z) => z = x
  <1> DEFINE E == Entries(v, T)
             f == ino[i]
  <1>1. AfterGrowth(v, v, {})
    <2>1. VolOK(v)  BY DEF Consistent, Catalogue, Good
    <2> QED BY <2>1 DEF AfterGrowth, OthersStay
  <1>2. PICK x \in E :
          /\ Home(E, ino, i, x) /\ x.head \in Heads /\ x.dir = ino[f.parent].start
          /\ LeadsTo(v, f.dir, f.entry, T[x.dir], x.at, NameLen[x.head.name])
          /\ Slot(v, f.dir, f.entry) = x.head /\ f.entry \in Nat
          /\ EntryLength(v, f.dir, f.entry) = NameLen[x.head.name]
    <2> DEFINE used == {}
    <2>1. AfterGrowth(v, v, used) /\ Of(T[ino[ino[i].parent].start]) \cap used = {}  BY <1>1
    <2> HIDE DEF used
    <2> QED BY <2>1, HomeEntry
  <1>3. x.head.name = f.name  BY <1>2 DEF Home, Agrees
  <1>4. Has(ino, i, x)  BY <1>2, <1>3 DEF Has, Named
  <1>5. NamesTrue(E, ino, pnd, T) /\ i \in Inodes \ {Root} /\ f.st = "linked"
    BY DEF Consistent, Catalogue, Named
  <1>6. \A z \in E : Has(ino, i, z) => z = x
    <2>1. \E y \in E : \A z \in E : Has(ino, i, z) => z = y  BY <1>5, OwnEntry
    <2> QED BY <1>4, <2>1
  <1> QED BY <1>2, <1>3, <1>4, <1>6

\* What becomes of the inode that is renamed, and of that of a target.
Anew(f, d, name) == [f EXCEPT !.parent = d, !.name = name, !.dirty = TRUE]
IsAnew(f, d, name, p, e, h) ==
    /\ Like(f, h) /\ h.parent = d /\ h.name = name /\ h.dirty = TRUE /\ h.dir = p /\ h.entry = e
Relocated(f, p, e, g) ==
    \/ g = [f EXCEPT !.entry = e] /\ p = f.dir
    \/ g = [f EXCEPT !.dir = p, !.entry = e]

LEMMA MovedIs ==
  ASSUME NEW f, InodeOK(f), f # Free, NEW p, NEW e, NEW g,
         Relocated(f, p, e, g),
         NEW d, NEW name, NEW h, h = Anew(g, d, name)
  PROVE  IsAnew(f, d, name, p, e, h)
  <1> DEFINE fields == {"st", "type", "name", "parent", "dir", "entry", "flags", "start",
                        "size", "hoff", "hclu", "dirty"}
  <1>1. DOMAIN f = fields  BY DEF InodeOK
  <1>2. /\ DOMAIN g = fields /\ g.st = f.st /\ g.type = f.type /\ g.start = f.start
        /\ g.size = f.size /\ g.flags = f.flags /\ g.hoff = f.hoff /\ g.hclu = f.hclu
        /\ g.entry = e /\ g.dir = p
    BY <1>1, Zenon DEF Relocated
  <1>3. /\ DOMAIN h = fields /\ h.st = g.st /\ h.type = g.type /\ h.start = g.start
        /\ h.size = g.size /\ h.flags = g.flags /\ h.hoff = g.hoff /\ h.hclu = g.hclu
        /\ h.parent = d /\ h.name = name /\ h.dirty = TRUE /\ h.dir = g.dir /\ h.entry = g.entry
    BY <1>2 DEF Anew
  <1> HIDE DEF fields
  <1>4. Like(f, h)  BY <1>1, <1>2, <1>3 DEF Like
  <1> QED BY <1>2, <1>3, <1>4 DEF IsAnew

LEMMA RenamedIs ==
  ASSUME NEW f, InodeOK(f), f # Free, NEW d, NEW name, NEW h,
         h = Anew(f, d, name)
  PROVE  IsAnew(f, d, name, f.dir, f.entry, h)
  <1> DEFINE fields == {"st", "type", "name", "parent", "dir", "entry", "flags", "start",
                        "size", "hoff", "hclu", "dirty"}
  <1>1. DOMAIN f = fields  BY DEF InodeOK
  <1>2. /\ DOMAIN h = fields /\ h.st = f.st /\ h.type = f.type /\ h.start = f.start
        /\ h.size = f.size /\ h.flags = f.flags /\ h.hoff = f.hoff /\ h.hclu = f.hclu
        /\ h.parent = d /\ h.name = name /\ h.dirty = TRUE /\ h.dir = f.dir /\ h.entry = f.entry
    BY <1>1 DEF Anew
  <1> QED BY <1>1, <1>2 DEF Like, IsAnew

LEMMA LeftIs ==
  ASSUME NEW f, InodeOK(f), f.st = "linked", ~Owns(f), NEW g,
         g = [f EXCEPT !.st = "orphan"] \/ g = Free
  PROVE  g.st # "linked" /\ ~Owns(g) /\ InodeOK(g)
  <1>1. f # Free  BY FreeOwnsNone
  <1>2. f.start = EOC  BY <1>1, OwnsIs DEF Owns
  <1>3. CASE g = [f EXCEPT !.st = "orphan"]
    <2>1. /\ DOMAIN g = DOMAIN f /\ g.st = "orphan" /\ g.type = f.type
          /\ g.flags = f.flags /\ g.start = f.start /\ g.hoff = f.hoff /\ g.size = f.size
      BY <1>1, <1>3 DEF InodeOK
    <2> QED BY <1>1, <1>2, <2>1 DEF InodeOK, Owns
  <1>4. CASE g = Free  BY <1>4, FreeOwnsNone DEF Free, InodeOK
  <1> QED BY <1>3, <1>4

\* A rename, when the inodes know their directories: r is what was done to the
\* entry of i.
Renaming(v, ino, pnd, T, i, d, name, S, r, w, jno) ==
    /\ Consistent(v, ino, pnd, T) /\ Named(ino, i) /\ d \in Inodes /\ IsDirectory(ino[d])
    /\ ino[i].type = "dir" => d = Root
    /\ name \in Names /\ i \notin S /\ (S = {} => pnd[d] = name)
    /\ \A t \in S : Named(ino, t) /\ ino[t].parent = d /\ ino[t].name = name
    /\ \A t \in S \cup {i} : AtHome(v, ino, t) /\ ino[t].dir = ChainOf(ino[ino[t].parent])
    /\ r = IF ino[i].parent = d THEN RenameFile(v, ino, i, name) ELSE MoveFile(v, ino, i, d, name)
    /\ ino[i].parent # d \/ NameLen[ino[i].name] < NameLen[name] => Lies(v, ChainOf(ino[d])) = {}
    /\ IF r.ok
       THEN /\ \A t \in S : ~Owns(ino[t])
            /\ w = Gone(r.v, r.ino, S) /\ DOMAIN jno = Inodes
            /\ jno[i] = Anew(r.ino[i], d, name)
            /\ \A t \in S : jno[t] = [r.ino[t] EXCEPT !.st = "orphan"] \/ jno[t] = Free
            /\ \A j \in Inodes \ S : j # i => jno[j] = r.ino[j]
       ELSE w = r.v /\ jno = r.ino

\* The facts of it.
LEMMA RenamingIs ==
  ASSUME NEW v, NEW ino, NEW pnd, NEW T, NEW i, NEW d, NEW name, NEW S, NEW r, NEW w, NEW jno,
         Renaming(v, ino, pnd, T, i, d, name, S, r, w, jno)
  PROVE  /\ Good(v, ino) /\ Dirs(ino, pnd) /\ VolOK(v) /\ TableOK(v, T) /\ Ordered(v, T)
         /\ DOMAIN ino = Inodes /\ InodeOK(ino[i]) /\ ino[i] # Free /\ i \in Inodes \ {Root}
         /\ i # d /\ ino[d].flags \in {1, 3} /\ InodeOK(ino[d])
         /\ (ino[i].type = "dir" => ino[d].flags = 1)
         /\ Lead(v, ino, T, S) /\ S \subseteq Inodes
         /\ r.ok => Targets(ino, d, name, S) /\ d \notin S
         /\ \A t \in S : ino[t].st = "linked" /\ InodeOK(ino[t])
  <1>1. /\ Good(v, ino) /\ Dirs(ino, pnd) /\ VolOK(v) /\ TableOK(v, T) /\ Ordered(v, T)
        /\ DOMAIN ino = Inodes /\ i \in Inodes \ {Root} /\ InodeOK(ino[i]) /\ ino[i].st = "linked"
        /\ InodeOK(ino[d])
    BY TableIs DEF Renaming, Consistent, Catalogue, Good, Named
  <1>2. i # d  BY <1>1 DEF Renaming, IsDirectory
  <1>3. ino[i] # Free /\ ino[d] # Free  BY <1>1, FreeOwnsNone DEF Renaming, IsDirectory
  <1>4. ino[d].flags \in {1, 3}  BY <1>1, <1>3 DEF InodeOK
  <1>5. ino[i].type = "dir" => ino[d].flags = 1  BY <1>1 DEF Renaming, Dirs
  <1>6. \A t \in S : Named(ino, t) /\ AtHome(v, ino, t)  BY DEF Renaming
  <1>7. S \subseteq Inodes /\ \A t \in S : ino[t].st = "linked"  BY <1>6 DEF Named
  <1>8. Lead(v, ino, T, S)
    <2> SUFFICES ASSUME NEW t \in S, NEW z \in Entries(v, T), Has(ino, t, z)
                 PROVE  /\ ino[t].entry \in Int
                        /\ LeadsTo(v, ino[t].dir, ino[t].entry, T[z.dir], z.at, NameLen[z.head.name])
      BY DEF Lead
    <2>1. Consistent(v, ino, pnd, T) /\ Named(ino, t) /\ AtHome(v, ino, t)  BY <1>6 DEF Renaming
    <2>2. PICK x \in Entries(v, T) :
            /\ LeadsTo(v, ino[t].dir, ino[t].entry, T[x.dir], x.at, NameLen[x.head.name])
            /\ ino[t].entry \in Nat
            /\ \A y \in Entries(v, T) : Has(ino, t, y) => y = x
      BY <2>1, HomeLead
    <2>3. z = x  BY <2>2
    <2> QED BY <2>2, <2>3
  <1>9. r.ok => Targets(ino, d, name, S) /\ d \notin S
    <2>1. r.ok => \A t \in S : ~Owns(ino[t])  BY DEF Renaming
    <2>2. \A t \in S : Named(ino, t) /\ ino[t].parent = d /\ ino[t].name = name  BY DEF Renaming
    <2>3. Owns(ino[d])  BY <1>1, DirOwns DEF Renaming, IsDirectory
    <2> QED BY <2>1, <2>2, <2>3 DEF Targets
  <1>10. \A t \in S : InodeOK(ino[t])  BY <1>1, <1>7 DEF Good
  <1> QED BY <1>1, <1>2, <1>3, <1>4, <1>5, <1>7, <1>8, <1>9, <1>10

\* What an entry becomes.
LEMMA NamedAnew ==
  ASSUME NEW z \in Heads, NEW name \in Names
  PROVE  LET h == [z EXCEPT !.name = name]
         IN h \in Heads /\ h.name = name /\ h.type = z.type
  BY DEF Heads

\* rename_file, in place
LEMMA RenamingInPlace ==
  ASSUME NEW v, NEW ino, NEW pnd, NEW T, NEW i, NEW d, NEW name, NEW S, NEW r, NEW w, NEW jno,
         Renaming(v, ino, pnd, T, i, d, name, S, r, w, jno), ino[i].parent = d,
         EntryLength(v, ino[i].dir, ino[i].entry) >= NameLen[name]
  PROVE  Consistent(w, jno, [pnd EXCEPT ![d] = None], T)
  <1> DEFINE E == Entries(v, T)
             f == ino[i]
             p == f.dir
             at == f.entry
             k == NameLen[name]
             Z == EntriesOf(E, ino, S)
  <1>1. /\ Good(v, ino) /\ Dirs(ino, pnd) /\ VolOK(v) /\ TableOK(v, T) /\ Ordered(v, T)
        /\ DOMAIN ino = Inodes /\ InodeOK(f) /\ f # Free /\ i \in Inodes \ {Root}
        /\ i # d /\ ino[d].flags \in {1, 3}
        /\ (f.type = "dir" => ino[d].flags = 1)
        /\ Lead(v, ino, T, S) /\ S \subseteq Inodes
        /\ (r.ok => Targets(ino, d, name, S) /\ d \notin S)
        /\ \A t \in S : ino[t].st = "linked" /\ InodeOK(ino[t])
    BY RenamingIs
  <1>2. /\ Consistent(v, ino, pnd, T) /\ Named(ino, i) /\ d \in Inodes /\ IsDirectory(ino[d])
        /\ (f.type = "dir" => d = Root)
        /\ name \in Names /\ i \notin S /\ (S = {} => pnd[d] = name)
        /\ AtHome(v, ino, i) /\ p = ChainOf(ino[d])
        /\ r = RenameFile(v, ino, i, name)
    BY DEF Renaming
  <1>3. PICK x \in E :
          /\ Home(E, ino, i, x) /\ Has(ino, i, x) /\ x.head \in Heads
          /\ x.dir = ino[d].start /\ x.head.name = f.name
          /\ LeadsTo(v, p, at, T[x.dir], x.at, NameLen[x.head.name]) /\ at \in Nat
          /\ Slot(v, p, at) = x.head /\ EntryLength(v, p, at) = NameLen[x.head.name]
    BY <1>2, HomeLead
  <1> DEFINE n == NameLen[x.head.name]
             z == x.head
             h == [z EXCEPT !.name = name]
             y == EntryAt(x.dir, x.at, h)
             u == DeleteEntry(PutEntry(v, p, at, h), p, at, k, n)
  <1>4. h \in Heads /\ h.name = name /\ h.type = x.head.type  BY <1>2, <1>3, NamedAnew
  <1>5. r.ok /\ r.v = u /\ r.ino = ino
    <2>1. Renamed(v, f, name) = h  BY <1>3 DEF Renamed
    <2>2. EntryLength(v, f.dir, f.entry) = n  BY <1>3
    <2> HIDE DEF h, n
    <2> QED BY <1>2, <2>1, <2>2 DEF RenameFile
  <1>6. /\ w = Gone(u, ino, S) /\ DOMAIN jno = Inodes
        /\ jno[i] = Anew(f, d, name)
        /\ \A t \in S : jno[t] = [ino[t] EXCEPT !.st = "orphan"] \/ jno[t] = Free
        /\ \A j \in Inodes \ S : j # i => jno[j] = ino[j]
        /\ \A t \in S : ~Owns(ino[t])
    <2> HIDE DEF u
    <2>1. r.ok => /\ w = Gone(r.v, r.ino, S) /\ DOMAIN jno = Inodes
                  /\ jno[i] = Anew(r.ino[i], d, name)
                  /\ \A t \in S : jno[t] = [r.ino[t] EXCEPT !.st = "orphan"] \/ jno[t] = Free
                  /\ \A j \in Inodes \ S : j # i => jno[j] = r.ino[j]
                  /\ \A t \in S : ~Owns(ino[t])
      BY DEF Renaming
    <2> HIDE DEF f
    <2> QED BY <1>5, <2>1 DEF f
  <1>7. y.dir = x.dir /\ y.at = x.at /\ y.head = h  BY DEF EntryAt
  <1>8. Carved(v, u, T, (E \ {x}) \cup {y})
    <2>1. h \in Heads /\ k = NameLen[h.name] /\ k <= n /\ at \in Int
      <3> HIDE DEF h
      <3>1. n \in Nat /\ k \in Nat  BY <1>2, <1>3, VolumeAssumption DEF Heads
      <3> QED BY <1>3, <1>4, <3>1
    <2> HIDE DEF h, k, p, at
    <2> QED BY <1>1, <1>3, <2>1, CarvedInPlace, Zenon
  <1>9. y \notin E \ {x}
    <2>1. y \in E => y.head = View(v, T[y.dir])[y.at]  BY EntryFacts
    <2>2. x.head = View(v, T[x.dir])[x.at] /\ x = [dir |-> x.dir, at |-> x.at, head |-> x.head]
      BY EntryFacts
    <2>3. y = [dir |-> x.dir, at |-> x.at, head |-> y.head]  BY <1>7 DEF EntryAt
    <2> HIDE DEF y
    <2> QED BY <1>7, <2>1, <2>2, <2>3
  <1> HIDE DEF u, y
  <1>10. Carved(v, Gone(u, ino, S), T, ((E \ Z) \ {x}) \cup {y})
    BY <1>1, <1>2, <1>3, <1>5, <1>8, <1>9, CarvedGone
  <1>11. /\ Like(f, jno[i]) /\ jno[i].parent = d /\ jno[i].name = name /\ jno[i].dirty = TRUE
         /\ jno[i].dir = p /\ jno[i].entry = at
    <2>1. /\ InodeOK(f) /\ f # Free
          /\ jno[i] = Anew(f, d, name)
      BY <1>1, <1>6
    <2> DEFINE g == jno[i]
    <2>2. g = Anew(f, d, name)  BY <2>1
    <2> HIDE DEF f, g
    <2>3. IsAnew(f, d, name, f.dir, f.entry, g)  BY <2>1, <2>2, RenamedIs
    <2> QED BY <2>3 DEF IsAnew, f, g
  <1>12. \A t \in S : jno[t].st # "linked" /\ ~Owns(jno[t]) /\ InodeOK(jno[t])
    BY <1>1, <1>6, LeftIs, Zenon
  <1>13. p.dir = ino[d].start /\ p.flags = ino[d].flags  BY <1>2 DEF ChainOf, Chain
  <1>14. f.type = "dir" => x.at = at  BY <1>3 DEF Home
  <1> HIDE DEF h
  <1>15. y.head = [x.head EXCEPT !.name = name]  BY <1>7 DEF h
  <1>16. Renames(v, ino, pnd, T, i, d, name, S, x, y, w, jno)
    BY <1>1, <1>2, <1>3, <1>5, <1>6, <1>7, <1>9, <1>10, <1>11, <1>12, <1>13, <1>14, <1>15
    DEF Renames
  <1> QED BY <1>16, RenamesKeeps

\* rename_file and move_file, where room was looked for: e is what was found.
Relocates(v, ino, pnd, T, i, d, name, r, x, e, T2) ==
    LET f == ino[i]
        n == NameLen[x.head.name]
        h == [x.head EXCEPT !.name = name]
    IN /\ Made(v, ino, pnd, T, d, e.v, e.ino, T2) /\ RoomMade(e, d, NameLen[name], T2)
       /\ IF e.entry = -1 THEN ~r.ok /\ r.v = e.v /\ r.ino = e.ino
          ELSE /\ e.entry \in Nat /\ r.ok /\ DOMAIN r.ino = Inodes
               /\ \A j \in Inodes : j # i => r.ino[j] = e.ino[j]
               /\ \E p : (p = e.p \/ (p = f.dir /\ f.parent = d))
                         /\ Relocated(e.ino[i], p, e.entry, r.ino[i])
               /\ \E p : (p = f.dir \/ (p = e.p /\ f.parent = d))
                         /\ r.v = DeleteEntry(PutEntry(e.v, e.p, e.entry, h), p, f.entry, 0, n)

LEMMA RenamingRelocates ==
  ASSUME NEW v, NEW ino, NEW pnd, NEW T, NEW i, NEW d, NEW name, NEW S, NEW r, NEW w, NEW jno,
         Renaming(v, ino, pnd, T, i, d, name, S, r, w, jno),
         NEW x \in Entries(v, T), Slot(v, ino[i].dir, ino[i].entry) = x.head,
         x.head.name = ino[i].name,
         EntryLength(v, ino[i].dir, ino[i].entry) = NameLen[x.head.name],
         ino[i].parent = d => NameLen[x.head.name] < NameLen[name]
  PROVE  \E e, T2 : Relocates(v, ino, pnd, T, i, d, name, r, x, e, T2)
  <1> DEFINE f == ino[i]
             k == NameLen[name]
             n == NameLen[x.head.name]
             h == [x.head EXCEPT !.name = name]
             e == FindEmpty(v, ino, d, ChainOf(ino[d]), k)
  <1>1. /\ Good(v, ino) /\ DOMAIN ino = Inodes /\ InodeOK(f) /\ f # Free /\ i \in Inodes /\ i # d
    BY RenamingIs
  <1>2. /\ Consistent(v, ino, pnd, T) /\ d \in Inodes /\ IsDirectory(ino[d]) /\ name \in Names
        /\ f.dir = ChainOf(ino[f.parent])
        /\ r = IF f.parent = d THEN RenameFile(v, ino, i, name) ELSE MoveFile(v, ino, i, d, name)
        /\ (f.parent # d \/ NameLen[f.name] < k => Lies(v, ChainOf(ino[d])) = {})
    BY DEF Renaming
  <1>3. k \in 1 .. SlotsPerClu  BY <1>2, VolumeAssumption
  <1>4. Lies(v, ChainOf(ino[d])) = {}  BY <1>2
  <1>5. PICK T2 : Made(v, ino, pnd, T, d, e.v, e.ino, T2) /\ RoomMade(e, d, k, T2)
    <2> HIDE DEF k
    <2> QED BY <1>2, <1>3, <1>4, FindEmptyMade
  <1>6. e.entry \in Nat \cup {-1}  BY <1>5 DEF RoomMade
  <1>7. Renamed(v, f, name) = h  BY DEF Renamed
  <1>8. DOMAIN e.ino = Inodes /\ i \in DOMAIN e.ino
    BY <1>1, <1>5 DEF Made, Consistent, Catalogue, Good
  <1>9. CASE f.parent = d
    <2>1. r = RenameFile(v, ino, i, name) /\ f.dir = ChainOf(ino[d])  BY <1>2, <1>9
    <2>2. n < k /\ n \in Nat /\ EntryLength(v, f.dir, f.entry) = n
      <3>1. f.name \in Names
        <4>1. x.head \in Heads  BY <1>2, EntryFacts DEF Consistent
        <4>2. x.head.name \in Names  BY <4>1 DEF Heads
        <4> QED BY <4>2
      <3> QED BY <1>9, <3>1, VolumeAssumption
    <2>3. e = FindEmpty(v, ino, f.parent, f.dir, NameLen[name])  BY <1>9, <2>1
    <2> HIDE DEF h, e, n
    <2>4. r = IF e.entry < 0 THEN [ok |-> FALSE, v |-> e.v, ino |-> e.ino]
              ELSE [ok |-> TRUE, v |-> DeleteEntry(PutEntry(e.v, e.p, e.entry, h), e.p, f.entry, 0, n),
                    ino |-> [e.ino EXCEPT ![i].entry = e.entry]]
      <3> DEFINE oldlen == EntryLength(v, f.dir, f.entry)
      <3>1. oldlen = n /\ ~(oldlen >= NameLen[name])  BY <1>3, <2>2
      <3>2. r = IF e.entry < 0 THEN [ok |-> FALSE, v |-> e.v, ino |-> e.ino]
                ELSE [ok |-> TRUE,
                      v |-> DeleteEntry(PutEntry(e.v, e.p, e.entry, h), e.p, f.entry, 0, oldlen),
                      ino |-> [e.ino EXCEPT ![i].entry = e.entry]]
        BY <1>7, <2>1, <2>3, <3>1 DEF RenameFile
      <3> QED BY <3>1, <3>2
    <2>5. CASE e.entry = -1
      <3>1. ~r.ok /\ r.v = e.v /\ r.ino = e.ino  BY <2>4, <2>5
      <3> QED BY <1>5, <2>5, <3>1 DEF Relocates
    <2>6. CASE e.entry \in Nat
      <3>1. /\ r.ok /\ r.v = DeleteEntry(PutEntry(e.v, e.p, e.entry, h), e.p, f.entry, 0, n)
            /\ r.ino = [e.ino EXCEPT ![i].entry = e.entry]
        BY <2>4, <2>6
      <3>2. /\ DOMAIN r.ino = Inodes /\ \A j \in Inodes : j # i => r.ino[j] = e.ino[j]
            /\ r.ino[i] = [e.ino[i] EXCEPT !.entry = e.entry]
        BY <1>8, <3>1
      <3>3. e.ino[i].dir = f.dir
        BY <1>1, <1>5 DEF Made, InodeGrows
      <3>4. Relocated(e.ino[i], f.dir, e.entry, r.ino[i])  BY <3>2, <3>3 DEF Relocated
      <3>5. e.entry # -1  BY <2>6
      <3> QED BY <1>5, <1>9, <2>6, <3>1, <3>2, <3>4, <3>5 DEF Relocates, h, n
    <2> QED BY <1>6, <2>5, <2>6
  <1>10. CASE f.parent # d
    <2>1. r = MoveFile(v, ino, i, d, name)  BY <1>2, <1>10
    <2>2. EntryLength(v, f.dir, f.entry) = n  OBVIOUS
    <2>3. e = FindEmpty(v, ino, d, ChainOf(ino[d]), NameLen[name])  OBVIOUS
    <2> HIDE DEF h, e, n
    <2>4. r = IF e.entry < 0 THEN [ok |-> FALSE, v |-> e.v, ino |-> e.ino]
              ELSE [ok |-> TRUE, v |-> DeleteEntry(PutEntry(e.v, e.p, e.entry, h), f.dir, f.entry, 0, n),
                    ino |-> [e.ino EXCEPT ![i].dir = e.p, ![i].entry = e.entry]]
      <3> DEFINE oldlen == EntryLength(v, f.dir, f.entry)
      <3>1. oldlen = n  BY <2>2
      <3>2. r = IF e.entry < 0 THEN [ok |-> FALSE, v |-> e.v, ino |-> e.ino]
                ELSE [ok |-> TRUE,
                      v |-> DeleteEntry(PutEntry(e.v, e.p, e.entry, h), f.dir, f.entry, 0, oldlen),
                      ino |-> [e.ino EXCEPT ![i].dir = e.p, ![i].entry = e.entry]]
        BY <1>7, <2>1, <2>3 DEF MoveFile
      <3> QED BY <3>1, <3>2
    <2>5. CASE e.entry = -1
      <3>1. ~r.ok /\ r.v = e.v /\ r.ino = e.ino  BY <2>4, <2>5
      <3> QED BY <1>5, <2>5, <3>1 DEF Relocates
    <2>6. CASE e.entry \in Nat
      <3>1. /\ r.ok /\ r.v = DeleteEntry(PutEntry(e.v, e.p, e.entry, h), f.dir, f.entry, 0, n)
            /\ r.ino = [e.ino EXCEPT ![i].dir = e.p, ![i].entry = e.entry]
        BY <2>4, <2>6
      <3>2. r.ino = [e.ino EXCEPT ![i] = [e.ino[i] EXCEPT !.dir = e.p, !.entry = e.entry]]
        BY <1>8, <3>1, Zenon
      <3>3. /\ DOMAIN r.ino = Inodes /\ \A j \in Inodes : j # i => r.ino[j] = e.ino[j]
            /\ r.ino[i] = [e.ino[i] EXCEPT !.dir = e.p, !.entry = e.entry]
        BY <1>8, <3>2
      <3>4. Relocated(e.ino[i], e.p, e.entry, r.ino[i])  BY <3>3 DEF Relocated
      <3>5. e.entry # -1  BY <2>6
      <3>6. /\ \E p : (p = e.p \/ (p = f.dir /\ f.parent = d))
                      /\ Relocated(e.ino[i], p, e.entry, r.ino[i])
            /\ \E p : (p = f.dir \/ (p = e.p /\ f.parent = d))
                      /\ r.v = DeleteEntry(PutEntry(e.v, e.p, e.entry, h), p, f.entry, 0, n)
        <4>1. \E p : (p = e.p \/ (p = f.dir /\ f.parent = d)) /\ Relocated(e.ino[i], p, e.entry, r.ino[i])
          BY <3>4
        <4> DEFINE Wiping(p) == DeleteEntry(PutEntry(e.v, e.p, e.entry, h), p, f.entry, 0, n)
                   p1 == f.dir
        <4>2. r.v = Wiping(p1)  BY <3>1
        <4>3. \E p : (p = p1 \/ (p = e.p /\ f.parent = d)) /\ r.v = Wiping(p)
          <5> HIDE DEF Told, p1
          <5> QED BY <4>2
        <4> QED BY <4>1, <4>3
      <3>7. /\ Made(v, ino, pnd, T, d, e.v, e.ino, T2) /\ RoomMade(e, d, NameLen[name], T2)
        BY <1>5
      <3> HIDE DEF f
      <3>8. Relocates(v, ino, pnd, T, i, d, name, r, x, e, T2)
        BY <2>6, <3>1, <3>3, <3>5, <3>6, <3>7 DEF Relocates, h, n, f
      <3> QED BY <3>8
    <2> QED BY <1>6, <2>5, <2>6
  <1> QED BY <1>9, <1>10

\* What is known once there is room in d: c is its first cluster, x the entry of i.
Roomy(v, ino, pnd, T, i, d, name, S, x, e, T2, c) ==
    /\ RoomFacts(ino, pnd, d, e, T2, NameLen[name], c)
    /\ \A j \in Inodes : j # d => e.ino[j] = ino[j]
    /\ e.ino[d].flags \in {1, 3} /\ (ino[d].flags = 1 => e.ino[d].flags = 1)
    /\ Named(e.ino, i) /\ Has(e.ino, i, x) /\ x \in Entries(e.v, T2)
    /\ \A p : p = ino[i].dir \/ (p = e.p /\ ino[i].parent = d) =>
          LeadsTo(e.v, p, ino[i].entry, T2[x.dir], x.at, NameLen[x.head.name])
    /\ Targets(e.ino, d, name, S) /\ Lead(e.v, e.ino, T2, S)

LEMMA RenamingRoomy ==
  ASSUME NEW v, NEW ino, NEW pnd, NEW T, NEW i, NEW d, NEW name, NEW S, NEW r, NEW w, NEW jno,
         Renaming(v, ino, pnd, T, i, d, name, S, r, w, jno),
         NEW x \in Entries(v, T), Has(ino, i, x), x.dir = ino[ino[i].parent].start,
         LeadsTo(v, ino[i].dir, ino[i].entry, T[x.dir], x.at, NameLen[x.head.name]),
         NEW e, NEW T2, Relocates(v, ino, pnd, T, i, d, name, r, x, e, T2), e.entry # -1
  PROVE  Roomy(v, ino, pnd, T, i, d, name, S, x, e, T2, ino[d].start)
  <1> DEFINE E == Entries(v, T)
             E2 == Entries(e.v, T2)
             c == ino[d].start
             n == NameLen[x.head.name]
             f == ino[i]
  <1>1. /\ Good(v, ino) /\ i \in Inodes \ {Root} /\ i # d /\ Lead(v, ino, T, S) /\ S \subseteq Inodes
        /\ ino[d].flags \in {1, 3} /\ DOMAIN ino = Inodes
        /\ (r.ok => Targets(ino, d, name, S) /\ d \notin S)
    BY RenamingIs
  <1>2. /\ Consistent(v, ino, pnd, T) /\ Named(ino, i) /\ d \in Inodes /\ IsDirectory(ino[d])
        /\ \A t \in S \cup {i} : ino[t].dir = ChainOf(ino[ino[t].parent])
        /\ \A t \in S : Named(ino, t)
    BY DEF Renaming
  <1>3. /\ Made(v, ino, pnd, T, d, e.v, e.ino, T2) /\ RoomMade(e, d, NameLen[name], T2)
        /\ e.entry \in Nat /\ r.ok
    BY DEF Relocates
  <1>4. RoomFacts(ino, pnd, d, e, T2, NameLen[name], c)
    <2> DEFINE k == NameLen[name]
    <2> HIDE DEF k
    <2>1. RoomMade(e, d, k, T2)  BY <1>3 DEF k
    <2>2. RoomFacts(ino, pnd, d, e, T2, k, ino[d].start)  BY <1>2, <1>3, <2>1, RoomIn, Zenon
    <2> QED BY <2>2 DEF k
  <1>5. /\ \A j \in Inodes : j # d => e.ino[j] = ino[j]
        /\ (ino[d].flags = 1 => e.ino[d].flags = 1) /\ e.ino[d].start = c
        /\ GrownEntries(E, ino, d, E2)
    BY <1>3 DEF Made, InodeGrows
  <1>6. e.ino[d].flags \in {1, 3}
    <2>1. Good(e.v, e.ino) /\ IsDirectory(e.ino[d])  BY <1>4 DEF RoomFacts
    <2> QED BY <1>2, <2>1, FreeOwnsNone DEF Good, IsDirectory, InodeOK
  <1>7. \A j \in Inodes : e.ino[j].start = ino[j].start  BY <1>5
  <1>8. NamesTrue(E, ino, pnd, T)  BY <1>2 DEF Consistent, Catalogue
  <1>9. ASSUME NEW j, Named(ino, j), j # d
        PROVE  /\ Named(e.ino, j) /\ ino[j].parent \in Inodes
               /\ \A z : Has(e.ino, j, z) <=> Has(ino, j, z)
    <2>1. j \in Inodes /\ e.ino[j] = ino[j]  BY <1>5, <1>9 DEF Named
    <2>2. ino[j].parent \in Inodes  BY <1>2, <1>9, ParentIs
    <2>3. e.ino[ino[j].parent].start = ino[ino[j].parent].start  BY <1>7, <2>2
    <2> QED BY <1>9, <2>1, <2>2, <2>3 DEF Named, Has
  <1>10. ASSUME NEW j, Named(ino, j), j # d, NEW z \in E, Has(ino, j, z)
         PROVE  ~(d # Root /\ Has(ino, d, z))
    <2> SUFFICES ASSUME d # Root, Has(ino, d, z) PROVE FALSE  OBVIOUS
    <2>1. Named(ino, d)  BY <1>2 DEF Named, IsDirectory
    <2> QED BY <1>1, <1>8, <1>10, <2>1, OneHas
  <1>11. x \in E2 /\ Named(e.ino, i) /\ Has(e.ino, i, x)
    <2>1. ~(d # Root /\ Has(ino, d, x))  BY <1>1, <1>2, <1>10
    <2> QED BY <1>1, <1>2, <1>5, <1>9, <2>1 DEF GrownEntries
  <1>12. LeadsTo(e.v, f.dir, f.entry, T2[x.dir], x.at, n)
    <2> DEFINE b == x.dir
               at == x.at
               w1 == e.v
               jno1 == e.ino
    <2>1. /\ b = ino[ino[i].parent].start /\ LeadsTo(v, ino[i].dir, ino[i].entry, T[b], at, n)
          /\ Made(v, ino, pnd, T, d, w1, jno1, T2) /\ ino[i].dir = ChainOf(ino[ino[i].parent])
      BY <1>2, <1>3
    <2> HIDE DEF b, at, n, w1, jno1, f
    <2>2. LeadsTo(w1, ino[i].dir, ino[i].entry, T2[b], at, n)  BY <1>2, <2>1, LeadsGrow, SMTT(60)
    <2> QED BY <2>2 DEF b, at, w1, f
  <1>13. f.parent = d => LeadsTo(e.v, e.p, f.entry, T2[x.dir], x.at, n)
    <2> SUFFICES ASSUME f.parent = d PROVE LeadsTo(e.v, e.p, f.entry, T2[x.dir], x.at, n)  OBVIOUS
    <2> DEFINE b == x.dir
               at == x.at
               w1 == e.v
               jno1 == e.ino
               p == e.p
    <2>1. Through(w1, p, T2[b])  BY <1>4 DEF RoomFacts
    <2>2. /\ b = ino[ino[i].parent].start /\ LeadsTo(v, ino[i].dir, ino[i].entry, T[b], at, n)
          /\ Made(v, ino, pnd, T, d, w1, jno1, T2) /\ ino[i].dir = ChainOf(ino[ino[i].parent])
      BY <1>2, <1>3
    <2> HIDE DEF b, at, n, w1, jno1, f, p
    <2>3. /\ Consistent(v, ino, pnd, T) /\ d \in Inodes /\ IsDirectory(ino[d]) /\ Named(ino, i)
          /\ Made(v, ino, pnd, T, d, w1, jno1, T2) /\ ino[i].dir = ChainOf(ino[ino[i].parent])
          /\ b = ino[ino[i].parent].start /\ LeadsTo(v, ino[i].dir, ino[i].entry, T[b], at, n)
          /\ Through(w1, p, T2[b])
      BY ONLY <1>2, <2>1, <2>2
    <2>4. LeadsTo(w1, p, ino[i].entry, T2[b], at, n)  BY ONLY <2>3, LeadsAnew
    <2> QED BY <2>4 DEF b, at, w1, f, p
  <1>14. Targets(ino, d, name, S) /\ d \notin S  BY <1>1, <1>3
  <1>15. Targets(e.ino, d, name, S)
    <2> SUFFICES ASSUME NEW t \in S
                 PROVE  /\ Named(e.ino, t) /\ e.ino[t].parent = d /\ e.ino[t].name = name
                        /\ ~Owns(e.ino[t])
      BY DEF Targets
    <2>1. t # d /\ t \in Inodes /\ Named(ino, t)  BY <1>1, <1>2, <1>14
    <2> QED BY <1>5, <1>9, <1>14, <2>1 DEF Targets
  <1>16. Lead(e.v, e.ino, T2, S)
    <2> SUFFICES ASSUME NEW t \in S, NEW z \in E2, Has(e.ino, t, z)
                 PROVE  /\ e.ino[t].entry \in Int
                        /\ LeadsTo(e.v, e.ino[t].dir, e.ino[t].entry, T2[z.dir], z.at, NameLen[z.head.name])
      BY DEF Lead
    <2>1. t # d /\ t \in Inodes /\ Named(ino, t) /\ e.ino[t] = ino[t]  BY <1>1, <1>2, <1>5, <1>14
    <2>2. Has(ino, t, z)  BY <1>9, <2>1
    <2>3. PICK u \in E : /\ z.dir = u.dir /\ z.at = u.at /\ z.head.name = u.head.name
                         /\ z = u \/ (d # Root /\ Has(ino, d, u))
      BY <1>5 DEF GrownEntries
    <2>4. Has(ino, t, u)  BY <2>2, <2>3 DEF Has
    <2>5. z = u  BY <1>10, <2>1, <2>3, <2>4
    <2>6. /\ ino[t].entry \in Int
          /\ LeadsTo(v, ino[t].dir, ino[t].entry, T[z.dir], z.at, NameLen[z.head.name])
      BY <1>1, <2>2, <2>5 DEF Lead
    <2> DEFINE b == z.dir
               at == z.at
               w1 == e.v
               jno1 == e.ino
               m == NameLen[z.head.name]
    <2>7. /\ b = ino[ino[t].parent].start /\ LeadsTo(v, ino[t].dir, ino[t].entry, T[b], at, m)
          /\ Made(v, ino, pnd, T, d, w1, jno1, T2) /\ ino[t].dir = ChainOf(ino[ino[t].parent])
      BY <1>2, <1>3, <2>2, <2>6 DEF Has
    <2> HIDE DEF b, at, m, w1, jno1
    <2>8. LeadsTo(w1, ino[t].dir, ino[t].entry, T2[b], at, m)  BY <1>2, <2>1, <2>7, LeadsGrow
    <2> QED BY <2>1, <2>6, <2>8 DEF b, at, m, w1
  <1> HIDE DEF n, f
  <1>17. \A p : p = f.dir \/ (p = e.p /\ f.parent = d) =>
            LeadsTo(e.v, p, f.entry, T2[x.dir], x.at, n)
    BY <1>12, <1>13
  <1> QED BY <1>4, <1>5, <1>6, <1>11, <1>15, <1>16, <1>17 DEF Roomy, n, f

\* An inode is renamed where there is room for the new entry.
LEMMA GoneSame ==
  ASSUME NEW u, NEW ino, NEW jno, NEW S, \A t \in S : jno[t] = ino[t]
  PROVE  Gone(u, jno, S) = Gone(u, ino, S)
  <1>1. S # {} => (CHOOSE t \in S : TRUE) \in S  OBVIOUS
  <1> QED BY <1>1 DEF Gone

\* The directory by which the inode knows its entry.
LEMMA KnownBy ==
  ASSUME NEW f, NEW g, f.start = g.start, f.flags \in {1, 3}, g.flags \in {1, 3},
         f.flags = 1 => g.flags = 1, NEW p, p = ChainOf(f) \/ p = ChainOf(g)
  PROVE  /\ p.dir = g.start /\ p.flags \in {1, 3} /\ (p.flags = 1 => g.flags = 1)
         /\ f.flags = 1 => p.flags = 1
  BY DEF ChainOf, Chain

LEMMA RenamingMoved ==
  ASSUME NEW v, NEW ino, NEW pnd, NEW T, NEW i, NEW d, NEW name, NEW S, NEW r, NEW w, NEW jno,
         Renaming(v, ino, pnd, T, i, d, name, S, r, w, jno),
         NEW x \in Entries(v, T), Has(ino, i, x), x.dir = ino[ino[i].parent].start,
         LeadsTo(v, ino[i].dir, ino[i].entry, T[x.dir], x.at, NameLen[x.head.name]),
         x.head \in Heads, ino[i].entry \in Nat,
         NEW e, NEW T2, Relocates(v, ino, pnd, T, i, d, name, r, x, e, T2), e.entry # -1
  PROVE  Consistent(w, jno, [pnd EXCEPT ![d] = None], T2)
  <1> DEFINE f == ino[i]
             c == ino[d].start
             n == NameLen[x.head.name]
             z == x.head
             h == [z EXCEPT !.name = name]
             at == f.entry
             E2 == Entries(e.v, T2)
             y == EntryAt(c, e.entry, h)
  <1>1. /\ InodeOK(f) /\ f # Free /\ i \in Inodes /\ i # d /\ ino[d].flags \in {1, 3}
        /\ (f.type = "dir" => ino[d].flags = 1)
        /\ \A t \in S : ino[t].st = "linked" /\ InodeOK(ino[t])
        /\ S \subseteq Inodes /\ (r.ok => d \notin S)
    BY RenamingIs
  <1>2. /\ Consistent(v, ino, pnd, T) /\ Named(ino, i) /\ d \in Inodes
        /\ (f.type = "dir" => d = Root)
        /\ name \in Names /\ i \notin S /\ (S = {} => pnd[d] = name)
        /\ f.dir = ChainOf(ino[f.parent])
    BY DEF Renaming
  <1>3. /\ RoomFacts(ino, pnd, d, e, T2, NameLen[name], c)
        /\ \A j \in Inodes : j # d => e.ino[j] = ino[j]
        /\ e.ino[d].flags \in {1, 3} /\ (ino[d].flags = 1 => e.ino[d].flags = 1)
        /\ Named(e.ino, i) /\ Has(e.ino, i, x) /\ x \in E2
        /\ \A p : p = f.dir \/ (p = e.p /\ f.parent = d) => LeadsTo(e.v, p, at, T2[x.dir], x.at, n)
        /\ Targets(e.ino, d, name, S) /\ Lead(e.v, e.ino, T2, S)
    BY RenamingRoomy, Zenon DEF Roomy
  <1>4. /\ e.entry \in Nat /\ r.ok /\ DOMAIN r.ino = Inodes
        /\ \A j \in Inodes : j # i => r.ino[j] = e.ino[j]
        /\ \E p : (p = e.p \/ (p = f.dir /\ f.parent = d)) /\ Relocated(e.ino[i], p, e.entry, r.ino[i])
        /\ \E p : (p = f.dir \/ (p = e.p /\ f.parent = d))
                  /\ r.v = DeleteEntry(PutEntry(e.v, e.p, e.entry, h), p, at, 0, n)
    BY DEF Relocates
  <1>5. /\ Consistent(e.v, e.ino, pnd, T2) /\ IsDirectory(e.ino[d]) /\ e.ino[d].start = c
        /\ VolOK(e.v) /\ TableOK(e.v, T2) /\ Ordered(e.v, T2) /\ c \in DOMAIN T2
        /\ e.p = ChainOf(e.ino[d]) /\ Through(e.v, e.p, T2[c])
        /\ Spot(View(e.v, T2[c]), e.entry, NameLen[name])
        /\ \A m \in 0 .. NameLen[name] - 1 : IsEmpty(View(e.v, T2[c])[e.entry + m])
    BY <1>3 DEF RoomFacts
  <1>6. h \in Heads /\ h.name = name /\ h.type = z.type  BY <1>2, NamedAnew
  <1>7. e.ino[i] = f  BY <1>1, <1>3
  <1>8. PlacedAt(e.v, T2, c, e.p, e.entry, h)
    <2> DEFINE v1 == e.v
               p1 == e.p
               a == e.entry
    <2>1. /\ VolOK(v1) /\ TableOK(v1, T2) /\ Ordered(v1, T2) /\ c \in DOMAIN T2
          /\ Through(v1, p1, T2[c]) /\ h \in Heads
          /\ Spot(View(v1, T2[c]), a, NameLen[h.name])
          /\ \A m \in 0 .. NameLen[h.name] - 1 : IsEmpty(View(v1, T2[c])[a + m])
      BY <1>5, <1>6
    <2> HIDE DEF v1, p1, a, h, c
    <2>2. PlacedAt(v1, T2, c, p1, a, h)  BY <2>1, EnteredSlots
    <2> QED BY <2>2 DEF v1, p1, a
  <1>9. Carved(e.v, r.v, T2, (E2 \ {x}) \cup {y}) /\ y \notin E2
    <2>1. PICK p : /\ p = f.dir \/ (p = e.p /\ f.parent = d)
                   /\ r.v = DeleteEntry(PutEntry(e.v, e.p, e.entry, h), p, at, 0, n)
      BY <1>4
    <2>2. LeadsTo(e.v, p, at, T2[x.dir], x.at, n)  BY <1>3, <2>1
    <2> DEFINE v1 == e.v
               p1 == e.p
               a == e.entry
               u == DeleteEntry(PutEntry(v1, p1, a, h), p, at, 0, n)
    <2>3. /\ VolOK(v1) /\ TableOK(v1, T2) /\ Ordered(v1, T2) /\ h \in Heads
          /\ PlacedAt(v1, T2, c, p1, a, h) /\ x \in Entries(v1, T2) /\ at \in Int
          /\ LeadsTo(v1, p, at, T2[x.dir], x.at, n) /\ n = NameLen[x.head.name]
      BY <1>3, <1>5, <1>6, <1>8, <2>2, SMTT(60)
    <2>4. r.v = u  BY <2>1
    <2> HIDE DEF v1, p1, a, h, c, at, n, u, f
    <2>5. /\ Carved(v1, u, T2, (Entries(v1, T2) \ {x}) \cup {EntryAt(c, a, h)})
          /\ EntryAt(c, a, h) \notin Entries(v1, T2)
      BY <2>3, CarvedMove, Zenon DEF u
    <2> QED BY <2>4, <2>5 DEF v1, a
  <1>10. y.dir = c /\ y.at = e.entry /\ y.head = h  BY DEF EntryAt
  <1> HIDE DEF y
  <1>11. Carved(e.v, Gone(r.v, e.ino, S), T2, ((E2 \ EntriesOf(E2, e.ino, S)) \ {x}) \cup {y})
    <2> DEFINE v1 == e.v
               j1 == e.ino
               u == r.v
    <2>1. /\ Consistent(v1, j1, pnd, T2) /\ Targets(j1, d, name, S) /\ Lead(v1, j1, T2, S)
          /\ i \notin S /\ Named(j1, i) /\ x \in Entries(v1, T2) /\ Has(j1, i, x)
          /\ y \notin Entries(v1, T2) \ {x} /\ Carved(v1, u, T2, (Entries(v1, T2) \ {x}) \cup {y})
      BY <1>2, <1>3, <1>5, <1>9
    <2> HIDE DEF v1, j1, u
    <2>2. Carved(v1, Gone(u, j1, S), T2,
                 ((Entries(v1, T2) \ EntriesOf(Entries(v1, T2), j1, S)) \ {x}) \cup {y})
      BY <2>1, CarvedGone
    <2> QED BY <2>2 DEF v1, j1, u
  <1>12. /\ w = Gone(r.v, r.ino, S) /\ DOMAIN jno = Inodes
         /\ jno[i] = Anew(r.ino[i], d, name)
         /\ \A t \in S : jno[t] = [r.ino[t] EXCEPT !.st = "orphan"] \/ jno[t] = Free
         /\ \A j \in Inodes \ S : j # i => jno[j] = r.ino[j]
         /\ \A t \in S : ~Owns(ino[t])
    <2> HIDE DEF f, h
    <2>1. r.ok => /\ w = Gone(r.v, r.ino, S) /\ DOMAIN jno = Inodes
                  /\ jno[i] = Anew(r.ino[i], d, name)
                  /\ \A t \in S : jno[t] = [r.ino[t] EXCEPT !.st = "orphan"] \/ jno[t] = Free
                  /\ \A j \in Inodes \ S : j # i => jno[j] = r.ino[j]
                  /\ \A t \in S : ~Owns(ino[t])
      BY DEF Renaming
    <2> QED BY <1>4, <2>1
  <1>13. /\ \A t \in S : r.ino[t] = e.ino[t] /\ r.ino[t] = ino[t]
         /\ \A j \in Inodes \ S : j # i => jno[j] = e.ino[j]
    BY <1>1, <1>2, <1>3, <1>4, <1>12
  <1>14. w = Gone(r.v, e.ino, S)
    <2> DEFINE u == r.v
               j1 == e.ino
               j2 == r.ino
    <2>1. (\A t \in S : j2[t] = j1[t]) /\ w = Gone(u, j2, S)  BY <1>12, <1>13
    <2> HIDE DEF u, j1, j2
    <2>2. w = Gone(u, j1, S)  BY <2>1, GoneSame
    <2> QED BY <2>2 DEF u, j1
  <1>15. PICK p : /\ p = e.p \/ (p = f.dir /\ f.parent = d)
                  /\ Relocated(e.ino[i], p, e.entry, r.ino[i])
    BY <1>4
  <1>16. /\ Like(f, jno[i]) /\ jno[i].parent = d /\ jno[i].name = name /\ jno[i].dirty = TRUE
         /\ jno[i].dir = p /\ jno[i].entry = e.entry
    <2> DEFINE g == r.ino[i]
               k == jno[i]
               a == e.entry
    <2>1. InodeOK(f) /\ f # Free /\ Relocated(f, p, a, g) /\ k = Anew(g, d, name)
      BY <1>1, <1>7, <1>12, <1>15
    <2> HIDE DEF f, g, k, a
    <2>2. IsAnew(f, d, name, p, a, k)  BY <2>1, MovedIs
    <2> QED BY <2>2 DEF IsAnew, f, k, a
  <1>17. \A t \in S : jno[t].st # "linked" /\ ~Owns(jno[t]) /\ InodeOK(jno[t])
    <2> TAKE t \in S
    <2> DEFINE a == ino[t]
               b == jno[t]
    <2>1. /\ InodeOK(a) /\ a.st = "linked" /\ ~Owns(a)
          /\ (b = [a EXCEPT !.st = "orphan"] \/ b = Free)
      BY <1>1, <1>12, <1>13
    <2> HIDE DEF a, b
    <2>2. b.st # "linked" /\ ~Owns(b) /\ InodeOK(b)  BY <2>1, LeftIs
    <2> QED BY <2>2 DEF b
  <1>18. /\ p.dir = c /\ p.flags \in {1, 3} /\ (p.flags = 1 => e.ino[d].flags = 1)
         /\ ino[d].flags = 1 => p.flags = 1
    <2> DEFINE a == ino[d]
               b == e.ino[d]
    <2>1. /\ a.start = b.start /\ a.flags \in {1, 3} /\ b.flags \in {1, 3}
          /\ (a.flags = 1 => b.flags = 1) /\ (p = ChainOf(a) \/ p = ChainOf(b)) /\ b.start = c
      BY <1>1, <1>2, <1>3, <1>5, <1>15
    <2> HIDE DEF a, b, c
    <2>2. /\ p.dir = b.start /\ p.flags \in {1, 3} /\ (p.flags = 1 => b.flags = 1)
          /\ (a.flags = 1 => p.flags = 1)
      BY <2>1, KnownBy
    <2> QED BY <2>1, <2>2 DEF a, b
  <1> HIDE DEF h, c
  <1>19. y.head = [x.head EXCEPT !.name = name]  BY <1>10 DEF h
  <1>20. Renames(e.v, e.ino, pnd, T2, i, d, name, S, x, y, w, jno)
    <2>1. e.ino[i].type = f.type /\ Like(e.ino[i], jno[i])  BY <1>7, <1>16
    <2>2. jno[i].entry = y.at /\ jno[i].entry \in Nat  BY <1>4, <1>10, <1>16
    <2>3. Carved(e.v, w, T2, ((E2 \ EntriesOf(E2, e.ino, S)) \ {x}) \cup {y})
      BY <1>11, <1>14
    <2>4. jno[i].dir = p /\ (f.type = "dir" => p.flags = 1)  BY <1>1, <1>16, <1>18
    <2> HIDE DEF f
    <2> QED BY <1>2, <1>3, <1>5, <1>9, <1>10, <1>12, <1>13, <1>16, <1>17, <1>18, <1>19,
               <2>1, <2>2, <2>3, <2>4 DEF Renames, f
  <1> DEFINE v1 == e.v
             j1 == e.ino
  <1>21. Renames(v1, j1, pnd, T2, i, d, name, S, x, y, w, jno)  BY <1>20
  <1> HIDE DEF v1, j1, y
  <1> QED BY <1>21, RenamesKeeps

\* rename_file and move_file
LEMMA RenamingConsistent ==
  ASSUME NEW v, NEW ino, NEW pnd, NEW T, NEW i, NEW d, NEW name, NEW S, NEW r, NEW w, NEW jno,
         Renaming(v, ino, pnd, T, i, d, name, S, r, w, jno)
  PROVE  \E T2 : Consistent(w, jno, [pnd EXCEPT ![d] = None], T2)
  <1> DEFINE f == ino[i]
             E == Entries(v, T)
             pn2 == [pnd EXCEPT ![d] = None]
  <1>1. Consistent(v, ino, pnd, T) /\ Named(ino, i) /\ AtHome(v, ino, i) /\ name \in Names
    BY DEF Renaming
  <1>2. PICK x \in E :
          /\ Has(ino, i, x) /\ x.head \in Heads
          /\ x.dir = ino[f.parent].start /\ x.head.name = f.name
          /\ LeadsTo(v, f.dir, f.entry, T[x.dir], x.at, NameLen[x.head.name]) /\ f.entry \in Nat
          /\ Slot(v, f.dir, f.entry) = x.head
          /\ EntryLength(v, f.dir, f.entry) = NameLen[x.head.name]
    BY <1>1, HomeLead
  <1>3. CASE f.parent = d /\ EntryLength(v, f.dir, f.entry) >= NameLen[name]
    BY <1>3, RenamingInPlace
  <1>4. CASE ~(f.parent = d /\ EntryLength(v, f.dir, f.entry) >= NameLen[name])
    <2>1. NameLen[x.head.name] \in Nat /\ NameLen[name] \in Nat
      BY <1>1, <1>2, VolumeAssumption DEF Heads
    <2>2. f.parent = d => NameLen[x.head.name] < NameLen[name]
      <3> DEFINE a == NameLen[x.head.name]
                 b == NameLen[name]
                 p == f.parent
      <3>1. a \in Nat /\ b \in Nat /\ ~(p = d /\ a >= b)  BY <1>2, <1>4, <2>1
      <3> HIDE DEF a, b, p
      <3>2. p = d => a < b  BY <3>1
      <3> QED BY <3>2 DEF a, b, p
    <2>3. PICK e, T2 : Relocates(v, ino, pnd, T, i, d, name, r, x, e, T2)
      BY <1>2, <2>2, RenamingRelocates
    <2>4. CASE e.entry # -1
      <3>1. Consistent(w, jno, pn2, T2)  BY <1>2, <2>3, <2>4, RenamingMoved, Zenon
      <3> QED BY <3>1
    <2>5. CASE e.entry = -1
      <3>1. ~r.ok /\ r.v = e.v /\ r.ino = e.ino /\ Made(v, ino, pnd, T, d, e.v, e.ino, T2)
        BY <2>3, <2>5 DEF Relocates
      <3>2. w = e.v /\ jno = e.ino  BY <3>1 DEF Renaming
      <3>3. Consistent(w, jno, pnd, T2)  BY <3>1, <3>2 DEF Made
      <3>4. Consistent(w, jno, pn2, T2)  BY <3>3, PendingDropped
      <3> QED BY <3>4
    <2> QED BY <2>4, <2>5, Zenon
  <1> QED BY <1>3, <1>4, Zenon

\* What a rename does, with the inode and its targets knowing their directories.
Fresh(ino, S) == [j \in Inodes |-> IF j \in S THEN Refreshed(ino[j], ino) ELSE ino[j]]
After(ino, i, d, name, S, held) ==
    [j \in Inodes |-> IF j = i THEN [ino[j] EXCEPT !.parent = d, !.name = name, !.dirty = TRUE]
                      ELSE IF j \in S THEN IF held THEN [ino[j] EXCEPT !.st = "orphan"] ELSE Free
                      ELSE ino[j]]
RenameDoes(v, ino, i, d, name, S, held, r, w, jno) ==
    /\ r = IF ino[i].parent = d THEN RenameFile(v, Fresh(ino, S \cup {i}), i, name)
           ELSE MoveFile(v, Fresh(ino, S \cup {i}), i, d, name)
    /\ IF r.ok
       THEN /\ w = Gone(r.v, r.ino, S) /\ jno = After(r.ino, i, d, name, S, held)
            /\ \A t \in S : ino[t].start = EOC
       ELSE w = r.v /\ jno = r.ino

LEMMA RenameIs ==
  ASSUME faults' = {}, NEW i \in Inodes, NEW d \in Inodes, NEW name, NEW held \in BOOLEAN,
         Rename(i, d, name, held), NEW S, S = Positive(d, name)
  PROVE  /\ \E r : RenameDoes(vol, inode, i, d, name, S, held, r, vol', inode')
         /\ \A t \in S \cup {i} : AtHome(vol, Fresh(inode, S \cup {i}), t)
         /\ inode[i].parent # d \/ NameLen[inode[i].name] < NameLen[name]
               => Lies(vol, ChainOf(inode[d])) = {}
         /\ inode[i].st = "linked" /\ i # Root /\ inode[d].st = "linked" /\ inode[d].type = "dir"
         /\ i \notin S /\ (S = {} => pending[d] = name) /\ (inode[i].type = "dir" => d = Root)
         /\ pending' = [pending EXCEPT ![d] = None]
  <1> DEFINE F == Fresh(inode, S \cup {i})
             GoneFrom(v, f) == DeleteEntry(v, f.dir, f.entry, 0, EntryLength(v, f.dir, f.entry))
  <1>1. F = [j \in Inodes |-> IF j \in S \cup {i} THEN Refreshed(inode[j], inode) ELSE inode[j]]
    BY DEF Fresh
  <1>2. PICK r :
          /\ r = IF inode[i].parent = d THEN RenameFile(vol, F, i, name)
                 ELSE MoveFile(vol, F, i, d, name)
          /\ IF ~r.ok
             THEN vol' = r.v /\ inode' = r.ino
             ELSE /\ vol' = IF S = {} THEN r.v
                            ELSE GoneFrom(r.v, r.ino[CHOOSE t \in S : TRUE])
                  /\ inode' = After(r.ino, i, d, name, S, held)
          /\ Strays(F, S \cup {i}) \subseteq faults'
          /\ r.ok /\ (\E t \in S : inode[t].start # EOC) => "leak" \in faults'
          /\ inode[i].parent # d \/ NameLen[inode[i].name] < NameLen[name]
                => Lies(vol, ChainOf(inode[d])) \subseteq faults'
    <2> DEFINE X == Positive(d, name)
               fresh == [j \in Inodes |-> IF j \in X \cup {i} THEN Refreshed(inode[j], inode)
                                          ELSE inode[j]]
               Left(ino) == [j \in Inodes |->
                        IF j = i THEN [ino[j] EXCEPT !.parent = d, !.name = name, !.dirty = TRUE]
                        ELSE IF j \in X THEN IF held THEN [ino[j] EXCEPT !.st = "orphan"] ELSE Free
                        ELSE ino[j]]
    <2>1. PICK r \in {IF inode[i].parent = d THEN RenameFile(vol, fresh, i, name)
                      ELSE MoveFile(vol, fresh, i, d, name)} :
          /\ IF ~r.ok
             THEN vol' = r.v /\ inode' = r.ino
             ELSE /\ vol' = IF X = {} THEN r.v
                            ELSE GoneFrom(r.v, r.ino[CHOOSE t \in X : TRUE])
                  /\ inode' = Left(r.ino)
          /\ faults' = faults \cup Strays(fresh, X \cup {i}) \cup
                 (IF r.ok /\ \E t \in X : inode[t].start # EOC THEN {"leak"} ELSE {}) \cup
                 (IF inode[i].parent # d \/ NameLen[inode[i].name] < NameLen[name]
                  THEN Lies(vol, ChainOf(inode[d])) ELSE {})
      BY Zenon DEF Rename
    <2>2. F = fresh  BY <1>1
    <2>4. X = S  OBVIOUS
    <2>3. \A ino : Left(ino) = After(ino, i, d, name, X, held)  BY DEF After
    <2> HIDE DEF X, fresh, Left
    <2> HIDE DEF F, GoneFrom
    <2> QED BY <2>1, <2>2, <2>3, <2>4, Zenon
  <1>3. /\ inode[i].st = "linked" /\ i # Root /\ inode[d].st = "linked" /\ inode[d].type = "dir"
        /\ i \notin S /\ (S = {} => pending[d] = name) /\ (inode[i].type = "dir" => d = Root)
        /\ pending' = [pending EXCEPT ![d] = None]
    BY Zenon DEF Rename, Linked, OpenDir, IsDir
  <1> HIDE DEF F
  <1>4. \A t \in S \cup {i} : AtHome(vol, F, t)  BY <1>2, Zenon DEF Strays
  <1>5. r.ok => \A t \in S : inode[t].start = EOC  BY <1>2
  <1>6. r.ok => vol' = Gone(r.v, r.ino, S)  BY <1>2 DEF Gone
  <1>7. inode[i].parent # d \/ NameLen[inode[i].name] < NameLen[name]
           => Lies(vol, ChainOf(inode[d])) = {}
    BY <1>2
  <1>8. RenameDoes(vol, inode, i, d, name, S, held, r, vol', inode')
    BY <1>2, <1>5, <1>6 DEF RenameDoes, F
  <1> QED BY <1>3, <1>4, <1>7, <1>8 DEF F

LEMMA FreshIs ==
  ASSUME NEW v, NEW ino, NEW pnd, NEW T, Consistent(v, ino, pnd, T), NEW R,
         \A t \in R : Named(ino, t), NEW F, F = Fresh(ino, R)
  PROVE  /\ Consistent(v, F, pnd, T)
         /\ \A j \in Inodes : /\ F[j].st = ino[j].st
                              /\ IsDirectory(F[j]) <=> IsDirectory(ino[j])
         /\ \A t \in R : /\ Named(F, t) /\ F[t].name = ino[t].name
                        /\ F[t].parent = ino[t].parent /\ F[t].type = ino[t].type
                        /\ F[t].start = ino[t].start
                        /\ F[t].dir = ChainOf(F[F[t].parent])
         /\ \A j \in Inodes : IsDirectory(ino[j]) => ChainOf(F[j]) = ChainOf(ino[j])
  <1>1. \A j \in Inodes : InodeOK(ino[j])
    <2>1. Good(v, ino)  BY DEF Consistent, Catalogue
    <2> QED BY <2>1 DEF Good
  <1>2. Refreshes(ino, F, R)
    <2>1. F = [j \in Inodes |-> IF j \in R THEN Refreshed(ino[j], ino) ELSE ino[j]]  BY DEF Fresh
    <2>2. R \subseteq Inodes /\ \A t \in R : Named(ino, t)  BY DEF Named
    <2> QED BY <2>1, <2>2 DEF Refreshes
  <1>3. \A t \in R : Named(ino, t)  OBVIOUS
  <1>4. Consistent(v, F, pnd, T)  BY <1>2, RefreshedConsistent
  <1>5. /\ \A j \in R : F[j].dir = ChainOf(ino[ino[j].parent]) /\ LikeBefore(ino[j], F[j])
        /\ \A j \in Inodes : /\ F[j].st = ino[j].st
                             /\ IsDirectory(F[j]) <=> IsDirectory(ino[j])
                             /\ ino[j] # Free => ChainOf(F[j]) = ChainOf(ino[j])
    BY ONLY <1>1, <1>2, RefreshedLike
  <1>6. \A j \in Inodes : IsDirectory(ino[j]) => ChainOf(F[j]) = ChainOf(ino[j])
    BY <1>5, FreeOwnsNone DEF IsDirectory
  <1>7. ASSUME NEW t \in R
        PROVE  /\ Named(F, t) /\ F[t].name = ino[t].name
               /\ F[t].parent = ino[t].parent /\ F[t].type = ino[t].type
               /\ F[t].start = ino[t].start
               /\ F[t].dir = ChainOf(F[F[t].parent])
    <2>1. Named(ino, t) /\ t \in Inodes /\ Named(F, t)  BY <1>3, <1>5 DEF Named
    <2>2. LikeBefore(ino[t], F[t]) /\ F[t].dir = ChainOf(ino[ino[t].parent])  BY <1>5
    <2>3. /\ F[t].name = ino[t].name /\ F[t].parent = ino[t].parent /\ F[t].type = ino[t].type
          /\ F[t].start = ino[t].start
      BY <2>2 DEF LikeBefore, Like
    <2>4. ino[t].parent \in Inodes /\ IsDirectory(ino[ino[t].parent])  BY <2>1, ParentIs
    <2> QED BY <1>6, <2>1, <2>2, <2>3, <2>4
  <1> QED BY <1>4, <1>5, <1>6, <1>7

LEMMA RenameRenames ==
  ASSUME NEW v, NEW ino, NEW pnd, NEW T, Consistent(v, ino, pnd, T), NEW i, Named(ino, i),
         NEW d \in Inodes, IsDirectory(ino[d]), NEW name \in Names, NEW held \in BOOLEAN, NEW S,
         \A t \in S : Named(ino, t) /\ ino[t].parent = d /\ ino[t].name = name,
         i \notin S, S = {} => pnd[d] = name, ino[i].type = "dir" => d = Root,
         NEW F, F = Fresh(ino, S \cup {i}), \A t \in S \cup {i} : AtHome(v, F, t),
         ino[i].parent # d \/ NameLen[ino[i].name] < NameLen[name] => Lies(v, ChainOf(ino[d])) = {},
         NEW r, NEW w, NEW jno, RenameDoes(v, ino, i, d, name, S, held, r, w, jno)
  PROVE  Renaming(v, F, pnd, T, i, d, name, S, r, w, jno)
  <1>1. \A t \in S \cup {i} : Named(ino, t)  OBVIOUS
  <1>2. /\ Consistent(v, F, pnd, T)
        /\ \A j \in Inodes : IsDirectory(F[j]) <=> IsDirectory(ino[j])
        /\ \A t \in S \cup {i} : /\ Named(F, t) /\ F[t].name = ino[t].name
                                 /\ F[t].parent = ino[t].parent /\ F[t].type = ino[t].type
                                 /\ F[t].start = ino[t].start
                                 /\ F[t].dir = ChainOf(F[F[t].parent])
        /\ \A j \in Inodes : IsDirectory(ino[j]) => ChainOf(F[j]) = ChainOf(ino[j])
    <2> DEFINE R == S \cup {i}
    <2>1. /\ Consistent(v, ino, pnd, T) /\ F = Fresh(ino, R) /\ \A t \in R : Named(ino, t)
      BY <1>1
    <2>2. \A t \in S \cup {i} : t \in R  OBVIOUS
    <2> HIDE DEF R
    <2>3. /\ Consistent(v, F, pnd, T)
          /\ \A j \in Inodes : /\ F[j].st = ino[j].st
                               /\ IsDirectory(F[j]) <=> IsDirectory(ino[j])
          /\ \A t \in R : /\ Named(F, t) /\ F[t].name = ino[t].name
                          /\ F[t].parent = ino[t].parent /\ F[t].type = ino[t].type
                          /\ F[t].start = ino[t].start
                          /\ F[t].dir = ChainOf(F[F[t].parent])
          /\ \A j \in Inodes : IsDirectory(ino[j]) => ChainOf(F[j]) = ChainOf(ino[j])
      BY ONLY <2>1, FreshIs
    <2> QED BY <2>2, <2>3, Zenon
  <1>3. /\ Named(F, i) /\ F[i].name = ino[i].name /\ F[i].parent = ino[i].parent
        /\ F[i].type = ino[i].type /\ IsDirectory(F[d]) /\ ChainOf(F[d]) = ChainOf(ino[d])
        /\ i \in Inodes
    BY <1>2, Zenon DEF Named
  <1>4. r = IF F[i].parent = d THEN RenameFile(v, F, i, name) ELSE MoveFile(v, F, i, d, name)
    BY <1>3 DEF RenameDoes
  <1>5. CASE ~r.ok
    <2>1. w = r.v /\ jno = r.ino  BY <1>5 DEF RenameDoes
    <2> QED BY <1>2, <1>3, <1>4, <1>5, <2>1, Zenon DEF Renaming
  <1>6. CASE r.ok
    <2>1. w = Gone(r.v, r.ino, S) /\ jno = After(r.ino, i, d, name, S, held)
          /\ \A t \in S : ino[t].start = EOC
      BY <1>6 DEF RenameDoes
    <2>2. \A t \in S : ~Owns(F[t])  BY <1>2, <2>1, Zenon DEF Owns
    <2>3. S \subseteq Inodes  BY DEF Named
    <2> DEFINE k == r.ino
    <2>4. jno = After(k, i, d, name, S, held)  BY <2>1
    <2> HIDE DEF k
    <2>5. /\ DOMAIN jno = Inodes /\ jno[i] = Anew(k[i], d, name)
          /\ \A t \in S : jno[t] = [k[t] EXCEPT !.st = "orphan"] \/ jno[t] = Free
          /\ \A j \in Inodes \ S : j # i => jno[j] = k[j]
      BY <1>3, <2>3, <2>4, Zenon DEF After, Anew
    <2> HIDE DEF k
    <2>6. IF r.ok
          THEN /\ \A t \in S : ~Owns(F[t])
               /\ w = Gone(r.v, r.ino, S) /\ DOMAIN jno = Inodes
               /\ jno[i] = Anew(r.ino[i], d, name)
               /\ \A t \in S : jno[t] = [r.ino[t] EXCEPT !.st = "orphan"] \/ jno[t] = Free
               /\ \A j \in Inodes \ S : j # i => jno[j] = r.ino[j]
          ELSE w = r.v /\ jno = r.ino
      BY <1>6, <2>1, <2>2, <2>5, Zenon DEF k
    <2> QED BY <1>2, <1>3, <1>4, <2>6, ZenonT(60) DEF Renaming
  <1> QED BY <1>5, <1>6

\* exfat_rename
LEMMA RenameConsistent ==
  ASSUME NEW T, Consistent(vol, inode, pending, T), faults' = {}, NEW i \in Inodes, NEW d \in Inodes,
         NEW name \in Names, NEW held \in BOOLEAN, Rename(i, d, name, held)
  PROVE  \E T2 : Consistent(vol', inode', pending', T2)
  <1>0. PICK S : S = Positive(d, name)  OBVIOUS
  <1> DEFINE F == Fresh(inode, S \cup {i})
  <1>1. /\ \E r : RenameDoes(vol, inode, i, d, name, S, held, r, vol', inode')
        /\ \A t \in S \cup {i} : AtHome(vol, F, t)
        /\ inode[i].parent # d \/ NameLen[inode[i].name] < NameLen[name]
              => Lies(vol, ChainOf(inode[d])) = {}
        /\ inode[i].st = "linked" /\ i # Root /\ inode[d].st = "linked" /\ inode[d].type = "dir"
        /\ i \notin S /\ (S = {} => pending[d] = name) /\ (inode[i].type = "dir" => d = Root)
        /\ pending' = [pending EXCEPT ![d] = None]
    BY ONLY faults' = {}, i \in Inodes, d \in Inodes, held \in BOOLEAN, Rename(i, d, name, held), <1>0, RenameIs
  <1>2. /\ \A t \in S : Named(inode, t) /\ inode[t].parent = d /\ inode[t].name = name
        /\ Named(inode, i) /\ IsDirectory(inode[d])
    BY <1>0, <1>1 DEF Positive, Linked, Named, IsDirectory
  <1>3. PICK w, jno : w = vol' /\ jno = inode'  OBVIOUS
  <1>4. PICK r : RenameDoes(vol, inode, i, d, name, S, held, r, w, jno)  BY <1>1, <1>3
  <1>5. PICK ino, H : ino = inode /\ H = F  OBVIOUS
  <1> HIDE DEF F
  <1>6. Renaming(vol, H, pending, T, i, d, name, S, r, w, jno)
    <2>1. /\ Consistent(vol, ino, pending, T) /\ Named(ino, i) /\ IsDirectory(ino[d])
          /\ \A t \in S : Named(ino, t) /\ ino[t].parent = d /\ ino[t].name = name
          /\ i \notin S /\ (S = {} => pending[d] = name) /\ (ino[i].type = "dir" => d = Root)
          /\ H = Fresh(ino, S \cup {i}) /\ (\A t \in S \cup {i} : AtHome(vol, H, t))
          /\ (ino[i].parent # d \/ NameLen[ino[i].name] < NameLen[name]
                 => Lies(vol, ChainOf(ino[d])) = {})
          /\ RenameDoes(vol, ino, i, d, name, S, held, r, w, jno)
      BY <1>1, <1>2, <1>4, <1>5, Zenon DEF F
    <2> QED BY ONLY <2>1, d \in Inodes, name \in Names, held \in BOOLEAN, RenameRenames, Zenon
  <1>7. \E T2 : Consistent(w, jno, [pending EXCEPT ![d] = None], T2)
    BY <1>6, RenamingConsistent
  <1> QED BY <1>1, <1>3, <1>7

-----------------------------------------------------------------------------
(* No operation leaves anything behind that the directories, the entries   *)
(* and the inodes do not agree on.                                         *)

LEMMA FaultsStay == ASSUME Next PROVE faults \subseteq faults'
  <1>1. ASSUME NEW d \in Inodes, NEW name \in Names, Lookup(d, name) PROVE faults \subseteq faults'
    BY <1>1 DEF Lookup
  <1>2. ASSUME NEW d \in Inodes, Abandon(d) \/ Create(d) \/ Mkdir(d) PROVE faults \subseteq faults'
    <2>1. CASE Abandon(d)  BY <2>1 DEF Abandon
    <2>2. CASE Create(d)
      <3>1. \E X : faults' = faults \cup X  BY <2>2 DEF Create
      <3> QED BY <3>1
    <2>3. CASE Mkdir(d)
      <3>1. \E X : faults' = faults \cup X  BY <2>3 DEF Mkdir
      <3> QED BY <3>1
    <2> QED BY <1>2, <2>1, <2>2, <2>3
  <1>3. ASSUME NEW i \in Inodes, NEW held \in BOOLEAN, Unlink(i, held) \/ Rmdir(i, held)
        PROVE  faults \subseteq faults'
    <2>1. \E X : faults' = faults \cup X  BY <1>3 DEF Unlink, Rmdir
    <2> QED BY <2>1
  <1>4. ASSUME NEW i \in Inodes, NEW d \in Inodes, NEW name \in Names, NEW held \in BOOLEAN,
               Rename(i, d, name, held)
        PROVE  faults \subseteq faults'
    <2> SUFFICES ASSUME NEW x \in faults PROVE x \in faults'  OBVIOUS
    <2> QED BY <1>4, Zenon DEF Rename
  <1>5. ASSUME NEW i \in Inodes, NEW off, NEW size, Map(i, off, size) PROVE faults \subseteq faults'
    <2>1. \E W, X, Y, Z : faults' = faults \cup W \cup X \cup Y \cup Z  BY <1>5 DEF Map
    <2> QED BY <2>1
  <1>6. ASSUME NEW i \in Inodes, NEW k \in 0 .. MaxSize, Read(i, k) \/ Truncate(i, k)
        PROVE  faults \subseteq faults'
    <2>1. CASE Read(i, k)  BY <1>5, <2>1 DEF Read
    <2>2. CASE Truncate(i, k)
      <3>1. \E X : faults' = faults \cup X  BY <2>2, Zenon DEF Truncate
      <3> QED BY <3>1
    <2> QED BY <1>6, <2>1, <2>2
  <1>7. ASSUME NEW i \in Inodes, Write(i) \/ WriteFails(i) \/ WriteInode(i) \/ Evict(i)
        PROVE  faults \subseteq faults'
    <2>1. CASE Write(i)  BY <1>5, <2>1 DEF Write
    <2>2. CASE WriteFails(i)  BY <1>5, <2>2 DEF WriteFails
    <2>3. CASE WriteInode(i)
      <3>1. \E X : faults' = faults \cup X  BY <2>3 DEF WriteInode
      <3> QED BY <3>1
    <2>4. CASE Evict(i)  BY <2>4 DEF Evict
    <2> QED BY <1>7, <2>1, <2>2, <2>3, <2>4
  <1>8. CASE Statfs \/ Remount  BY <1>8 DEF Statfs, Remount
  <1> QED BY <1>1, <1>2, <1>3, <1>4, <1>6, <1>7, <1>8 DEF Next

\* Every operation, whatever fails in it, leaves the directories in order, each entry
\* whole and with its clusters, each inode with its entry, and each cluster that is in
\* use with whoever has it - unless a fault happens that the model records.
THEOREM OperationsKeepTheCatalogue ==
  ASSUME NEW T, Consistent(vol, inode, pending, T), Next, faults' = {}
  PROVE  \E T2 : Consistent(vol', inode', pending', T2)
  <1> DEFINE Goal == \E T2 : Consistent(vol', inode', pending', T2)
  <1>0. Consistent(vol', inode', pending', T) => Goal  OBVIOUS
  <1>1. ASSUME NEW d \in Inodes, NEW name \in Names, Lookup(d, name) PROVE Goal
    BY <1>0, <1>1, LookupConsistent
  <1>2. ASSUME NEW d \in Inodes, Abandon(d) \/ Create(d) \/ Mkdir(d) PROVE Goal
    BY <1>0, <1>2, AbandonConsistent, CreateConsistent, MkdirConsistent
  <1>3. ASSUME NEW i \in Inodes, NEW held \in BOOLEAN, Unlink(i, held) \/ Rmdir(i, held) PROVE Goal
    BY <1>3, RemoveConsistent
  <1>4. ASSUME NEW i \in Inodes, NEW d \in Inodes, NEW name \in Names, NEW held \in BOOLEAN,
               Rename(i, d, name, held)
        PROVE  Goal
    BY <1>4, RenameConsistent
  <1>5. ASSUME NEW i \in Inodes, NEW k \in 0 .. MaxSize, Read(i, k) \/ Truncate(i, k) PROVE Goal
    <2>1. k \in Nat  BY VolumeAssumption
    <2> HIDE DEF Goal
    <2> QED BY <1>0, <1>5, <2>1, ReadConsistent, TruncateConsistent
  <1>6. ASSUME NEW i \in Inodes, Write(i) \/ WriteFails(i) \/ WriteInode(i) \/ Evict(i) PROVE Goal
    BY <1>0, <1>6, WriteConsistent, WriteInodeConsistent, EvictConsistent
  <1>7. ASSUME Statfs \/ Remount PROVE Goal
    BY <1>0, <1>7, StatfsConsistent, RemountConsistent
  <1> HIDE DEF Goal
  <1>8. Goal  BY <1>1, <1>2, <1>3, <1>4, <1>5, <1>6, <1>7 DEF Next
  <1> QED BY <1>8 DEF Goal

LEMMA InitConsistent == ASSUME Init PROVE \E T : Consistent(vol, inode, pending, T)
  <1>1. PICK v \in Disks : vol = Mounted(v)  BY DEF Init
  <1>2. inode = FirstInodes(vol) /\ pending = [i \in Inodes |-> None]  BY DEF Init, FirstInodes
  <1>3. Tree(vol, inode, pending, Table(vol))  BY <1>1, <1>2, DisksAssumption
  <1>4. Good(vol, inode) /\ Dirs(inode, pending)  BY InitInv DEF Inv
  <1> DEFINE T == Table(vol)
  <1>5. Tree(vol, inode, pending, T)  BY <1>3
  <1> HIDE DEF T
  <1>6. Consistent(vol, inode, pending, T)
    BY <1>4, <1>5 DEF Tree, Consistent, Catalogue, Ordered
  <1> QED BY <1>6

\* The slots s of the directory c, which p leads to.
IsTable(s, v, p, T, c) ==
    /\ Scan(v, p) = s /\ Len(T[c]) * SlotsPerClu \in Nat
    /\ DOMAIN s = 0 .. Len(T[c]) * SlotsPerClu - 1
    /\ \A j \in HeadsAt(s) : At(v, T, c, j) \in Entries(v, T)
    /\ \A x \in Entries(v, T) : x.dir = c => x.at \in HeadsAt(s) /\ x.head = s[x.at]

LEMMA OpenedTable ==
  ASSUME NEW v, NEW ino, NEW pnd, NEW T, Consistent(v, ino, pnd, T), NEW d \in Inodes,
         IsDirectory(ino[d])
  PROVE  IsTable(View(v, T[ino[d].start]), v, ChainOf(ino[d]), T, ino[d].start)
  <1>1. \A j \in HeadsAt(View(v, T[ino[d].start])) : At(v, T, ino[d].start, j) \in Entries(v, T)
    BY OpenedEntries, Zenon
  <1>2. \A x \in Entries(v, T) : x.dir = ino[d].start
           => x.at \in HeadsAt(View(v, T[ino[d].start])) /\ x.head = View(v, T[ino[d].start])[x.at]
    BY OpenedEntries
  <1>3. /\ Scan(v, ChainOf(ino[d])) = View(v, T[ino[d].start])
        /\ Len(T[ino[d].start]) * SlotsPerClu \in Nat
        /\ DOMAIN View(v, T[ino[d].start]) = 0 .. Len(T[ino[d].start]) * SlotsPerClu - 1
    BY OpenedEntries
  <1> QED BY <1>1, <1>2, <1>3 DEF IsTable

\* A name that has an inode is found, once.
LEMMA NamesResolveIs == ASSUME NEW T, Consistent(vol, inode, pending, T) PROVE NamesResolve
  <1> SUFFICES ASSUME NEW i \in Inodes \ {Root}, Linked(i)
               PROVE  LET p == ChainOf(inode[inode[i].parent])
                          s == Scan(vol, p)
                      IN /\ FindIn(s, vol, p, inode[i].name).entry >= 0
                         /\ Cardinality({j \in DOMAIN s : IsHead(s[j]) /\ s[j].name = inode[i].name}) = 1
    BY DEF NamesResolve
  <1> DEFINE d == inode[i].parent
             c == inode[d].start
             p == ChainOf(inode[d])
             s == View(vol, T[c])
             name == inode[i].name
             E == Entries(vol, T)
             N == Len(T[c]) * SlotsPerClu
  <1>1. Named(inode, i)  BY DEF Named, Linked
  <1>2. d \in Inodes /\ IsDirectory(inode[d]) /\ InOrder(s)  BY <1>1, ParentIs
  <1>3. /\ Scan(vol, p) = s /\ N \in Nat /\ DOMAIN s = 0 .. N - 1
        /\ \A j \in HeadsAt(s) : At(vol, T, c, j) \in E
        /\ \A x \in E : x.dir = c => x.at \in HeadsAt(s) /\ x.head = s[x.at]
    <2>1. PICK e \in Inodes : e = d  BY <1>2
    <2>2. IsDirectory(inode[e])  BY <1>2, <2>1
    <2>3. IsTable(s, vol, ChainOf(inode[e]), T, c)  BY <2>1, <2>2, OpenedTable
    <2> QED BY <2>1, <2>3 DEF IsTable
  <1>4. NamesTrue(E, inode, pending, T)  BY DEF Consistent, Catalogue
  <1>5. PICK x \in E : Home(E, inode, i, x) /\ \A y \in E : Has(inode, i, y) => y = x
    BY <1>1, <1>4, OwnEntry DEF Named
  <1>6. x.dir = c /\ x.head.name = name  BY <1>5 DEF Home, Agrees
  <1>7. x.at \in HeadsAt(s) /\ s[x.at].name = name  BY <1>3, <1>6
  <1>8. name \in Names
    <2>1. x.head \in Heads  BY <1>4 DEF NamesTrue, EntriesTrue
    <2> QED BY <1>6, <2>1 DEF Heads
  <1>9. ASSUME NEW j \in HeadsAt(s), s[j].name = name PROVE j = x.at
    <2> DEFINE y == At(vol, T, c, j)
    <2>1. y \in E /\ y.dir = c /\ y.head = s[j] /\ y.at = j  BY <1>3, <1>9, Zenon DEF At
    <2> HIDE DEF y
    <2>2. Has(inode, i, y)  BY <1>1, <1>9, <2>1 DEF Has, Named
    <2> QED BY <1>5, <2>1, <2>2
  <1>10. {j \in DOMAIN s : IsHead(s[j]) /\ s[j].name = name} = {x.at}
    <2> PICK k : k = x.at  OBVIOUS
    <2>1. k \in HeadsAt(s) /\ s[k].name = name  BY <1>7
    <2>2. \A j \in HeadsAt(s) : s[j].name = name => j = k  BY <1>9, Zenon
    <2> HIDE DEF s, name
    <2>3. {j \in DOMAIN s : IsHead(s[j]) /\ s[j].name = name} = {k}  BY <2>1, <2>2 DEF HeadsAt
    <2> QED BY <2>3
  <1>11. Cardinality({x.at}) = 1  BY FS_Singleton, Zenon
  <1>12. FindIn(s, vol, p, name).entry >= 0
    <2> HIDE DEF s, p, name, N
    <2> DEFINE r == FindIn(s, vol, p, name)
    <2>1. Found(r, s, vol, p, name)  BY <1>2, <1>3, <1>8, FindInIs
    <2> HIDE DEF r
    <2>2. r.entry \in HeadsAt(s)  BY <1>7, <2>1 DEF Found
    <2>3. r.entry >= 0  BY <1>3, <2>2 DEF HeadsAt
    <2> QED BY <2>3 DEF r
  <1> QED BY <1>3, <1>10, <1>11, <1>12, Zenon

\* The inode and the entry which it knows to be its own.
LEMMA InodeAgreesIs == ASSUME NEW T, Consistent(vol, inode, pending, T) PROVE InodeAgrees
  <1> SUFFICES ASSUME NEW i \in Inodes \ {Root}, Linked(i), AtHome(vol, inode, i)
               PROVE  LET f == inode[i]
                          h == Slot(vol, f.dir, f.entry)
                      IN /\ f.type = h.type
                         /\ f.start = EOC => h.clu = Nil \/ h.size = 0
                         /\ f.start # EOC => h.clu = f.start /\ h.flags = f.flags
                         /\ ~f.dirty => h.size = f.size
    BY DEF InodeAgrees
  <1>1. Named(inode, i)  BY DEF Named, Linked
  <1>2. PICK x \in Entries(vol, T) :
          Home(Entries(vol, T), inode, i, x) /\ Slot(vol, inode[i].dir, inode[i].entry) = x.head
    BY <1>1, HomeLead
  <1> QED BY <1>2 DEF Home, Agrees

-----------------------------------------------------------------------------
(* Everything that has clusters: the root, the system tables, and each     *)
(* entry of a directory.                                                   *)

\* The clusters of an entry: of its inode, if there is one.
EntryClus(E, v, ino, x) ==
    IF \E i \in Inodes \ {Root} : Has(ino, i, x)
    THEN UsedBy(v, ino[CHOOSE i \in Inodes \ {Root} : Has(ino, i, x)])
    ELSE IF HasClusters(x) THEN Of(ClusAt(v, x)) ELSE {}

PathAt(E, x) ==
    IF x.dir = RootClu THEN <<x.head.name>>
    ELSE <<(CHOOSE z \in E : z.head.type = "dir" /\ z.head.clu = x.dir).head.name, x.head.name>>

EntryOwner(E, v, ino, x) == [who |-> PathAt(E, x), clus |-> EntryClus(E, v, ino, x)]

\* The three kinds of entries.
LEMMA EntryClusIs ==
  ASSUME NEW v, NEW ino, NEW pnd, NEW T, Consistent(v, ino, pnd, T), NEW x \in Entries(v, T)
  PROVE  \/ \E i : /\ Named(ino, i) /\ Has(ino, i, x)
                   /\ EntryClus(Entries(v, T), v, ino, x) = UsedBy(v, ino[i])
         \/ /\ x \in Lone(Entries(v, T), ino)
            /\ EntryClus(Entries(v, T), v, ino, x) = Of(ClusAt(v, x))
         \/ /\ \A i \in Inodes \ {Root} : ~Has(ino, i, x)
            /\ ~HasClusters(x) /\ EntryClus(Entries(v, T), v, ino, x) = {}
  <1>1. CASE \E i \in Inodes \ {Root} : Has(ino, i, x)
    <2> DEFINE i == CHOOSE k \in Inodes \ {Root} : Has(ino, k, x)
    <2>1. i \in Inodes \ {Root} /\ Has(ino, i, x)  BY <1>1
    <2>2. EntryClus(Entries(v, T), v, ino, x) = UsedBy(v, ino[i])  BY <1>1 DEF EntryClus
    <2> HIDE DEF i
    <2> QED BY <2>1, <2>2 DEF Named, Has
  <1>2. CASE \A i \in Inodes \ {Root} : ~Has(ino, i, x)
    <2>1. EntryClus(Entries(v, T), v, ino, x) = IF HasClusters(x) THEN Of(ClusAt(v, x)) ELSE {}
      BY <1>2 DEF EntryClus
    <2>2. HasClusters(x) => x \in Lone(Entries(v, T), ino)  BY <1>2 DEF Lone, HasClusters
    <2> QED BY <1>2, <2>1, <2>2
  <1> QED BY <1>1, <1>2

\* Of an inode that has the entry.
LEMMA EntryClusOf ==
  ASSUME NEW v, NEW ino, NEW pnd, NEW T, Consistent(v, ino, pnd, T), NEW x \in Entries(v, T),
         NEW i, Named(ino, i), Has(ino, i, x)
  PROVE  EntryClus(Entries(v, T), v, ino, x) = UsedBy(v, ino[i])
  <1>1. Good(v, ino) /\ NamesTrue(Entries(v, T), ino, pnd, T)  BY DEF Consistent, Catalogue
  <1>2. i \in Inodes \ {Root}  BY DEF Named
  <1>3. PICK j : Named(ino, j) /\ Has(ino, j, x)
                 /\ EntryClus(Entries(v, T), v, ino, x) = UsedBy(v, ino[j])
    BY <1>2, EntryClusIs DEF Lone
  <1>4. i = j  BY <1>1, <1>3, OneHas
  <1> QED BY <1>3, <1>4

LEMMA UsedApart ==
  ASSUME NEW v, NEW ino, Good(v, ino), NEW i \in Inodes, NEW j \in Inodes, i # j
  PROVE  UsedBy(v, ino[i]) \cap UsedBy(v, ino[j]) = {}
  BY DEF Good, Apart, UsedBy

LEMMA StrangerApart ==
  ASSUME NEW v, NEW ino, NEW i \in Inodes, NEW p, NEW q, Stranger(v, ino, p, q)
  PROVE  UsedBy(v, ino[i]) \cap Of(q) = {}
  BY DEF Stranger, UsedBy

LEMMA UsedInBitmap ==
  ASSUME NEW v, NEW ino, Good(v, ino), NEW i \in Inodes
  PROVE  UsedBy(v, ino[i]) \subseteq v.bitmap
  BY DEF Good, Apart, UsedBy, Whole

LEMMA SystemIs ==
  ASSUME NEW v, NEW ino, NEW pnd, NEW T, Consistent(v, ino, pnd, T)
  PROVE  /\ SystemClus \subseteq v.bitmap
         /\ \A i \in Inodes : UsedBy(v, ino[i]) \cap SystemClus = {}
         /\ \A x \in Lone(Entries(v, T), ino) : Of(ClusAt(v, x)) \cap SystemClus = {}
  <1>1. NothingLost(Lone(Entries(v, T), ino), v, ino)  BY DEF Consistent, Catalogue, DataTrue
  <1>2. ASSUME NEW c \in SystemClus
        PROVE  c \in v.bitmap /\ \A i \in Inodes : c \notin UsedBy(v, ino[i])
    <2>1. Stranger(v, ino, Chain(c, 1, 3), <<c>>)  BY <1>1 DEF NothingLost
    <2>2. c \in Of(<<c>>)  BY DEF Of
    <2>3. Of(<<c>>) \subseteq v.bitmap  BY <2>1 DEF Stranger
    <2>4. \A i \in Inodes : UsedBy(v, ino[i]) \cap Of(<<c>>) = {}  BY <2>1, StrangerApart
    <2> QED BY <2>2, <2>3, <2>4
  <1> QED BY <1>1, <1>2 DEF NothingLost

\* What an entry has is in use, and nobody else's.
LEMMA EntriesClusApart ==
  ASSUME NEW v, NEW ino, NEW pnd, NEW T, Consistent(v, ino, pnd, T), NEW x \in Entries(v, T)
  PROVE  LET E == Entries(v, T)
         IN /\ EntryClus(E, v, ino, x) \subseteq v.bitmap
            /\ EntryClus(E, v, ino, x) \cap SystemClus = {}
            /\ EntryClus(E, v, ino, x) \cap UsedBy(v, ino[Root]) = {}
            /\ \A y \in E : x # y => EntryClus(E, v, ino, x) \cap EntryClus(E, v, ino, y) = {}
  <1> DEFINE E == Entries(v, T)
             L == Lone(E, ino)
             c(z) == EntryClus(E, v, ino, z)
  <1>1. Good(v, ino) /\ NamesTrue(E, ino, pnd, T) /\ ChainsTrue(L, v, ino, T)
    BY DEF Consistent, Catalogue, DataTrue
  <1>2. Root \in Inodes  BY VolumeAssumption
  <1>3. ASSUME NEW z \in E
        PROVE  \/ \E i \in Inodes \ {Root} : Named(ino, i) /\ Has(ino, i, z) /\ c(z) = UsedBy(v, ino[i])
               \/ z \in L /\ c(z) = Of(ClusAt(v, z))
               \/ c(z) = {}
    BY <1>3, EntryClusIs DEF Named
  <1>4. ASSUME NEW z \in L
        PROVE  /\ Of(ClusAt(v, z)) \subseteq v.bitmap /\ Of(ClusAt(v, z)) \cap SystemClus = {}
               /\ \A i \in Inodes : UsedBy(v, ino[i]) \cap Of(ClusAt(v, z)) = {}
    <2>1. Stranger(v, ino, HeadChain(z.head), ClusAt(v, z))  BY <1>1, <1>4, LoneIs
    <2>2. Of(ClusAt(v, z)) \subseteq v.bitmap  BY <2>1 DEF Stranger
    <2> QED BY <2>1, <2>2, StrangerApart, SystemIs
  <1>5. \A i \in Inodes : /\ UsedBy(v, ino[i]) \subseteq v.bitmap
                          /\ UsedBy(v, ino[i]) \cap SystemClus = {}
    BY <1>1, UsedInBitmap, SystemIs
  <1>6. \A i, j \in Inodes : i # j => UsedBy(v, ino[i]) \cap UsedBy(v, ino[j]) = {}
    BY <1>1, UsedApart
  <1>7. c(x) \subseteq v.bitmap /\ c(x) \cap SystemClus = {} /\ c(x) \cap UsedBy(v, ino[Root]) = {}
    <2> HIDE DEF c, E, L
    <2>1. CASE \E i \in Inodes \ {Root} : c(x) = UsedBy(v, ino[i])  BY <1>2, <1>5, <1>6, <2>1
    <2>2. CASE x \in L /\ c(x) = Of(ClusAt(v, x))  BY <1>2, <1>4, <2>2
    <2>3. CASE c(x) = {}  BY <2>3
    <2> QED BY <1>3, <2>1, <2>2, <2>3 DEF E
  <1>8. ASSUME NEW y \in E, x # y PROVE c(x) \cap c(y) = {}
    <2>1. ASSUME NEW i \in Inodes \ {Root}, Named(ino, i), Has(ino, i, x), Has(ino, i, y) PROVE FALSE
      <3>1. ino[i].st = "linked"  BY <2>1 DEF Named
      <3>2. \E w \in E : \A z \in E : Has(ino, i, z) => z = w  BY <1>1, <3>1, OwnEntry
      <3> QED BY <1>8, <2>1, <3>2
    <2>2. \A a, b \in L : a # b => Of(ClusAt(v, a)) \cap Of(ClusAt(v, b)) = {}
      BY <1>1 DEF ChainsTrue
    <2>3. x \in E  OBVIOUS
    <2> HIDE DEF c, E, L
    <2>4. CASE \E i \in Inodes \ {Root} : Named(ino, i) /\ Has(ino, i, x) /\ c(x) = UsedBy(v, ino[i])
      <3>1. PICK i \in Inodes \ {Root} : Named(ino, i) /\ Has(ino, i, x) /\ c(x) = UsedBy(v, ino[i])
        BY <2>4
      <3>2. CASE \E j \in Inodes \ {Root} : Named(ino, j) /\ Has(ino, j, y) /\ c(y) = UsedBy(v, ino[j])
        BY <1>6, <2>1, <3>1, <3>2
      <3>3. CASE y \in L /\ c(y) = Of(ClusAt(v, y))  BY <1>4, <3>1, <3>3
      <3>4. CASE c(y) = {}  BY <3>4
      <3> QED BY <1>3, <1>8, <3>2, <3>3, <3>4
    <2>5. CASE x \in L /\ c(x) = Of(ClusAt(v, x))
      <3>2. CASE \E j \in Inodes \ {Root} : Named(ino, j) /\ Has(ino, j, y) /\ c(y) = UsedBy(v, ino[j])
        BY <1>4, <2>5, <3>2
      <3>3. CASE y \in L /\ c(y) = Of(ClusAt(v, y))  BY <1>8, <2>2, <2>5, <3>3
      <3>4. CASE c(y) = {}  BY <3>4
      <3> QED BY <1>3, <1>8, <3>2, <3>3, <3>4
    <2>6. CASE c(x) = {}  BY <2>6
    <2> QED BY <1>3, <2>3, <2>4, <2>5, <2>6
  <1> QED BY <1>7, <1>8

\* The entries of a directory, as they are read.
LEMMA HeadsAre ==
  ASSUME NEW v, NEW ino, NEW pnd, NEW T, Consistent(v, ino, pnd, T), NEW c \in DOMAIN T,
         NEW p, Through(v, p, T[c])
  PROVE  \A h : h \in HeadsOf(v, p) <=> \E x \in Entries(v, T) : x.dir = c /\ x.head = h
  <1> DEFINE s == View(v, T[c])
  <1>1. FatOK(v)  BY DEF Consistent, Catalogue, Good, VolOK
  <1>2. Scan(v, p) = s  BY <1>1, SlotIs
  <1>3. \A h : h \in HeadsOf(v, p) <=> \E j \in HeadsAt(s) : h = s[j]
    <2> HIDE DEF s
    <2> QED BY <1>2 DEF HeadsOf, HeadsAt
  <1>4. ASSUME NEW j \in HeadsAt(s) PROVE \E x \in Entries(v, T) : x.dir = c /\ x.head = s[j]
    <2>1. At(v, T, c, j) \in Entries(v, T)  BY <1>4, AtIs
    <2> QED BY <2>1 DEF At
  <1>5. ASSUME NEW x \in Entries(v, T), x.dir = c PROVE \E j \in HeadsAt(s) : x.head = s[j]
    BY <1>5, EntryFacts
  <1> HIDE DEF s
  <1> QED BY <1>3, <1>4, <1>5

\* What the entry of a directory says leads through it.
LEMMA DirectoryEntry ==
  ASSUME NEW v, NEW ino, NEW pnd, NEW T, Consistent(v, ino, pnd, T), NEW x \in Entries(v, T),
         x.head.type = "dir"
  PROVE  /\ x.dir = RootClu /\ x.head.clu \in DOMAIN T \ {RootClu}
         /\ Through(v, HeadChain(x.head), T[x.head.clu])
  <1> DEFINE E == Entries(v, T)
  <1>1. /\ NamesTrue(E, ino, pnd, T) /\ ChainsTrue(Lone(E, ino), v, ino, T) /\ Good(v, ino)
    BY DEF Consistent, Catalogue, DataTrue
  <1>2. x.dir = RootClu /\ x.head.clu \in DOMAIN T \ {RootClu}  BY <1>1 DEF NamesTrue, DirsTrue
  <1>3. CASE x \in Lone(E, ino)
    <2>1. Stranger(v, ino, HeadChain(x.head), ClusAt(v, x)) /\ T[x.head.clu] = ClusAt(v, x)
      BY <1>1, <1>3, LoneIs
    <2> QED BY <1>2, <2>1 DEF Stranger
  <1>4. CASE x \notin Lone(E, ino)
    <2>1. PICK i \in Inodes \ {Root} : Has(ino, i, x)  BY <1>4 DEF Lone
    <2>2. ino[i].st = "linked" /\ Agrees(ino[i], x.head)
      BY <1>1, <2>1, HasIsHome DEF Has, Home
    <2>3. IsDirectory(ino[i])  BY <2>2 DEF Agrees, IsDirectory
    <2>4. Owns(ino[i])  BY <1>1, <2>3, DirOwns DEF Good, IsDirectory
    <2>5. /\ x.head.clu = ino[i].start /\ x.head.flags = ino[i].flags /\ x.head.size = ino[i].size
      BY <2>2, <2>3, <2>4 DEF Agrees, Owns, IsDirectory
    <2>6. HeadChain(x.head) = ChainOf(ino[i])  BY <2>5 DEF HeadChain, ChainOf
    <2>7. Through(v, ChainOf(ino[i]), T[ino[i].start])  BY <2>3, OpenedIs
    <2> QED BY <1>2, <2>5, <2>6, <2>7
  <1> QED BY <1>2, <1>3, <1>4

\* The name of an entry, in the directory that the inode d is of.
LEMMA PositiveIs ==
  ASSUME NEW T, Consistent(vol, inode, pending, T), NEW d \in Inodes, IsDirectory(inode[d]),
         NEW y \in Entries(vol, T), y.dir = inode[d].start, NEW i \in Inodes
  PROVE  i \in Positive(d, y.head.name) <=> i # Root /\ Has(inode, i, y)
  <1>1. ASSUME i # Root, Has(inode, i, y) PROVE inode[i].parent = d
    <2>1. Named(inode, i)  BY <1>1 DEF Has, Named
    <2>2. PICK e \in Inodes : e = inode[i].parent /\ IsDirectory(inode[e])  BY <2>1, ParentIs
    <2>3. inode[e].start = inode[d].start  BY <1>1, <2>2 DEF Has
    <2>4. \A j \in Inodes : IsDirectory(inode[j]) /\ inode[j].start = inode[d].start => j = d
      BY OpenedIs
    <2> QED BY <2>2, <2>3, <2>4
  <1>2. ASSUME i # Root, inode[i].st = "linked", inode[i].parent = d, inode[i].name = y.head.name
        PROVE  Has(inode, i, y)
    BY <1>2 DEF Has
  <1> QED BY <1>1, <1>2 DEF Positive, Linked, Has

LEMMA RootDirectory ==
  ASSUME NEW v, NEW ino, NEW pnd, NEW T, Consistent(v, ino, pnd, T)
  PROVE  /\ Root \in Inodes /\ IsDirectory(ino[Root]) /\ ino[Root].start = RootClu
         /\ RootClu \in DOMAIN T
  <1>1. Dirs(ino, pnd) /\ NamesTrue(Entries(v, T), ino, pnd, T)  BY DEF Consistent, Catalogue
  <1> QED BY <1>1, VolumeAssumption DEF Dirs, IsDirectory, NamesTrue, DirsTrue

\* The inode of a directory that has the entry x, if there is one.
LEMMA PositiveIn ==
  ASSUME NEW T, Consistent(vol, inode, pending, T), NEW x \in Entries(vol, T), x.head.type = "dir",
         NEW y \in Entries(vol, T), y.dir = x.head.clu, NEW i \in Inodes
  PROVE  InodeOf(x.head) \in Inodes /\ i \in Positive(InodeOf(x.head), y.head.name)
           <=> i # Root /\ Has(inode, i, y)
  <1> DEFINE d == InodeOf(x.head)
  <1>1. x.dir = RootClu /\ x.head.clu \in DOMAIN T \ {RootClu}  BY DirectoryEntry
  <1>2. \A j \in Inodes : j \in Positive(Root, x.head.name) <=> j # Root /\ Has(inode, j, x)
    BY <1>1, RootDirectory, PositiveIs
  <1>3. CASE Positive(Root, x.head.name) = {}
    <2>1. d \notin Inodes  BY <1>3, NoneAssumption DEF InodeOf
    <2>2. ASSUME i # Root, Has(inode, i, y) PROVE FALSE
      <3>1. Named(inode, i)  BY <2>2 DEF Has, Named
      <3>2. PICK e \in Inodes : e = inode[i].parent /\ IsDirectory(inode[e])  BY <3>1, ParentIs
      <3>3. inode[e].start = x.head.clu  BY <2>2, <3>2 DEF Has
      <3>4. e # Root /\ Has(inode, e, x)  BY <3>2, <3>3, OpenedIs
      <3> QED BY <1>2, <1>3, <3>4
    <2> QED BY <2>1, <2>2
  <1>4. CASE Positive(Root, x.head.name) # {}
    <2>1. Positive(Root, x.head.name) \subseteq Inodes  BY DEF Positive
    <2>2. d \in Inodes /\ d \in Positive(Root, x.head.name)  BY <1>4, <2>1 DEF InodeOf
    <2> HIDE DEF d
    <2>3. d # Root /\ Has(inode, d, x)  BY <1>2, <2>2
    <2>4. NamesTrue(Entries(vol, T), inode, pending, T) /\ Good(vol, inode)
      BY DEF Consistent, Catalogue
    <2>5. inode[d].st = "linked" /\ Agrees(inode[d], x.head)
      BY <2>2, <2>3, <2>4, HasIsHome DEF Has, Home
    <2>6. IsDirectory(inode[d])  BY <2>5 DEF Agrees, IsDirectory
    <2>7. Owns(inode[d])  BY <2>2, <2>4, <2>6, DirOwns DEF Good, IsDirectory
    <2>8. inode[d].start = y.dir  BY <2>5, <2>7 DEF Agrees, Owns
    <2>9. i \in Positive(d, y.head.name) <=> i # Root /\ Has(inode, i, y)
      BY <2>2, <2>6, <2>8, PositiveIs
    <2> QED BY <2>2, <2>9 DEF d
  <1> QED BY <1>3, <1>4

\* The clusters that Owners gives an entry.
LEMMA ClustersOfIs ==
  ASSUME Good(vol, inode), NEW i \in Inodes
  PROVE  /\ ClustersOf(inode[i]) = UsedBy(vol, inode[i])
         /\ Orphan(i) => ClustersOf(inode[i]) = {}
  <1>1. FatOK(vol) /\ InodeOK(inode[i])  BY DEF Good, VolOK
  <1>2. CASE Owns(inode[i])
    <2>1. Whole(vol, inode[i], Clus(vol, inode[i]))  BY <1>2 DEF Good, Apart
    <2>2. ChainSet(vol, ChainOf(inode[i])) = Of(Clus(vol, inode[i]))
      BY <1>1, <2>1, ChainIs DEF Whole
    <2>3. inode[i].st # "orphan"  BY <1>1, <1>2 DEF InodeOK, Owns, Free
    <2> QED BY <1>2, <2>2, <2>3 DEF ClustersOf, UsedBy, Owns, Orphan
  <1>3. CASE ~Owns(inode[i])  BY <1>3 DEF ClustersOf, UsedBy, Owns
  <1> QED BY <1>2, <1>3

LEMMA ClustersAtIs ==
  ASSUME NEW T, Consistent(vol, inode, pending, T), NEW d, NEW y \in Entries(vol, T),
         \A i \in Inodes : d \in Inodes /\ i \in Positive(d, y.head.name)
                           <=> i # Root /\ Has(inode, i, y)
  PROVE  ClustersAt(d, y.head) = EntryClus(Entries(vol, T), vol, inode, y)
  <1> DEFINE P(i) == i \in Positive(d, y.head.name)
  <1>1. Good(vol, inode) /\ ChainsTrue(Lone(Entries(vol, T), inode), vol, inode, T) /\ FatOK(vol)
    BY DEF Consistent, Catalogue, DataTrue, Good, VolOK
  <1>2. CASE \E i \in Inodes : d \in Inodes /\ P(i)
    <2> DEFINE k == CHOOSE i \in Inodes : P(i)
    <2>1. k \in Inodes /\ P(k) /\ d \in Inodes  BY <1>2
    <2>2. ClustersAt(d, y.head) = ClustersOf(inode[k])  BY <1>2 DEF ClustersAt
    <2> HIDE DEF k
    <2>3. k # Root /\ Has(inode, k, y)  BY <2>1
    <2>4. Named(inode, k)  BY <2>1, <2>3 DEF Named, Has
    <2> QED BY <1>1, <2>1, <2>2, <2>3, <2>4, EntryClusOf, ClustersOfIs
  <1>3. CASE ~\E i \in Inodes : d \in Inodes /\ P(i)
    <2>1. \A i \in Inodes \ {Root} : ~Has(inode, i, y)  BY <1>3
    <2>2. ClustersAt(d, y.head) = IF y.head.type = "file" /\ y.head.size = 0 THEN {}
                                  ELSE ChainSet(vol, HeadChain(y.head))
      BY <1>3 DEF ClustersAt
    <2>3. y.head.type \in {"file", "dir"}  BY EntryFacts DEF IsHead
    <2>4. CASE HasClusters(y)
      <3>1. y \in Lone(Entries(vol, T), inode)  BY <2>1, <2>4 DEF Lone, HasClusters
      <3>2. Through(vol, HeadChain(y.head), ClusAt(vol, y))  BY <1>1, <3>1, LoneIs DEF Stranger
      <3>3. ChainSet(vol, HeadChain(y.head)) = Of(ClusAt(vol, y))  BY <1>1, <3>2, ChainIs
      <3>4. EntryClus(Entries(vol, T), vol, inode, y) = Of(ClusAt(vol, y))
        BY <2>1, <2>4 DEF EntryClus
      <3> QED BY <2>2, <2>3, <2>4, <3>3, <3>4 DEF HasClusters
    <2>5. CASE ~HasClusters(y)
      <3>1. EntryClus(Entries(vol, T), vol, inode, y) = {}  BY <2>1, <2>5 DEF EntryClus
      <3> QED BY <2>2, <2>3, <2>5, <3>1 DEF HasClusters
    <2> QED BY <2>4, <2>5
  <1> QED BY <1>2, <1>3

\* Who the owners are.
LEMMA InRootIs ==
  ASSUME NEW T, Consistent(vol, inode, pending, T)
  PROVE  \A h : h \in InRoot <=> \E x \in Entries(vol, T) : x.dir = RootClu /\ x.head = h
  <1>1. IsDirectory(inode[Root]) /\ inode[Root].start = RootClu /\ Root \in Inodes
        /\ RootClu \in DOMAIN T
    BY RootDirectory
  <1>2. Through(vol, ChainOf(inode[Root]), T[RootClu])  BY <1>1, OpenedIs
  <1> QED BY <1>1, <1>2, HeadsAre DEF InRoot

LEMMA InDirIs ==
  ASSUME NEW T, Consistent(vol, inode, pending, T), NEW x \in Entries(vol, T), x.head.type = "dir"
  PROVE  \A g : g \in InDir(x.head) <=> \E y \in Entries(vol, T) : y.dir = x.head.clu /\ y.head = g
  <1>1. x.head.clu \in DOMAIN T /\ Through(vol, HeadChain(x.head), T[x.head.clu])  BY DirectoryEntry
  <1> QED BY <1>1, HeadsAre DEF InDir

LEMMA OwnerInRoot ==
  ASSUME NEW T, Consistent(vol, inode, pending, T), NEW x \in Entries(vol, T), x.dir = RootClu
  PROVE  EntryOwner(Entries(vol, T), vol, inode, x)
           = [who |-> <<x.head.name>>, clus |-> ClustersAt(Root, x.head)]
  <1>1. \A i \in Inodes : Root \in Inodes /\ i \in Positive(Root, x.head.name)
                          <=> i # Root /\ Has(inode, i, x)
    BY RootDirectory, PositiveIs
  <1>2. ClustersAt(Root, x.head) = EntryClus(Entries(vol, T), vol, inode, x)  BY <1>1, ClustersAtIs
  <1> QED BY <1>2 DEF EntryOwner, PathAt

LEMMA OwnerInDir ==
  ASSUME NEW T, Consistent(vol, inode, pending, T), NEW x \in Entries(vol, T), x.head.type = "dir",
         NEW y \in Entries(vol, T), y.dir = x.head.clu
  PROVE  EntryOwner(Entries(vol, T), vol, inode, y)
           = [who |-> <<x.head.name, y.head.name>>, clus |-> ClustersAt(InodeOf(x.head), y.head)]
  <1> DEFINE E == Entries(vol, T)
             z == CHOOSE z \in E : z.head.type = "dir" /\ z.head.clu = y.dir
  <1>1. x.head.clu # RootClu  BY DirectoryEntry
  <1>2. DirsTrue(E, inode, T)  BY DEF Consistent, Catalogue, NamesTrue
  <1>3. z \in E /\ z.head.type = "dir" /\ z.head.clu = y.dir  OBVIOUS
  <1>4. PathAt(E, y) = <<z.head.name, y.head.name>>  BY <1>1 DEF PathAt
  <1> HIDE DEF z
  <1>5. z = x  BY <1>2, <1>3 DEF DirsTrue
  <1>6. \A i \in Inodes : InodeOf(x.head) \in Inodes /\ i \in Positive(InodeOf(x.head), y.head.name)
                          <=> i # Root /\ Has(inode, i, y)
    BY PositiveIn
  <1>7. ClustersAt(InodeOf(x.head), y.head) = EntryClus(E, vol, inode, y)  BY <1>6, ClustersAtIs
  <1> QED BY <1>4, <1>5, <1>7 DEF EntryOwner

\* Each owner is the root, the system tables, an entry, or an orphan, which has nothing.
LEMMA OwnersAre ==
  ASSUME NEW T, Consistent(vol, inode, pending, T), NEW o \in Owners
  PROVE  \/ o = [who |-> <<>>, clus |-> UsedBy(vol, inode[Root])]
         \/ o = [who |-> <<None, None>>, clus |-> SystemClus]
         \/ \E x \in Entries(vol, T) : o = EntryOwner(Entries(vol, T), vol, inode, x)
         \/ o.clus = {}
  <1>1. Good(vol, inode) /\ Root \in Inodes  BY RootDirectory DEF Consistent, Catalogue
  <1>2. CASE o \in {[who |-> <<>>, clus |-> ClustersOf(inode[Root])],
                    [who |-> <<None, None>>, clus |-> SystemClus]}
    BY <1>1, <1>2, ClustersOfIs
  <1>3. CASE \E h \in InRoot : o = [who |-> <<h.name>>, clus |-> ClustersAt(Root, h)]
    <2>1. PICK h \in InRoot : o = [who |-> <<h.name>>, clus |-> ClustersAt(Root, h)]  BY <1>3, Zenon
    <2>2. PICK x \in Entries(vol, T) : x.dir = RootClu /\ x.head = h  BY <2>1, InRootIs
    <2> QED BY <2>1, <2>2, OwnerInRoot
  <1>4. CASE \E h \in InRoot : h.type = "dir" /\ \E g \in InDir(h) :
                o = [who |-> <<h.name, g.name>>, clus |-> ClustersAt(InodeOf(h), g)]
    <2>1. PICK h \in InRoot : h.type = "dir" /\ \E g \in InDir(h) :
                o = [who |-> <<h.name, g.name>>, clus |-> ClustersAt(InodeOf(h), g)]
      BY <1>4, Zenon
    <2>2. PICK x \in Entries(vol, T) : x.dir = RootClu /\ x.head = h  BY <2>1, InRootIs
    <2>3. PICK g \in InDir(x.head) :
                o = [who |-> <<x.head.name, g.name>>, clus |-> ClustersAt(InodeOf(x.head), g)]
      BY <2>1, <2>2, Zenon
    <2>4. PICK y \in Entries(vol, T) : y.dir = x.head.clu /\ y.head = g
      BY <2>1, <2>2, <2>3, InDirIs
    <2> QED BY <2>1, <2>2, <2>3, <2>4, OwnerInDir
  <1>5. CASE \E i \in Inodes : Orphan(i) /\ o = [who |-> <<i>>, clus |-> ClustersOf(inode[i])]
    BY <1>1, <1>5, ClustersOfIs
  <1> DEFINE InOf(h) == {[who |-> <<h.name, g.name>>, clus |-> ClustersAt(InodeOf(h), g)] : g \in InDir(h)}
             H == {x \in InRoot : x.type = "dir"}
             A == {[who |-> <<>>, clus |-> ClustersOf(inode[Root])],
                   [who |-> <<None, None>>, clus |-> SystemClus]}
             B == {[who |-> <<h.name>>, clus |-> ClustersAt(Root, h)] : h \in InRoot}
             C == UNION {{[who |-> <<h.name, g.name>>, clus |-> ClustersAt(InodeOf(h), g)] : g \in InDir(h)} :
                             h \in {x \in InRoot : x.type = "dir"}}
             D == {[who |-> <<i>>, clus |-> ClustersOf(inode[i])] : i \in {j \in Inodes : Orphan(j)}}
  <1>6. Owners = A \cup B \cup C \cup D  BY DEF Owners
  <1>7. o \in B => \E h \in InRoot : o = [who |-> <<h.name>>, clus |-> ClustersAt(Root, h)]
    OBVIOUS
  <1>8. ASSUME o \in C
        PROVE  \E h \in InRoot : h.type = "dir" /\ \E g \in InDir(h) :
                  o = [who |-> <<h.name, g.name>>, clus |-> ClustersAt(InodeOf(h), g)]
    <2>1. C = UNION {InOf(h) : h \in H}  OBVIOUS
    <2>2. PICK h \in H : o \in InOf(h)
      <3> HIDE DEF InOf, H, C
      <3> QED BY <1>8, <2>1
    <2> QED BY <2>2
  <1>9. o \in D => \E i \in Inodes : Orphan(i) /\ o = [who |-> <<i>>, clus |-> ClustersOf(inode[i])]
    OBVIOUS
  <1> HIDE DEF B, C, D
  <1> QED BY <1>2, <1>3, <1>4, <1>5, <1>6, <1>7, <1>8, <1>9

\* And each entry is one.
LEMMA EntryIsOwner ==
  ASSUME NEW T, Consistent(vol, inode, pending, T), NEW y \in Entries(vol, T)
  PROVE  EntryOwner(Entries(vol, T), vol, inode, y) \in Owners
  <1> DEFINE E == Entries(vol, T)
  <1>1. CASE y.dir = RootClu
    <2>1. y.head \in InRoot  BY <1>1, InRootIs
    <2>2. EntryOwner(E, vol, inode, y) = [who |-> <<y.head.name>>, clus |-> ClustersAt(Root, y.head)]
      BY <1>1, OwnerInRoot
    <2> QED BY <2>1, <2>2, Zenon DEF Owners
  <1>2. CASE y.dir # RootClu
    <2>1. y.dir \in DOMAIN T  BY EntryFacts
    <2>2. DirsTrue(E, inode, T)  BY DEF Consistent, Catalogue, NamesTrue
    <2>3. PICK x \in E : x.head.type = "dir" /\ x.head.clu = y.dir  BY <1>2, <2>1, <2>2 DEF DirsTrue
    <2>4. x.dir = RootClu  BY <2>3, DirectoryEntry
    <2>5. x.head \in InRoot /\ y.head \in InDir(x.head)  BY <2>3, <2>4, InRootIs, InDirIs
    <2>6. EntryOwner(E, vol, inode, y)
            = [who |-> <<x.head.name, y.head.name>>, clus |-> ClustersAt(InodeOf(x.head), y.head)]
      BY <2>3, OwnerInDir
    <2>7. x.head \in {h \in InRoot : h.type = "dir"}  BY <2>3, <2>5
    <2>8. EntryOwner(E, vol, inode, y) \in
            {[who |-> <<x.head.name, g.name>>, clus |-> ClustersAt(InodeOf(x.head), g)] : g \in InDir(x.head)}
      BY <2>5, <2>6, Zenon
    <2> DEFINE InOf(h) == {[who |-> <<h.name, g.name>>, clus |-> ClustersAt(InodeOf(h), g)] : g \in InDir(h)}
               H == {h \in InRoot : h.type = "dir"}
    <2>9. UNION {InOf(h) : h \in H} \subseteq Owners  BY DEF Owners
    <2>10. x.head \in H /\ EntryOwner(E, vol, inode, y) \in InOf(x.head)  BY <2>7, <2>8
    <2> HIDE DEF InOf, H
    <2>11. PICK S : S = InOf(x.head)  OBVIOUS
    <2>12. S \in {InOf(h) : h \in H}  BY <2>10, <2>11
    <2>13. S \subseteq UNION {InOf(h) : h \in H}  BY <2>12
    <2> QED BY <2>9, <2>10, <2>11, <2>13
  <1> QED BY <1>1, <1>2

LEMMA OwnersApart ==
  ASSUME NEW T, Consistent(vol, inode, pending, T)
  PROVE  /\ \A a \in Owners : a.clus \subseteq vol.bitmap
         /\ \A a, b \in Owners : a # b => a.clus \cap b.clus = {}
  <1> DEFINE E == Entries(vol, T)
             R == [who |-> <<>>, clus |-> UsedBy(vol, inode[Root])]
             S == [who |-> <<None, None>>, clus |-> SystemClus]
             O(x) == EntryOwner(E, vol, inode, x)
  <1>1. \A o \in Owners : o = R \/ o = S \/ (\E x \in E : o = O(x)) \/ o.clus = {}
    BY OwnersAre
  <1>2. R.clus \subseteq vol.bitmap /\ S.clus \subseteq vol.bitmap /\ R.clus \cap S.clus = {}
    BY RootDirectory, SystemIs, UsedInBitmap DEF Consistent, Catalogue
  <1>3. ASSUME NEW x \in E
        PROVE  /\ O(x).clus \subseteq vol.bitmap
               /\ O(x).clus \cap R.clus = {} /\ O(x).clus \cap S.clus = {}
               /\ \A y \in E : x # y => O(x).clus \cap O(y).clus = {}
    <2>1. /\ EntryClus(E, vol, inode, x) \subseteq vol.bitmap
          /\ EntryClus(E, vol, inode, x) \cap SystemClus = {}
          /\ EntryClus(E, vol, inode, x) \cap UsedBy(vol, inode[Root]) = {}
          /\ \A y \in E : x # y => EntryClus(E, vol, inode, x) \cap EntryClus(E, vol, inode, y) = {}
      BY <1>3, EntriesClusApart
    <2> QED BY <2>1 DEF EntryOwner
  <1> HIDE DEF O, R, S, E
  <1>4. \A a \in Owners : a.clus \subseteq vol.bitmap  BY <1>1, <1>2, <1>3
  <1>5. ASSUME NEW a \in Owners, NEW b \in Owners, a # b PROVE a.clus \cap b.clus = {}
    <2>1. CASE a.clus = {} \/ b.clus = {}  BY <2>1
    <2>2. CASE a = R  BY <1>1, <1>2, <1>3, <1>5, <2>2
    <2>3. CASE a = S  BY <1>1, <1>2, <1>3, <1>5, <2>3
    <2>4. CASE \E x \in E : a = O(x)
      <3>1. PICK x \in E : a = O(x)  BY <2>4
      <3>2. CASE b = R \/ b = S \/ b.clus = {}  BY <1>3, <3>1, <3>2
      <3>3. CASE \E y \in E : b = O(y)
        <4>1. PICK y \in E : b = O(y)  BY <3>3
        <4>2. x # y  BY <1>5, <3>1, <4>1
        <4> QED BY <1>3, <3>1, <4>1, <4>2
      <3> QED BY <1>1, <3>2, <3>3
    <2> QED BY <1>1, <2>1, <2>2, <2>3, <2>4
  <1> QED BY <1>4, <1>5

LEMMA OwnersHaveAll ==
  ASSUME NEW T, Consistent(vol, inode, pending, T)
  PROVE  vol.bitmap = UNION {o.clus : o \in Owners}
  <1> DEFINE E == Entries(vol, T)
             L == Lone(E, inode)
             O(x) == EntryOwner(E, vol, inode, x)
  <1>1. /\ Good(vol, inode) /\ NamesTrue(E, inode, pending, T) /\ NothingLost(L, vol, inode)
    BY DEF Consistent, Catalogue, DataTrue
  <1>2. \A x \in E : O(x) \in Owners /\ O(x).clus = EntryClus(E, vol, inode, x)
    BY EntryIsOwner DEF EntryOwner
  <1>3. ASSUME NEW c \in vol.bitmap PROVE \E o \in Owners : c \in o.clus
    <2>1. CASE c \in SystemClus
      <3>1. [who |-> <<None, None>>, clus |-> SystemClus] \in Owners  BY DEF Owners
      <3> QED BY <2>1, <3>1
    <2>2. CASE \E i \in Inodes : Owns(inode[i]) /\ c \in Of(Clus(vol, inode[i]))
      <3>1. PICK i \in Inodes : Owns(inode[i]) /\ c \in Of(Clus(vol, inode[i]))  BY <2>2
      <3>2. c \in UsedBy(vol, inode[i])  BY <3>1 DEF UsedBy
      <3>3. CASE i = Root
        <4>1. [who |-> <<>>, clus |-> ClustersOf(inode[Root])] \in Owners  BY DEF Owners
        <4>2. ClustersOf(inode[Root]) = UsedBy(vol, inode[i])  BY <1>1, <3>3, ClustersOfIs
        <4> QED BY <3>2, <4>1, <4>2
      <3>4. CASE i # Root
        <4>1. inode[i].st = "linked"  BY <1>1, <3>1 DEF Good, InodeOK, Owns, Free
        <4>2. PICK x \in E : Has(inode, i, x)  BY <1>1, <3>4, <4>1, OwnEntry
        <4>3. EntryClus(E, vol, inode, x) = UsedBy(vol, inode[i])
          BY <3>4, <4>1, <4>2, EntryClusOf DEF Named
        <4> QED BY <1>2, <3>2, <4>2, <4>3
      <3> QED BY <3>3, <3>4
    <2>3. CASE \E x \in L : c \in Of(ClusAt(vol, x))
      <3>1. PICK x \in L : c \in Of(ClusAt(vol, x))  BY <2>3
      <3>2. x \in E /\ HasClusters(x) /\ \A i \in Inodes \ {Root} : ~Has(inode, i, x)
        BY <3>1 DEF Lone, HasClusters
      <3>3. EntryClus(E, vol, inode, x) = Of(ClusAt(vol, x))  BY <3>2 DEF EntryClus
      <3> QED BY <1>2, <3>1, <3>2, <3>3
    <2> QED BY <1>1, <2>1, <2>2, <2>3 DEF NothingLost
  <1>4. \A o \in Owners : o.clus \subseteq vol.bitmap  BY OwnersApart
  <1> QED BY <1>3, <1>4

-----------------------------------------------------------------------------
(* Until the first fault.                                                  *)

\* The inductive invariant: some table of the directories makes sense of the whole.
Safe == faults = {} => \E T : Consistent(vol, inode, pending, T)

LEMMA SafeFirst == Init => Safe
  BY InitConsistent DEF Safe

LEMMA SafeStep == ASSUME Safe, [Next]_vars PROVE Safe'
  <1> SUFFICES ASSUME faults' = {} PROVE \E T : Consistent(vol', inode', pending', T)
    BY DEF Safe
  <1>1. CASE Next
    <2>1. faults = {}  BY <1>1, FaultsStay
    <2>2. PICK T : Consistent(vol, inode, pending, T)  BY <2>1 DEF Safe
    <2> QED BY <1>1, <2>2, OperationsKeepTheCatalogue
  <1>2. CASE UNCHANGED vars
    <2>1. faults = {} /\ vol' = vol /\ inode' = inode /\ pending' = pending  BY <1>2 DEF vars
    <2> QED BY <2>1 DEF Safe
  <1> QED BY <1>1, <1>2

LEMMA SafeIs ==
  ASSUME Safe, faults = {}
  PROVE  /\ NoSharedCluster /\ UsedIsCount /\ NamesResolve /\ InodeAgrees
         /\ vol.bitmap = UNION {o.clus : o \in Owners}
  <1>1. PICK T : Consistent(vol, inode, pending, T)  BY DEF Safe
  <1>2. Good(vol, inode) /\ Dirs(inode, pending)  BY <1>1 DEF Consistent, Catalogue
  <1>3. FilesApart  BY <1>2, InvFilesApart DEF Inv
  <1>4. UsedIsCount  BY <1>2 DEF Good, Counted, UsedIsCount
  <1>5. EntriesApart /\ NamesResolve /\ InodeAgrees
    BY <1>1, EntriesApartIs, NamesResolveIs, InodeAgreesIs
  <1>6. NoSharedCluster  BY <1>1, <1>3, <1>5, OwnersApart DEF NoSharedCluster
  <1>7. vol.bitmap = UNION {o.clus : o \in Owners}  BY <1>1, OwnersHaveAll
  <1> QED BY <1>4, <1>5, <1>6, <1>7

\* Until a fault, no cluster belongs to two files, directories or system tables, all
\* that belong to one are marked, and each file and directory has its chain whole.
THEOREM NothingIsShared == Spec => [](faults = {} => NoSharedCluster)
  <1>1. Safe => (faults = {} => NoSharedCluster)  BY SafeIs
  <1>2. Safe /\ [Next]_vars => Safe'  BY SafeStep
  <1> QED BY SafeFirst, <1>1, <1>2, PTL DEF Spec

\* Until a fault, used_clusters is unknown or the number of marked clusters.
THEOREM UsedCountsTheBitmap == Spec => [](faults = {} => UsedIsCount)
  <1>1. Safe => (faults = {} => UsedIsCount)  BY SafeIs
  <1>2. Safe /\ [Next]_vars => Safe'  BY SafeStep
  <1> QED BY SafeFirst, <1>1, <1>2, PTL DEF Spec

\* Until a fault, each name that has an inode is found by a lookup, and once only.
THEOREM NamesAreFound == Spec => [](faults = {} => NamesResolve)
  <1>1. Safe => (faults = {} => NamesResolve)  BY SafeIs
  <1>2. Safe /\ [Next]_vars => Safe'  BY SafeStep
  <1> QED BY SafeFirst, <1>1, <1>2, PTL DEF Spec

\* Until a fault, an inode and its entry tell of the same clusters.
THEOREM InodesAgree == Spec => [](faults = {} => InodeAgrees)
  <1>1. Safe => (faults = {} => InodeAgrees)  BY SafeIs
  <1>2. Safe /\ [Next]_vars => Safe'  BY SafeStep
  <1> QED BY SafeFirst, <1>1, <1>2, PTL DEF Spec

\* Each cluster that is marked has an owner, until one of the operations that are known
\* to lose some has lost one.
THEOREM NothingElseLeaks == Spec => []LeaksAreKnown
  <1>1. Safe => LeaksAreKnown  BY SafeIs DEF LeaksAreKnown
  <1>2. Safe /\ [Next]_vars => Safe'  BY SafeStep
  <1> QED BY SafeFirst, <1>1, <1>2, PTL DEF Spec
=============================================================================
