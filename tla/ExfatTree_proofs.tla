-------------------------- MODULE ExfatTree_proofs --------------------------
(***************************************************************************)
(* The operations of ExfatVolume keep the catalogue (Consistent) of a      *)
(* volume without faults: those that are about no name, write an inode,    *)
(* let one go, truncate, map a cluster, look a name up, find room for an   *)
(* entry and make a directory grow for one.                                *)
(***************************************************************************)
EXTENDS ExfatVolume_proofs

-----------------------------------------------------------------------------
(* The whole of it, of a volume, its inodes and its directories.           *)

Consistent(v, ino, pnd, T) ==
    /\ Catalogue(Entries(v, T), v, ino, pnd, T) /\ Ordered(v, T)
    /\ HintTrue(Entries(v, T), v, T)

\* The step of a name and of the clusters of an inode.
LEMMA CatalogueStep ==
  ASSUME NEW E, NEW v, NEW ino, NEW pnd, NEW T, Catalogue(E, v, ino, pnd, T),
         NEW t, NEW X, NEW Y, NEW jno, NEW pn2, NEW T2,
         NamesStep(E, v, ino, pnd, T, t, X, Y, jno, pn2, T2),
         \A z \in E : Named(ino, t) /\ Has(ino, t, z) => z \in X, Y \cap (E \ X) = {},
         NEW w, NEW k, DataSteps(v, ino, w, jno, k), TableSteps(v, ino, T, w, jno, T2, k)
  PROVE  Catalogue((E \ X) \cup Y, w, jno, pn2, T2)
  <1>1. NamesTrue(E, ino, pnd, T) /\ DataTrue(Lone(E, ino), v, ino, T)  BY DEF Catalogue
  <1>2. NamesTrue((E \ X) \cup Y, jno, pn2, T2)  BY <1>1, NamesKept
  <1>3. Lone((E \ X) \cup Y, jno) = Lone(E, ino)  BY <1>1, LoneSame
  <1>4. Lone(E, ino) \subseteq E  BY DEF Lone
  <1>5. DataTrue(Lone(E, ino), w, jno, T2)  BY <1>1, <1>4, DataStep
  <1>6. Good(w, jno) /\ Dirs(jno, pn2)  BY DEF DataSteps, NamesStep, InodesStep
  <1> QED BY <1>2, <1>3, <1>5, <1>6 DEF Catalogue

\* A directory shares no cluster with an inode that is not its own, before and after.
LEMMA DirectoryApart ==
  ASSUME NEW E, NEW v, NEW ino, NEW pnd, NEW T, Catalogue(E, v, ino, pnd, T), NEW c \in DOMAIN T,
         NEW k \in Inodes, ~(IsDirectory(ino[k]) /\ ino[k].start = c)
  PROVE  /\ Of(T[c]) \cap UsedBy(v, ino[k]) = {}
         /\ \A w, jno : DataSteps(v, ino, w, jno, k) => Of(T[c]) \cap UsedBy(w, jno[k]) = {}
  <1>1. CASE \E d \in Inodes : /\ IsDirectory(ino[d]) /\ ino[d].start = c /\ Owns(ino[d])
                               /\ T[c] = Clus(v, ino[d])
    <2>1. PICK d \in Inodes : /\ IsDirectory(ino[d]) /\ ino[d].start = c /\ Owns(ino[d])
                              /\ T[c] = Clus(v, ino[d])
      BY <1>1
    <2>2. d # k  BY <2>1
    <2>3. Of(T[c]) \cap UsedBy(v, ino[k]) = {}
      BY <2>1, <2>2 DEF Catalogue, Good, Apart, UsedBy
    <2>4. ASSUME NEW w, NEW jno, DataSteps(v, ino, w, jno, k)
          PROVE  Of(T[c]) \cap UsedBy(w, jno[k]) = {}
      BY <2>1, <2>2, <2>4, OtherChains
    <2> QED BY <2>3, <2>4
  <1>2. CASE \E x \in Lone(E, ino) : T[c] = ClusAt(v, x) /\ Stranger(v, ino, HeadChain(x.head), T[c])
    <2>1. PICK x \in Lone(E, ino) : T[c] = ClusAt(v, x) /\ Stranger(v, ino, HeadChain(x.head), T[c])
      BY <1>2
    <2>2. Of(T[c]) \cap UsedBy(v, ino[k]) = {}  BY <2>1 DEF Stranger, UsedBy
    <2>3. ASSUME NEW w, NEW jno, DataSteps(v, ino, w, jno, k)
          PROVE  Of(T[c]) \cap UsedBy(w, jno[k]) = {}
      BY <2>1, <2>3, OtherStrangers
    <2> QED BY <2>2, <2>3
  <1> QED BY <1>1, <1>2, DirectoryIs

\* What the hint says stays true of a directory that stays as it is, but for slots
\* that are used.
HintStep(E, v, T, E2, w, T2, used) ==
    /\ w.hint = v.hint /\ OthersStay(v, w, used) /\ TableOK(v, T)
    /\ v.hint.dir \in DOMAIN T2 /\ v.hint.entry # -1 =>
          LET c == v.hint.dir
          IN /\ c \in DOMAIN T /\ T2[c] = T[c] /\ Of(T[c]) \cap used = {}
             /\ \A j \in Nat : j \in DOMAIN View(v, T[c]) /\ View(w, T[c])[j] = Unused
                               => View(v, T[c])[j] = Unused
             /\ \A x \in E2 : x.head.type = "dir" /\ x.head.clu = c =>
                   \E z \in E : z.head.type = "dir" /\ z.head.clu = c /\ z.head.flags = x.head.flags

LEMMA HintKept ==
  ASSUME NEW E, NEW v, NEW T, HintTrue(E, v, T), NEW E2, NEW w, NEW T2, NEW used,
         HintStep(E, v, T, E2, w, T2, used)
  PROVE  HintTrue(E2, w, T2)
  <1>0. w.hint = v.hint /\ HintType(v.hint)  BY DEF HintStep, HintTrue
  <1> SUFFICES ASSUME v.hint.dir \in DOMAIN T2, v.hint.entry # -1
               PROVE  LET q == T2[v.hint.dir]
                          k == v.hint.entry \div SlotsPerClu
                      IN /\ k < Len(q) /\ Through(w, v.hint.clu, SubSeq(q, k + 1, Len(q)))
                         /\ \A j \in 0 .. v.hint.entry - 1 : View(w, q)[j] # Unused
                         /\ v.hint.dir = RootClu => v.hint.clu.flags = 1
                         /\ \A x \in E2 : x.head.type = "dir" /\ x.head.clu = v.hint.dir
                                          => x.head.flags = v.hint.clu.flags
    BY <1>0 DEF HintTrue
  <1> DEFINE c == v.hint.dir
             q == T[c]
             k == v.hint.entry \div SlotsPerClu
             r == SubSeq(q, k + 1, Len(q))
  <1>1. /\ c \in DOMAIN T /\ T2[c] = T[c] /\ Of(T[c]) \cap used = {}
        /\ \A j \in Nat : j \in DOMAIN View(v, T[c]) /\ View(w, T[c])[j] = Unused
                          => View(v, T[c])[j] = Unused
        /\ \A x \in E2 : x.head.type = "dir" /\ x.head.clu = c =>
              \E z \in E : z.head.type = "dir" /\ z.head.clu = c /\ z.head.flags = x.head.flags
    BY DEF HintStep
  <1>2. /\ k < Len(q) /\ Through(v, v.hint.clu, r)
        /\ \A j \in 0 .. v.hint.entry - 1 : View(v, q)[j] # Unused
        /\ c = RootClu => v.hint.clu.flags = 1
        /\ \A x \in E : x.head.type = "dir" /\ x.head.clu = c => x.head.flags = v.hint.clu.flags
    BY <1>1 DEF HintTrue
  <1>3. /\ q \in Seq(Clusters) /\ Len(q) > 0 /\ Of(q) \subseteq v.bitmap /\ Len(q) \in Nat
        /\ DOMAIN View(v, q) = 0 .. Len(q) * SlotsPerClu - 1 /\ Len(q) * SlotsPerClu \in Nat
    <2>1. TableOK(v, T) /\ c \in DOMAIN T  BY <1>1 DEF HintStep
    <2>2. q \in Seq(Clusters) /\ Len(q) > 0 /\ Of(q) \subseteq v.bitmap  BY <2>1 DEF TableOK
    <2>3. /\ Len(q) \in Nat /\ Len(q) * SlotsPerClu \in Nat
          /\ DOMAIN View(v, q) = 0 .. Len(q) * SlotsPerClu - 1
      BY <2>1, ViewDomain
    <2> QED BY <2>2, <2>3
  <1>4. v.hint.entry \in Nat /\ k \in Nat /\ v.hint.entry < Len(q) * SlotsPerClu
    <2>1. v.hint.entry \in Nat  BY <1>0 DEF HintType
    <2>2. k \in Nat  BY <2>1, DivMod
    <2>3. ~(v.hint.entry >= Len(q) * SlotsPerClu)
      <3>1. \A n \in Nat : v.hint.entry >= n * SlotsPerClu => k >= n
        BY <2>1, DivMod
      <3> HIDE DEF q, k
      <3>2. Len(q) \in Nat /\ k < Len(q)  BY <1>2, <1>3
      <3>3. v.hint.entry >= Len(q) * SlotsPerClu => k >= Len(q)  BY <3>1, <3>2
      <3> QED BY <2>2, <3>2, <3>3
    <2> QED BY <1>3, <2>1, <2>2, <2>3
  <1> HIDE DEF q, k, c
  <1>5. Through(w, v.hint.clu, r)
    <2>1. Len(q) \in 1 .. Len(q) /\ k + 1 \in 1 .. Len(q) /\ k + 1 <= Len(q)
      BY <1>2, <1>3, <1>4
    <2>2. Of(r) \subseteq Of(q)  BY <1>3, <2>1, PartIs
    <2>3. Of(r) \subseteq v.bitmap \ used  BY <1>1, <1>3, <2>2 DEF q
    <2> QED BY <1>2, <2>3 DEF HintStep, OthersStay
  <1>6. ASSUME NEW j \in 0 .. v.hint.entry - 1 PROVE View(w, q)[j] # Unused
    <2>1. j \in Nat /\ j \in DOMAIN View(v, q)  BY <1>3, <1>4
    <2> QED BY <1>1, <1>2, <2>1 DEF q
  <1>7. \A x \in E2 : x.head.type = "dir" /\ x.head.clu = c => x.head.flags = v.hint.clu.flags
    BY <1>1, <1>2
  <1>8. T2[c] = q  BY <1>1 DEF q
  <1> QED BY <1>2, <1>5, <1>6, <1>7, <1>8 DEF c, k

\* A hint that there is no room, or none at all.
LEMMA NoHintIs ==
  /\ HintType(NoHint) /\ NoHint.entry = -1
  /\ \A dir : HintType([dir |-> dir, entry |-> -1, clu |-> NoChain])
  /\ \A E, v, T : HintType(v.hint) /\ v.hint.entry = -1 => HintTrue(E, v, T)
  <1>1. DOMAIN NoChain = {"dir", "size", "flags"}  BY DEF NoChain, Chain
  <1>2. \A dir : HintType([dir |-> dir, entry |-> -1, clu |-> NoChain])  BY <1>1 DEF HintType
  <1>3. HintType(NoHint) /\ NoHint.entry = -1  BY <1>2 DEF NoHint
  <1>4. \A E, v, T : HintType(v.hint) /\ v.hint.entry = -1 => HintTrue(E, v, T)  BY DEF HintTrue
  <1> QED BY <1>2, <1>3, <1>4
-----------------------------------------------------------------------------
(* One inode changes, and with it what its entry tells.                    *)

LEMMA SlotsSame ==
  ASSUME NEW v, NEW u, u.slots = v.slots, NEW T
  PROVE  /\ \A q : View(u, q) = View(v, q)
         /\ Entries(u, T) = Entries(v, T) /\ (Ordered(u, T) <=> Ordered(v, T))
  <1>1. \A q : View(u, q) = View(v, q)  BY DEF View
  <1>2. Entries(u, T) = Entries(v, T)  BY <1>1, SameViews
  <1> QED BY <1>1, <1>2 DEF Ordered, SlotsOK

LEMMA RewrittenSelf ==
  ASSUME NEW w, NEW T, Ordered(w, T), NEW x \in Entries(w, T)
  PROVE  Rewritten(w, w, T, x.dir, x.at, {x})
  <1>2. ASSUME NEW z \in Entries(w, T), z.dir = x.dir, z.at = x.at PROVE z = x
    BY <1>2, EntryFacts
  <1>3. Entries(w, T) = {z \in Entries(w, T) : ~(z.dir = x.dir /\ z.at = x.at)} \cup {x}
    BY <1>2
  <1> QED BY <1>3 DEF Rewritten

\* The entries when one is written over, and no two are at one place.
LEMMA RewrittenEntries ==
  ASSUME NEW v, NEW T, NEW w, NEW x \in Entries(v, T), NEW Y, Rewritten(v, w, T, x.dir, x.at, Y)
  PROVE  Entries(w, T) = (Entries(v, T) \ {x}) \cup Y
  <1>2. ASSUME NEW z \in Entries(v, T) PROVE z.dir = x.dir /\ z.at = x.at <=> z = x
    BY EntryFacts
  <1> QED BY <1>2 DEF Rewritten

\* i is the inode, x its entry, which becomes y.
EntryWritten(v, ino, pnd, T, i, used, x, w, y, jno) ==
    /\ Named(ino, i) /\ x \in Entries(v, T) /\ Home(Entries(v, T), ino, i, x)
    /\ w.hint = v.hint /\ Rewritten(v, w, T, x.dir, x.at, {y})
    /\ y.dir = x.dir /\ y.at = x.at /\ y.head \in Heads
    /\ y.head.name = x.head.name /\ y.head.type = x.head.type
    /\ Good(w, jno) /\ StrangersStay(v, ino, w, jno)
    /\ OthersStay(v, w, used) /\ used \subseteq UsedBy(v, ino[i])
    /\ w.bitmap \subseteq (v.bitmap \ UsedBy(v, ino[i])) \cup UsedBy(w, jno[i])
    /\ \A j \in Inodes : j # i => jno[j] = ino[j]
    /\ jno[i].st = "linked" /\ jno[i].type = ino[i].type /\ jno[i].name = ino[i].name
    /\ jno[i].parent = ino[i].parent /\ jno[i].entry = ino[i].entry /\ jno[i].dir = ino[i].dir
    /\ Agrees(jno[i], y.head)
    /\ ino[i].type = "dir" =>
          /\ used = {} /\ Clus(w, jno[i]) = Clus(v, ino[i]) /\ jno[i].start = ino[i].start
          /\ jno[i].size = ino[i].size /\ jno[i].flags = ino[i].flags
          /\ y.head.clu = x.head.clu /\ y.head.flags = x.head.flags

LEMMA EntryWrittenNames ==
  ASSUME NEW v, NEW ino, NEW pnd, NEW T, Consistent(v, ino, pnd, T), NEW i, NEW used, NEW x,
         NEW w, NEW y, NEW jno, EntryWritten(v, ino, pnd, T, i, used, x, w, y, jno)
  PROVE  NamesStep(Entries(v, T), v, ino, pnd, T, i, {x}, {y}, jno, pnd, T)
  <1> USE DEF EntryWritten
  <1> DEFINE E == Entries(v, T)
             p == ino[i].parent
  <1>1. /\ Good(v, ino) /\ Dirs(ino, pnd) /\ NamesTrue(E, ino, pnd, T)
    BY DEF Consistent, Catalogue
  <1>2. i \in Inodes \ {Root} /\ ino[i].st = "linked" /\ Root \in Inodes  BY VolumeAssumption DEF Named
  <1>3. \A d \in Inodes : IsDirectory(ino[d]) => IsDirectory(jno[d]) /\ jno[d].start = ino[d].start
                                                 /\ jno[d].flags = ino[d].flags
    <2> TAKE d \in Inodes
    <2>1. CASE d = i  BY <1>2, <2>1 DEF IsDirectory
    <2>2. CASE d # i  BY <2>2 DEF IsDirectory
    <2> QED BY <2>1, <2>2
  <1>4. Dirs(jno, pnd)
    <2>1. \A d \in Inodes : jno[d].st = "linked" /\ jno[d].type = "dir"
                            <=> ino[d].st = "linked" /\ ino[d].type = "dir"
      BY <1>2
    <2> QED BY <1>1, <1>2, <2>1 DEF Dirs
  <1>5. InodesStep(v, ino, pnd, i, jno, pnd)
    <2>1. NamesStay(ino, jno, i)  BY DEF NamesStay
    <2>2. DirsStay(ino, jno, i)  BY <1>3 DEF DirsStay
    <2> QED BY <1>1, <1>2, <1>4, <2>1, <2>2 DEF InodesStep, Good
  <1>6. /\ p \in Inodes /\ IsDirectory(ino[p]) /\ ino[i].entry \in Nat /\ Knows(ino, ino[i])
        /\ ino[i].type = "dir" => p = Root /\ ino[i].dir.flags = 1
        /\ \A j \in Inodes \ {Root} : j # i /\ Named(ino, j) /\ ino[j].parent = p => ino[j].name # ino[i].name
    BY <1>1, <1>2 DEF NamesTrue, HomesTrue, Named, IsDirectory, Knows
  <1>7. x \in E /\ x.dir = ino[p].start /\ Agrees(ino[i], x.head) /\ (ino[i].type = "dir" => x.at = ino[i].entry)
    BY DEF Home
  <1>8. Has(ino, i, x)  BY <1>2, <1>7 DEF Has, Agrees
  <1> HIDE DEF EntryWritten
  <1>9. /\ y.dir = x.dir /\ y.at = x.at /\ y.head \in Heads
        /\ y.head.name = x.head.name /\ y.head.type = x.head.type
        /\ x.head.type = "dir" => y.head.clu = x.head.clu
        /\ jno[i].type = ino[i].type /\ jno[i].name = ino[i].name /\ Agrees(jno[i], y.head)
        /\ jno[i].parent = p /\ jno[i].entry = ino[i].entry /\ jno[i].dir = ino[i].dir
        /\ jno[i].st = "linked"
    BY <1>7 DEF EntryWritten, Agrees
  <1>10. EntriesStep(E, ino, i, {x}, {y}, jno, T)
    <2>1. y.dir \in DOMAIN T  BY <1>1, <1>7, <1>9 DEF NamesTrue, EntriesTrue
    <2>2. y.dir = jno[jno[i].parent].start  BY <1>3, <1>6, <1>7, <1>9
    <2>3. \A z \in E \ {x} : ~(z.dir = y.dir /\ z.head.name = y.head.name)
      BY <1>1, <1>7, <1>9 DEF NamesTrue, EntriesTrue
    <2>4. Named(jno, i) /\ Named(ino, i)  BY <1>2, <1>9 DEF Named
    <2>5. Knows(jno, jno[i])  BY <1>3, <1>6, <1>9 DEF Knows
    <2>6. Placed(ino, jno, i)  BY <1>3, <1>6, <1>9, <2>5 DEF Placed
    <2>7. jno[i].type = "dir" => y.at = jno[i].entry  BY <1>7, <1>9
    <2> QED BY <1>7, <1>8, <1>9, <2>1, <2>2, <2>3, <2>4, <2>6, <2>7 DEF EntriesStep
  <1>11. TableStep(E, T, {x}, {y}, T)
    <2>1. RootClu \in DOMAIN T  BY <1>1 DEF NamesTrue, DirsTrue
    <2>2. ASSUME x.head.type = "dir"
          PROVE  /\ x.dir = RootClu /\ x.head.clu \in DOMAIN T \ {RootClu}
                 /\ \A z \in E : z.head.type = "dir" /\ z.head.clu = x.head.clu => z = x
      BY <1>1, <1>7, <2>2 DEF NamesTrue, DirsTrue
    <2> QED BY <1>9, <2>1, <2>2 DEF TableStep
  <1>12. MissingStep({y}, pnd, jno, pnd)
    <2>1. ASSUME NEW d \in Inodes, pnd[d] # None, y.dir = jno[d].start PROVE y.head.name # pnd[d]
      <3>1. IsDirectory(ino[d])  BY <1>1, <2>1 DEF Dirs, IsDirectory
      <3>2. x.dir = ino[d].start  BY <1>3, <1>9, <2>1, <3>1
      <3> QED BY <1>1, <1>7, <1>9, <2>1, <3>2 DEF NamesTrue, NamesMissing
    <2> QED BY <2>1 DEF MissingStep
  <1> QED BY <1>5, <1>10, <1>11, <1>12 DEF NamesStep

LEMMA EntryWrittenKeeps ==
  ASSUME NEW v, NEW ino, NEW pnd, NEW T, Consistent(v, ino, pnd, T), NEW i, NEW used, NEW x,
         NEW w, NEW y, NEW jno, EntryWritten(v, ino, pnd, T, i, used, x, w, y, jno)
  PROVE  Consistent(w, jno, pnd, T)
  <1> DEFINE E == Entries(v, T)
             E2 == (E \ {x}) \cup {y}
  <1>1. Catalogue(E, v, ino, pnd, T) /\ TableOK(v, T) /\ Good(v, ino) /\ NamesTrue(E, ino, pnd, T)
        /\ HintTrue(E, v, T)
    BY TableIs DEF Consistent, Catalogue
  <1>2. /\ x \in E /\ Named(ino, i) /\ i \in Inodes /\ w.hint = v.hint
        /\ Rewritten(v, w, T, x.dir, x.at, {y}) /\ Home(E, ino, i, x)
        /\ y.dir = x.dir /\ y.at = x.at
    BY DEF EntryWritten, Named
  <1>3. NamesStep(E, v, ino, pnd, T, i, {x}, {y}, jno, pnd, T)  BY EntryWrittenNames
  <1>4. \A z \in E : Named(ino, i) /\ Has(ino, i, z) => z \in {x}
    <2>1. i \in Inodes \ {Root} /\ ino[i].st = "linked"  BY <1>2 DEF Named
    <2>2. Has(ino, i, x)  BY <1>2, <2>1 DEF Has, Home, Agrees
    <2>3. \E a \in E : \A z \in E : Has(ino, i, z) => z = a  BY <1>1, <2>1, OwnEntry
    <2> QED BY <1>2, <2>2, <2>3
  <1>5. {y} \cap (E \ {x}) = {}
    <2> SUFFICES ASSUME y \in E, y # x PROVE FALSE  OBVIOUS
    <2> QED BY <1>2, EntryFacts
  <1>6. DataSteps(v, ino, w, jno, i)
    <2>1. OthersStay(v, w, UsedBy(v, ino[i]))  BY DEF EntryWritten, OthersStay
    <2>2. \A j \in Inodes : j # i => SameOwner(ino[j], jno[j])  BY DEF EntryWritten, SameOwner
    <2> QED BY <1>1, <1>2, <2>1, <2>2 DEF EntryWritten, DataSteps
  <1>7. TableSteps(v, ino, T, w, jno, T, i)
    <2>1. ASSUME IsDirectory(jno[i])
          PROVE  T[jno[i].start] = Clus(w, jno[i]) /\ jno[i].size = Len(T[jno[i].start])
      <3>1. IsDirectory(ino[i])  BY <1>2, <2>1 DEF EntryWritten, IsDirectory, Named
      <3>2. /\ Clus(w, jno[i]) = Clus(v, ino[i]) /\ jno[i].start = ino[i].start
            /\ jno[i].size = ino[i].size
        BY <3>1 DEF EntryWritten, IsDirectory
      <3>3. T[ino[i].start] = Clus(v, ino[i]) /\ ino[i].size = Len(T[ino[i].start])
        BY <1>1, <1>2, <3>1 DEF Catalogue, DataTrue, ChainsTrue, IsDirectory
      <3> QED BY <3>2, <3>3
    <2> QED BY <2>1 DEF TableSteps
  <1>8. Catalogue(E2, w, jno, pnd, T)  BY <1>1, <1>3, <1>4, <1>5, <1>6, <1>7, CatalogueStep
  <1>9. Entries(w, T) = E2
    <2>1. x \in Entries(v, T) /\ Rewritten(v, w, T, x.dir, x.at, {y})  BY <1>2
    <2>2. Entries(w, T) = (Entries(v, T) \ {x}) \cup {y}
      <3> HIDE DEF E, E2
      <3> DEFINE Y == {y}
      <3>1. Rewritten(v, w, T, x.dir, x.at, Y)  BY <2>1
      <3> HIDE DEF Y
      <3>2. Entries(w, T) = (Entries(v, T) \ {x}) \cup Y  BY <2>1, <3>1, RewrittenEntries
      <3> QED BY <3>2 DEF Y
    <2> QED BY <2>2
  <1>10. Ordered(w, T)  BY <1>2 DEF Rewritten
  <1>11. HintStep(E, v, T, E2, w, T, used)
    <2>1. w.hint = v.hint /\ OthersStay(v, w, used)  BY <1>2 DEF EntryWritten
    <2>2. ASSUME NEW c \in DOMAIN T
          PROVE  /\ Of(T[c]) \cap used = {}
                 /\ \A j \in Nat : j \in DOMAIN View(v, T[c]) /\ View(w, T[c])[j] = Unused
                                   => View(v, T[c])[j] = Unused
                 /\ \A z \in E2 : z.head.type = "dir" /\ z.head.clu = c =>
                      \E a \in E : a.head.type = "dir" /\ a.head.clu = c /\ a.head.flags = z.head.flags
      <3>1. Of(T[c]) \cap used = {}
        <4>1. CASE ino[i].type = "dir"  BY <4>1 DEF EntryWritten
        <4>2. CASE ino[i].type # "dir"
          <5>1. Of(T[c]) \cap UsedBy(v, ino[i]) = {}
            BY <1>1, <1>2, <4>2, DirectoryApart DEF IsDirectory
          <5> QED BY <5>1 DEF EntryWritten
        <4> QED BY <4>1, <4>2
      <3>3. \A j \in Nat : j \in DOMAIN View(v, T[c]) /\ View(w, T[c])[j] = Unused
                           => View(v, T[c])[j] = Unused
        BY <1>2 DEF Rewritten
      <3>4. ASSUME NEW z \in E2, z.head.type = "dir", z.head.clu = c
            PROVE  \E a \in E : a.head.type = "dir" /\ a.head.clu = c /\ a.head.flags = z.head.flags
        <4>1. CASE z \in E  BY <3>4, <4>1
        <4>2. CASE z = y
          <5>1. x.head.type = "dir" /\ ino[i].type = "dir"
            BY <1>2, <3>4, <4>2 DEF EntryWritten, Home, Agrees
          <5> QED BY <1>2, <3>4, <4>2, <5>1 DEF EntryWritten
        <4> QED BY <4>1, <4>2
      <3> QED BY <3>1, <3>3, <3>4
    <2> QED BY <1>1, <2>1, <2>2 DEF HintStep
  <1>12. HintTrue(E2, w, T)  BY <1>1, <1>11, HintKept
  <1> HIDE DEF E2
  <1> QED BY <1>8, <1>9, <1>10, <1>12 DEF Consistent
-----------------------------------------------------------------------------
(* Where an inode finds its entry.                                         *)

LEMMA ParentIs ==
  ASSUME NEW v, NEW ino, NEW pnd, NEW T, Consistent(v, ino, pnd, T), NEW i, Named(ino, i)
  PROVE  LET p == ino[i].parent
             c == ino[p].start
         IN /\ i \in Inodes \ {Root} /\ p \in Inodes /\ IsDirectory(ino[p]) /\ c \in DOMAIN T
            /\ T[c] = Clus(v, ino[p]) /\ Whole(v, ino[p], T[c]) /\ Owns(ino[p])
            /\ Through(v, ChainOf(ino[p]), T[c]) /\ InOrder(View(v, T[c]))
            /\ ino[i].entry \in Nat /\ Knows(ino, ino[i])
  <1> DEFINE p == ino[i].parent
             c == ino[p].start
  <1>1. i \in Inodes \ {Root} /\ ino[i].st = "linked"  BY DEF Named
  <1>2. /\ Good(v, ino) /\ NamesTrue(Entries(v, T), ino, pnd, T)
        /\ ChainsTrue(Lone(Entries(v, T), ino), v, ino, T) /\ Ordered(v, T)
    BY DEF Consistent, Catalogue, DataTrue
  <1>3. p \in Inodes /\ IsDirectory(ino[p]) /\ ino[i].entry \in Nat /\ Knows(ino, ino[i])
    BY <1>1, <1>2 DEF NamesTrue, HomesTrue, Knows, IsDirectory
  <1>4. Owns(ino[p]) /\ T[c] = Clus(v, ino[p]) /\ c \in DOMAIN T
    BY <1>2, <1>3, DirOwns DEF Good, IsDirectory, ChainsTrue, NamesTrue, DirsTrue
  <1>5. Whole(v, ino[p], T[c])  BY <1>2, <1>3, <1>4 DEF Good, Apart
  <1>6. Through(v, ChainOf(ino[p]), T[c])  BY <1>5 DEF Whole
  <1>7. InOrder(View(v, T[c]))  BY <1>2, <1>4 DEF Ordered
  <1> QED BY <1>1, <1>3, <1>4, <1>5, <1>6, <1>7

\* The slots of a whole entry.
LEMMA SlotsOfEntry ==
  ASSUME NEW v, NEW T, TableOK(v, T), Ordered(v, T), NEW x \in Entries(v, T)
  PROVE  LET n == NameLen[x.head.name]
         IN /\ n \in Nat \ {0} /\ x.dir \in DOMAIN T /\ x.at \in Nat /\ x.head \in Heads
            /\ x.at \in HeadsAt(View(v, T[x.dir])) /\ View(v, T[x.dir])[x.at] = x.head
            /\ \A m \in 0 .. n - 1 : x.at + m \in Idx(T[x.dir])
            /\ \A m \in 1 .. n - 1 : View(v, T[x.dir])[x.at + m] = Ext
  <1> DEFINE n == NameLen[x.head.name]
             s == View(v, T[x.dir])
  <1>1. /\ x.dir \in DOMAIN T /\ x.at \in HeadsAt(s) /\ x.head = s[x.at] /\ x.head \in Heads
    BY EntryFacts
  <1>2. n \in Nat \ {0}  BY <1>1, SlotKinds
  <1>3. DOMAIN s = Idx(T[x.dir]) /\ DOMAIN s \subseteq Nat  BY <1>1, ViewDomain
  <1>4. InOrder(s)  BY <1>1 DEF Ordered
  <1>5. x.at \in DOMAIN s /\ IsHead(s[x.at])  BY <1>1 DEF HeadsAt
  <1> HIDE DEF s
  <1>6. \A m \in 1 .. n - 1 : x.at + m \in DOMAIN s /\ s[x.at + m] = Ext
    BY <1>1, <1>4, <1>5 DEF InOrder
  <1>7. \A m \in 0 .. n - 1 : x.at + m \in DOMAIN s
    <2> TAKE m \in 0 .. n - 1
    <2>1. CASE m = 0  BY <1>3, <1>5, <2>1
    <2>2. CASE m # 0
      <3>1. m \in 1 .. n - 1  BY <1>2, <2>2
      <3> QED BY <1>6, <3>1
    <2> QED BY <2>1, <2>2
  <1> QED BY <1>1, <1>2, <1>3, <1>5, <1>6, <1>7 DEF s

LEMMA AtHomeIs ==
  ASSUME NEW v, NEW ino, NEW pnd, NEW T, Consistent(v, ino, pnd, T), NEW i, Named(ino, i),
         AtHome(v, ino, i)
  PROVE  \E x \in Entries(v, T) :
            /\ Home(Entries(v, T), ino, i, x) /\ x.dir \in DOMAIN T
            /\ x.dir = ino[ino[i].parent].start /\ x.at \in HeadsAt(View(v, T[x.dir]))
            /\ LeadsTo(v, ino[i].dir, ino[i].entry, T[x.dir], x.at, NameLen[x.head.name])
  <1> DEFINE f == ino[i]
             p == f.parent
             c == ino[p].start
             q == ChainOf(ino[p])
             s == View(v, T[c])
             E == Entries(v, T)
  <1>1. /\ i \in Inodes \ {Root} /\ p \in Inodes /\ c \in DOMAIN T /\ Through(v, q, T[c])
        /\ f.entry \in Nat
    BY ParentIs
  <1>2. /\ TableOK(v, T) /\ Ordered(v, T) /\ FatOK(v) /\ NamesTrue(E, ino, pnd, T)
    BY TableIs DEF Consistent, Catalogue, Good, VolOK
  <1>3. /\ Scan(v, q) = s /\ DOMAIN s = Idx(T[c])
        /\ \A j \in Idx(T[c]) : Locate(v, q, j) = Loc(T[c], j)
    BY <1>1, <1>2, SlotIs
  <1>4. PICK e \in DOMAIN s : /\ IsHead(s[e]) /\ s[e].name = f.name
                              /\ \A m \in 0 .. NameLen[f.name] - 1 :
                                    Locate(v, f.dir, f.entry + m) = Locate(v, q, e + m)
    BY <1>3, Zenon DEF AtHome
  <1> DEFINE x == At(v, T, c, e)
  <1>5. e \in HeadsAt(s)  BY <1>4 DEF HeadsAt
  <1>6. x \in E /\ x.dir = c /\ x.at = e /\ x.head = s[e]
    BY <1>1, <1>5, AtIs DEF At
  <1>7. Has(ino, i, x)  BY <1>4, <1>6 DEF Has, AtHome
  <1>8. Home(E, ino, i, x)  BY <1>1, <1>2, <1>6, <1>7, HasIsHome
  <1> HIDE DEF x
  <1>9. /\ NameLen[x.head.name] \in Nat \ {0} /\ e \in Nat
        /\ \A m \in 0 .. NameLen[x.head.name] - 1 : e + m \in Idx(T[c])
    BY <1>2, <1>6, SlotsOfEntry, Zenon
  <1>10. T[c] \in Seq(Clusters) /\ \A a, b \in 1 .. Len(T[c]) : T[c][a] = T[c][b] => a = b
    BY <1>1, <1>2 DEF TableOK
  <1>11. LeadsTo(v, f.dir, f.entry, T[c], e, NameLen[x.head.name])
    <2>1. x.head.name = f.name  BY <1>4, <1>6
    <2> HIDE DEF f, c, q, s
    <2>2. \A m \in 0 .. NameLen[f.name] - 1 : Locate(v, f.dir, f.entry + m) = Loc(T[c], e + m)
      BY <1>3, <1>4, <1>9, <2>1
    <2> QED BY <1>9, <1>10, <2>1, <2>2 DEF LeadsTo
  <1> QED BY <1>1, <1>5, <1>6, <1>8, <1>11

\* Of a chain that the table links, only the first cluster is in the descriptor.
LEMMA SameDescriptor ==
  ASSUME NEW v, NEW p, NEW q, Through(v, p, q), p.flags = 1,
         NEW p2, p2.dir = p.dir, p2.flags = 1
  PROVE  Through(v, p2, q)
  BY DEF Through

\* It finds it there still when the chains that change are not the directory's.
LEMMA LeadsStay ==
  ASSUME NEW v, NEW ino, NEW pnd, NEW T, Consistent(v, ino, pnd, T), NEW i, Named(ino, i),
         NEW c, c = ino[ino[i].parent].start, NEW e, NEW n,
         LeadsTo(v, ino[i].dir, ino[i].entry, T[c], e, n),
         NEW w, FatOK(w), NEW used, OthersStay(v, w, used), Of(T[c]) \cap used = {}
  PROVE  LeadsTo(w, ino[i].dir, ino[i].entry, T[c], e, n)
  <1> DEFINE f == ino[i]
             p == ino[i].parent
  <1>1. /\ p \in Inodes /\ c \in DOMAIN T /\ Through(v, ChainOf(ino[p]), T[c])
        /\ f.entry \in Nat /\ Knows(ino, f)
    BY ParentIs
  <1>2. FatOK(v) /\ TableOK(v, T)  BY TableIs DEF Consistent, Catalogue, Good, VolOK
  <1>3. Of(T[c]) \subseteq v.bitmap \ used /\ T[c] \in Seq(Clusters) /\ Len(T[c]) \in Nat
    <2>1. T[c] \in Seq(Clusters) /\ Of(T[c]) \subseteq v.bitmap  BY <1>1, <1>2 DEF TableOK
    <2> QED BY <2>1, LenProperties
  <1>4. /\ e \in Nat /\ n \in Nat
        /\ \A m \in 0 .. n - 1 : e + m \in Idx(T[c]) /\ Locate(v, f.dir, f.entry + m) = Loc(T[c], e + m)
    BY DEF LeadsTo
  <1> SUFFICES ASSUME NEW m \in 0 .. n - 1
               PROVE  Locate(w, f.dir, f.entry + m) = Loc(T[c], e + m)
    BY <1>4 DEF LeadsTo
  <1> DEFINE j == f.entry + m
  <1>5. j \in Nat /\ Locate(v, f.dir, j) = Loc(T[c], e + m) /\ e + m \in Idx(T[c])
    BY <1>1, <1>4
  <1>6. CASE f.dir.flags = 3
    BY <1>5, <1>6 DEF Locate, NthCluster
  <1>7. CASE f.dir.flags = 1
    <2>1. f.dir.dir = ino[p].start /\ ino[p].flags = 1  BY <1>1, <1>7 DEF Knows
    <2>2. Through(v, f.dir, T[c])
      <3> DEFINE a == ChainOf(ino[p])
      <3>1. a.dir = ino[p].start /\ a.flags = ino[p].flags  BY DEF ChainOf, Chain
      <3>2. Through(v, a, T[c])  BY <1>1
      <3> HIDE DEF a
      <3> QED BY <1>7, <2>1, <3>1, <3>2, SameDescriptor
    <2>3. Through(w, f.dir, T[c])  BY <1>3, <2>2 DEF OthersStay
    <2>4. j \in Idx(T[c])
      <3>1. NthCluster(v, f.dir, j \div SlotsPerClu) \in Clusters
        <4>1. Loc(T[c], e + m) \in Clusters \X (0 .. SlotsPerClu - 1)  BY <1>3, <1>5, LocFacts
        <4>2. Locate(v, f.dir, j)[1] \in Clusters  BY <1>5, <4>1
        <4> QED BY <4>2 DEF Locate
      <3>2. \A k \in Nat : k >= Len(T[c]) => NthCluster(v, f.dir, k) \notin Clusters
        BY <1>2, <1>7, <2>2, NthThrough
      <3>3. j \div SlotsPerClu \in Nat /\ \A k \in Nat : j >= k * SlotsPerClu => j \div SlotsPerClu >= k
        BY <1>5, DivMod
      <3> HIDE DEF j
      <3>4. ~(j >= Len(T[c]) * SlotsPerClu)  BY <1>3, <3>1, <3>2, <3>3
      <3>5. Len(T[c]) * SlotsPerClu \in Nat  BY <1>3, VolumeAssumption
      <3> QED BY <1>5, <3>4, <3>5 DEF Idx
    <2>5. Locate(v, f.dir, j) = Loc(T[c], j)  BY <1>2, <2>2, <2>4, SlotIs
    <2>6. Locate(w, f.dir, j) = Loc(T[c], j)  BY <2>3, <2>4, SlotIs
    <2> QED BY <1>5, <2>5, <2>6
  <1> QED BY <1>1, <1>6, <1>7 DEF Knows
-----------------------------------------------------------------------------
(* Steps that are about no name and no cluster: the hint, a name that is   *)
(* looked up, an inode t without a name and without clusters.              *)

QuietStep(v, ino, pnd, T, t, w, jno, pn2) ==
    /\ ChainsSame(v, w) /\ w.slots = v.slots /\ HintTrue(Entries(v, T), w, T)
    /\ t # Root /\ Good(w, jno) /\ Dirs(jno, pn2)
    /\ \A j \in Inodes : j # t => jno[j] = ino[j]
    /\ t \in Inodes => ino[t].st # "linked" /\ jno[t].st # "linked"
    /\ NamesMissing(Entries(v, T), jno, pn2)

LEMMA QuietKeeps ==
  ASSUME NEW v, NEW ino, NEW pnd, NEW T, Consistent(v, ino, pnd, T), NEW t, NEW w, NEW jno, NEW pn2,
         QuietStep(v, ino, pnd, T, t, w, jno, pn2)
  PROVE  Consistent(w, jno, pn2, T) /\ StrangersStay(v, ino, w, jno)
  <1> USE DEF QuietStep
  <1> DEFINE E == Entries(v, T)
             none == [d \in Inodes |-> None]
             L == Lone(E, ino)
  <1>1. /\ Catalogue(E, v, ino, pnd, T) /\ Good(v, ino) /\ Dirs(ino, pnd) /\ NamesTrue(E, ino, pnd, T)
        /\ Ordered(v, T) /\ Root \in Inodes
    BY VolumeAssumption DEF Consistent, Catalogue
  <1>2. Dirs(jno, none)  BY DEF Dirs
  <1>3. ASSUME t \in Inodes PROVE ~Owns(ino[t]) /\ ~Owns(jno[t]) /\ ~Named(ino, t) /\ ~Named(jno, t)
    <2>1. InodeOK(ino[t]) /\ InodeOK(jno[t]) /\ ino[t].st # "linked" /\ jno[t].st # "linked"
      BY <1>1, <1>3 DEF Good
    <2> QED BY <2>1, OwnsIs, FreeOwnsNone DEF Named, Owns
  <1>4. InodesStep(v, ino, pnd, t, jno, none)
    <2>1. NamesStay(ino, jno, t)  BY DEF NamesStay
    <2>2. \A d \in Inodes : IsDirectory(ino[d]) => IsDirectory(jno[d]) /\ jno[d] = ino[d]
      BY DEF IsDirectory
    <2>3. DirsStay(ino, jno, t)  BY <2>2 DEF DirsStay
    <2> QED BY <1>1, <1>2, <2>1, <2>3 DEF InodesStep, Good
  <1>5. NamesStep(E, v, ino, pnd, T, t, {}, {}, jno, none, T)
    <2>1. EntriesStep(E, ino, t, {}, {}, jno, T)  BY <1>3 DEF EntriesStep, Named
    <2>2. TableStep(E, T, {}, {}, T)  BY <1>1 DEF TableStep, NamesTrue, DirsTrue
    <2>3. MissingStep({}, pnd, jno, none)  BY DEF MissingStep
    <2> QED BY <1>4, <2>1, <2>2, <2>3 DEF NamesStep
  <1>6. NamesTrue(E, jno, pn2, T)
    <2>1. (E \ {}) \cup {} = E  OBVIOUS
    <2>2. NamesTrue((E \ {}) \cup {}, jno, none, T)  BY <1>1, <1>5, NamesKept
    <2>3. NamesTrue(E, jno, none, T)  BY <2>1, <2>2
    <2> QED BY <2>3 DEF NamesTrue
  <1>7. Lone(E, jno) = L
    <2>1. ASSUME NEW j \in Inodes \ {Root}, NEW x PROVE Has(jno, j, x) <=> Has(ino, j, x)
      <3>1. CASE j = t  BY <3>1 DEF Has
      <3>2. CASE j # t
        <4>1. jno[j] = ino[j]  BY <3>2
        <4>2. ASSUME ino[j].st = "linked" PROVE jno[ino[j].parent] = ino[ino[j].parent]
          <5>1. Named(ino, j)  BY <4>2 DEF Named
          <5>2. ino[j].parent \in Inodes /\ IsDirectory(ino[ino[j].parent])
            BY <1>1, <1>4, <5>1, ParentStays
          <5> QED BY <5>2 DEF IsDirectory
        <4> QED BY <4>1, <4>2 DEF Has
      <3> QED BY <3>1, <3>2
    <2> QED BY <2>1 DEF Lone
  <1>8. StrangersStay(v, ino, w, jno)
    <2>1. \A i \in Inodes : InodeOK(jno[i]) /\ (Owns(jno[i]) => SameData(ino[i], jno[i]))
      <3> TAKE i \in Inodes
      <3>1. InodeOK(jno[i])  BY DEF Good
      <3>2. CASE i = t  BY <1>3, <3>1, <3>2
      <3>3. CASE i # t  BY <3>1, <3>3 DEF SameData
      <3> QED BY <3>2, <3>3
    <2> QED BY <1>1, <2>1, KeepsChains DEF Keeps, Good
  <1>9. DataSteps(v, ino, w, jno, Root)
    <2>1. OthersStay(v, w, UsedBy(v, ino[Root]))
      BY SameChains DEF OthersStay, ChainsSame
    <2>2. UsedBy(w, jno[Root]) = UsedBy(v, ino[Root])  BY <1>1, SameChains DEF UsedBy
    <2>3. w.bitmap \subseteq (v.bitmap \ UsedBy(v, ino[Root])) \cup UsedBy(w, jno[Root])
      BY <2>2 DEF ChainsSame
    <2>4. \A j \in Inodes : j # Root => SameOwner(ino[j], jno[j])  BY <1>3 DEF SameOwner
    <2> QED BY <1>1, <1>8, <2>1, <2>3, <2>4 DEF DataSteps
  <1>10. TableSteps(v, ino, T, w, jno, T, Root)
    <2>1. Clus(w, jno[Root]) = Clus(v, ino[Root]) /\ jno[Root] = ino[Root]  BY <1>1, SameChains
    <2>2. ChainsTrue(L, v, ino, T)  BY <1>1 DEF Catalogue, DataTrue
    <2> QED BY <1>1, <2>1, <2>2 DEF TableSteps, ChainsTrue, IsDirectory
  <1>11. DataTrue(L, w, jno, T)
    <2>1. L \subseteq E /\ DataTrue(L, v, ino, T)  BY <1>1 DEF Catalogue, Lone
    <2> QED BY <1>1, <1>9, <1>10, <2>1, DataStep
  <1>12. Entries(w, T) = E /\ Ordered(w, T)  BY <1>1, SlotsSame
  <1> QED BY <1>6, <1>7, <1>8, <1>11, <1>12 DEF Consistent, Catalogue

\* The hint alone.
LEMMA HintChanges ==
  ASSUME NEW v, NEW ino, NEW pnd, NEW T, Consistent(v, ino, pnd, T), NEW w, SameFat(v, w),
         w.slots = v.slots, HintTrue(Entries(v, T), w, T)
  PROVE  Consistent(w, ino, pnd, T) /\ StrangersStay(v, ino, w, ino)
  <1>1. Good(v, ino) /\ Dirs(ino, pnd) /\ NamesMissing(Entries(v, T), ino, pnd)
    BY DEF Consistent, Catalogue, NamesTrue
  <1>2. ChainsSame(v, w)  BY <1>1, SameFatChains DEF Good
  <1>3. Good(w, ino)  BY <1>1, <1>2, VolumeKeeps DEF Keeps
  <1>4. None # Root  BY NoneAssumption, VolumeAssumption
  <1>5. QuietStep(v, ino, pnd, T, None, w, ino, pnd)
    BY <1>1, <1>2, <1>3, <1>4, NoneAssumption DEF QuietStep
  <1> QED BY <1>5, QuietKeeps
-----------------------------------------------------------------------------
(* The entry of an inode is read and written where the inode knows it, also *)
(* after clusters were allocated for it (w), those of its directory aside.  *)

AfterGrowth(v, w, used) ==
    /\ VolOK(w) /\ w.slots = v.slots /\ v.bitmap \subseteq w.bitmap /\ OthersStay(v, w, used)

LEMMA HomeEntry ==
  ASSUME NEW v, NEW ino, NEW pnd, NEW T, Consistent(v, ino, pnd, T), NEW i, Named(ino, i),
         AtHome(v, ino, i), NEW w, NEW used, AfterGrowth(v, w, used),
         Of(T[ino[ino[i].parent].start]) \cap used = {}
  PROVE  \E x \in Entries(v, T) :
            LET f == ino[i]
                n == NameLen[x.head.name]
            IN /\ Home(Entries(v, T), ino, i, x) /\ x.dir \in DOMAIN T /\ x.head \in Heads
               /\ x.dir = ino[f.parent].start /\ x.at \in HeadsAt(View(v, T[x.dir]))
               /\ LeadsTo(w, f.dir, f.entry, T[x.dir], x.at, n)
               /\ Slot(w, f.dir, f.entry) = x.head /\ EntrySet(w, f.dir, f.entry)
               /\ EntryLength(w, f.dir, f.entry) = n /\ n \in Nat \ {0}
               /\ Locate(w, f.dir, f.entry)[1] \in Clusters /\ f.entry \in Nat
               /\ \A h \in Heads : h.name = x.head.name =>
                     Rewritten(v, PutSlots(w, f.dir, f.entry, <<h>>), T, x.dir, x.at,
                               {EntryAt(x.dir, x.at, h)})
  <1> DEFINE f == ino[i]
             E == Entries(v, T)
  <1>1. PICK x \in E :
            /\ Home(E, ino, i, x) /\ x.dir \in DOMAIN T
            /\ x.dir = ino[f.parent].start /\ x.at \in HeadsAt(View(v, T[x.dir]))
            /\ LeadsTo(v, f.dir, f.entry, T[x.dir], x.at, NameLen[x.head.name])
    BY AtHomeIs
  <1> DEFINE q == T[x.dir]
             n == NameLen[x.head.name]
  <1>2. TableOK(v, T) /\ Ordered(v, T)  BY TableIs DEF Consistent, Catalogue
  <1>3. VolOK(w) /\ FatOK(w) /\ TableOK(w, T) /\ Ordered(w, T) /\ Entries(w, T) = E
        /\ View(w, q) = View(v, q)
    BY <1>2, SlotsSame DEF AfterGrowth, TableOK, VolOK
  <1>4. LeadsTo(w, f.dir, f.entry, q, x.at, n)
    BY <1>1, <1>3, LeadsStay, Zenon DEF AfterGrowth
  <1>5. /\ f.entry \in Nat /\ InOrder(View(w, q)) /\ x.head \in Heads
        /\ View(w, q)[x.at] = x.head /\ x.at \in HeadsAt(View(w, q))
    <2>1. f.entry \in Nat  BY ParentIs
    <2>2. InOrder(View(w, q))  BY <1>1, <1>3 DEF Ordered
    <2> QED BY <1>1, <1>2, <1>3, <2>1, <2>2, EntryFacts
  <1>6. IsHead(View(w, q)[x.at]) /\ x.at \in DOMAIN View(w, q)  BY <1>5 DEF HeadsAt
  <1>7. /\ n \in Nat \ {0} /\ Slot(w, f.dir, f.entry) = View(w, q)[x.at] /\ EntrySet(w, f.dir, f.entry)
        /\ EntryLength(w, f.dir, f.entry) = n /\ Locate(w, f.dir, f.entry)[1] \in Clusters
    <2>1. n = NameLen[View(w, q)[x.at].name] /\ f.entry \in Int  BY <1>5
    <2> HIDE DEF q, n, f
    <2> QED BY <1>4, <1>5, <1>6, <2>1, WholeEntry
  <1>8. ASSUME NEW h \in Heads, h.name = x.head.name
        PROVE  Rewritten(v, PutSlots(w, f.dir, f.entry, <<h>>), T, x.dir, x.at, {EntryAt(x.dir, x.at, h)})
    <2>1. f.entry \in Int /\ n = NameLen[View(w, T[x.dir])[x.at].name] /\ n = NameLen[h.name]
      BY <1>5, <1>8
    <2> DEFINE z == PutSlots(w, f.dir, f.entry, <<h>>)
    <2>2. Rewritten(w, z, T, x.dir, x.at, {EntryAt(x.dir, x.at, h)})
      <3> HIDE DEF n, f, z
      <3>1. x.at \in HeadsAt(View(w, T[x.dir])) /\ LeadsTo(w, f.dir, f.entry, T[x.dir], x.at, n)
        BY <1>4, <1>5
      <3> QED BY <1>1, <1>3, <2>1, <3>1, WriteHead, Zenon DEF z
    <2>3. \A c : View(w, T[c]) = View(v, T[c])  BY SlotsSame DEF AfterGrowth
    <2> HIDE DEF z
    <2> QED BY <1>3, <2>2, <2>3 DEF Rewritten, z
  <1> QED BY <1>1, <1>4, <1>5, <1>7, <1>8, Zenon

LEMMA HintSame ==
  ASSUME NEW E, NEW v, NEW T, HintTrue(E, v, T), NEW w, w.hint = v.hint, w.slots = v.slots,
         ChainsSame(v, w)
  PROVE  HintTrue(E, w, T)
  <1>1. \A q : View(w, q) = View(v, q)  BY SlotsSame
  <1>2. \A p, q : Through(w, p, q) <=> Through(v, p, q)  BY SameChains
  <1> QED BY <1>1, <1>2 DEF HintTrue

LEMMA ConsistentIs ==
  ASSUME NEW T, Consistent(vol, inode, pending, T)
  PROVE  /\ Inv /\ Good(vol, inode) /\ Dirs(inode, pending) /\ VolOK(vol) /\ Counted(vol)
         /\ NamesTrue(Entries(vol, T), inode, pending, T) /\ DOMAIN inode = Inodes
         /\ HintTrue(Entries(vol, T), vol, T) /\ Root \in Inodes /\ TableOK(vol, T)
         /\ \A i \in Inodes : InodeOK(inode[i])
  <1> QED BY VolumeAssumption, TableIs DEF Consistent, Catalogue, Inv, Good

\* exfat_write_inode
LEMMA WriteInodeConsistent ==
  ASSUME NEW T, Consistent(vol, inode, pending, T), faults' = {}, NEW i \in Inodes, WriteInode(i)
  PROVE  Consistent(vol', inode', pending', T)
  <1> DEFINE f == inode[i]
             E == Entries(vol, T)
  <1>1. /\ Inv /\ Good(vol, inode) /\ Dirs(inode, pending) /\ VolOK(vol) /\ Counted(vol)
        /\ NamesTrue(E, inode, pending, T) /\ DOMAIN inode = Inodes /\ HintTrue(E, vol, T)
        /\ TableOK(vol, T) /\ InodeOK(f)
    BY ConsistentIs
  <1>2. Keeps(vol, inode, vol', inode') /\ Dirs(inode', pending')  BY <1>1, WriteInodeKeeps
  <1>3. /\ i # Root /\ f.st # "free" /\ inode' = [inode EXCEPT ![i].dirty = FALSE]
        /\ pending' = pending
    BY DEF WriteInode
  <1>4. f.st \in {"linked", "orphan"} /\ DOMAIN f = {"st", "type", "name", "parent", "dir", "entry",
           "flags", "start", "size", "hoff", "hclu", "dirty"} /\ f.size \in Nat
    BY <1>1, <1>3 DEF InodeOK, Free
  <1>5. EntrySet(vol, f.dir, f.entry) => Strays(inode, {i}) = {}  BY Zenon DEF WriteInode
  <1>6. ~EntrySet(vol, f.dir, f.entry) => ~Linked(i) /\ vol' = vol
    BY Zenon DEF WriteInode, Misses
  <1>7. CASE EntrySet(vol, f.dir, f.entry)
    <2>1. AtHome(vol, inode, i)  BY <1>5, <1>7, Zenon DEF Strays
    <2>2. Named(inode, i)  BY <1>3, <2>1 DEF AtHome, Named
    <2>3. AfterGrowth(vol, vol, {})  BY <1>1 DEF AfterGrowth, OthersStay
    <2>4. PICK x \in E :
            /\ Home(E, inode, i, x) /\ x.head \in Heads
            /\ Slot(vol, f.dir, f.entry) = x.head
            /\ \A h \in Heads : h.name = x.head.name =>
                     Rewritten(vol, PutSlots(vol, f.dir, f.entry, <<h>>), T, x.dir, x.at,
                               {EntryAt(x.dir, x.at, h)})
      BY <2>1, <2>2, <2>3, HomeEntry
    <2> DEFINE h == [x.head EXCEPT !.size = f.size]
               y == EntryAt(x.dir, x.at, h)
    <2>5. vol' = PutSlots(vol, f.dir, f.entry, <<h>>)  BY <1>7, <2>4 DEF WriteInode
    <2>6. /\ h \in Heads /\ h.name = x.head.name /\ h.type = x.head.type
          /\ h.clu = x.head.clu /\ h.flags = x.head.flags /\ h.size = f.size
      BY <1>4, <2>4 DEF Heads
    <2>7. Rewritten(vol, vol', T, x.dir, x.at, {y})  BY <2>4, <2>5, <2>6, Zenon
    <2>8. SameFat(vol, vol') /\ vol'.hint = vol.hint  BY <1>1, <2>5, PutSlotsKeeps
    <2>9. ChainsSame(vol, vol')  BY <1>1, <2>8, SameFatChains
    <2>10. /\ inode'[i].st = f.st /\ inode'[i].type = f.type /\ inode'[i].name = f.name
           /\ inode'[i].parent = f.parent /\ inode'[i].entry = f.entry /\ inode'[i].dir = f.dir
           /\ inode'[i].start = f.start /\ inode'[i].size = f.size /\ inode'[i].flags = f.flags
           /\ \A j \in Inodes : j # i => inode'[j] = inode[j]
      BY <1>1, <1>3, <1>4
    <2>11. Agrees(inode'[i], h)
      <3>1. Agrees(f, x.head)  BY <2>4 DEF Home
      <3>2. f.st = "linked"  BY <2>2 DEF Named
      <3>3. f.start = EOC => f.size = 0  BY <1>1, <1>4, <3>2, OwnsIs, FreeOwnsNone
      <3> HIDE DEF h
      <3> QED BY <2>6, <2>10, <3>1, <3>3 DEF Agrees
    <2>12. UsedBy(vol', inode'[i]) = UsedBy(vol, f) /\ Clus(vol', inode'[i]) = Clus(vol, f)
      <3>1. ChainOf(inode'[i]) = ChainOf(f) /\ (Owns(inode'[i]) <=> Owns(f))
        BY <2>10 DEF ChainOf, Owns
      <3>2. \A g : Clus(vol', g) = Clus(vol, g)  BY <2>9, SameChains
      <3> QED BY <3>1, <3>2 DEF UsedBy, Clus
    <2>13. OthersStay(vol, vol', {})  BY <2>9, SameChains DEF OthersStay, ChainsSame
    <2>14. vol'.bitmap = vol.bitmap  BY <2>9 DEF ChainsSame
    <2>15. y.dir = x.dir /\ y.at = x.at /\ y.head = h  BY DEF EntryAt
    <2> HIDE DEF h, y
    <2>16. EntryWritten(vol, inode, pending, T, i, {}, x, vol', y, inode')
      BY <1>2, <2>2, <2>4, <2>6, <2>7, <2>8, <2>10, <2>11, <2>12, <2>13, <2>14, <2>15
      DEF EntryWritten, Keeps, Named
    <2> QED BY <1>3, <2>16, EntryWrittenKeeps
  <1>8. CASE ~EntrySet(vol, f.dir, f.entry)
    <2>1. vol' = vol /\ f.st # "linked" /\ inode'[i].st = f.st /\ \A j \in Inodes : j # i => inode'[j] = inode[j]
      BY <1>1, <1>3, <1>4, <1>6, <1>8 DEF Linked
    <2>2. ChainsSame(vol, vol)  BY <1>1 DEF ChainsSame
    <2>3. NamesMissing(E, inode', pending)
      <3>1. \A d \in Inodes : pending[d] # None => inode'[d] = inode[d]  BY <1>1, <2>1 DEF Dirs
      <3> QED BY <1>1, <3>1 DEF NamesTrue, NamesMissing
    <2>4. QuietStep(vol, inode, pending, T, i, vol', inode', pending')
      BY <1>1, <1>2, <1>3, <2>1, <2>2, <2>3 DEF QuietStep, Keeps
    <2> QED BY <2>4, QuietKeeps
  <1> QED BY <1>7, <1>8
\* A lookup in vain that leads to nothing.
LEMMA AbandonConsistent ==
  ASSUME NEW T, Consistent(vol, inode, pending, T), NEW d \in Inodes, Abandon(d)
  PROVE  Consistent(vol', inode', pending', T)
  <1>1. /\ Inv /\ Good(vol, inode) /\ Dirs(inode, pending) /\ VolOK(vol) /\ Counted(vol)
        /\ NamesTrue(Entries(vol, T), inode, pending, T) /\ HintTrue(Entries(vol, T), vol, T)
    BY ConsistentIs
  <1>2. Keeps(vol, inode, vol', inode') /\ Dirs(inode', pending')  BY <1>1, AbandonKeeps
  <1>3. vol' = vol /\ inode' = inode /\ pending' = [pending EXCEPT ![d] = None]  BY DEF Abandon
  <1>4. NamesMissing(Entries(vol, T), inode', pending')
    BY <1>1, <1>3 DEF NamesTrue, NamesMissing, Dirs
  <1>5. None # Root /\ None \notin Inodes  BY NoneAssumption, VolumeAssumption
  <1>6. QuietStep(vol, inode, pending, T, None, vol', inode', pending')
    BY <1>1, <1>2, <1>3, <1>4, <1>5 DEF QuietStep, ChainsSame, Keeps
  <1> QED BY <1>6, QuietKeeps

\* exfat_statfs
LEMMA StatfsConsistent ==
  ASSUME NEW T, Consistent(vol, inode, pending, T), Statfs
  PROVE  Consistent(vol', inode', pending', T)
  <1>1. /\ Inv /\ Good(vol, inode) /\ Dirs(inode, pending) /\ VolOK(vol) /\ Counted(vol)
        /\ NamesTrue(Entries(vol, T), inode, pending, T) /\ HintTrue(Entries(vol, T), vol, T)
    BY ConsistentIs
  <1>2. Keeps(vol, inode, vol', inode') /\ Dirs(inode', pending')  BY <1>1, StatfsKeeps
  <1>3. /\ inode' = inode /\ pending' = pending /\ vol'.slots = vol.slots /\ vol'.hint = vol.hint
        /\ vol'.bitmap = vol.bitmap /\ vol'.fat = vol.fat
    BY <1>1 DEF Statfs
  <1>4. ChainsSame(vol, vol')  BY <1>2, <1>3 DEF ChainsSame, Keeps, Good
  <1>5. HintTrue(Entries(vol, T), vol', T)  BY <1>1, <1>3, <1>4, HintSame
  <1>6. NamesMissing(Entries(vol, T), inode', pending')  BY <1>1, <1>3 DEF NamesTrue
  <1>7. None # Root /\ None \notin Inodes  BY NoneAssumption, VolumeAssumption
  <1>8. QuietStep(vol, inode, pending, T, None, vol', inode', pending')
    BY <1>2, <1>3, <1>4, <1>5, <1>6, <1>7 DEF QuietStep, Keeps
  <1> QED BY <1>8, QuietKeeps

\* exfat_evict_inode, of a file that is linked: its entry says what the inode knew.
LEMMA LetGoConsistent ==
  ASSUME NEW T, Consistent(vol, inode, pending, T), NEW i \in Inodes, Evict(i), Linked(i)
  PROVE  Consistent(vol', inode', pending', T)
  <1> DEFINE f == inode[i]
             E == Entries(vol, T)
             L == Lone(E, inode)
  <1>1. /\ Inv /\ Good(vol, inode) /\ Dirs(inode, pending) /\ VolOK(vol) /\ Counted(vol)
        /\ NamesTrue(E, inode, pending, T) /\ DOMAIN inode = Inodes /\ HintTrue(E, vol, T)
        /\ TableOK(vol, T) /\ InodeOK(f)
    BY ConsistentIs
  <1>2. Keeps(vol, inode, vol', inode') /\ Dirs(inode', pending')  BY <1>1, EvictKeeps
  <1>3. /\ i # Root /\ f.st = "linked" /\ ~f.dirty /\ pending[i] = None
        /\ inode' = [inode EXCEPT ![i] = Free]
        /\ vol' = vol /\ pending' = pending
        /\ \A j \in Inodes : inode[j].st # "free" => inode[j].parent # i
    BY DEF Evict, Linked
  <1>4. inode'[i] = Free /\ \A j \in Inodes : j # i => inode'[j] = inode[j]  BY <1>1, <1>3
  <1>5. Named(inode, i) /\ ~Named(inode', i) /\ ~Owns(inode'[i])
    BY <1>3, <1>4, FreeOwnsNone DEF Named
  <1>6. PICK x \in E : Home(E, inode, i, x) /\ Has(inode, i, x)
    <2>1. i \in Inodes \ {Root}  BY <1>3
    <2> QED BY <1>1, <1>3, <2>1, OwnEntry
  <1>7. Agrees(f, x.head) /\ x.head.size = f.size  BY <1>3, <1>6 DEF Home, Agrees
  <1>8. /\ Owns(f) => f.size \in Nat \ {0}
        /\ ~Owns(f) => f.size = 0 /\ f.type = "file"
        /\ HasClusters(x) <=> Owns(f)
    <2>1. f # Free  BY <1>3, FreeOwnsNone
    <2>2. f.start = EOC => f.size = 0 /\ f.type = "file"  BY <1>1, <1>3, <2>1, OwnsIs
    <2>3. Owns(f) <=> f.start # EOC  BY <1>1, <2>1, OwnsIs
    <2>4. Owns(f) => f.size \in Nat \ {0}
      <3> HAVE Owns(f)
      <3>1. Whole(vol, f, Clus(vol, f))  BY <1>1 DEF Good, Apart
      <3> QED BY <3>1, LenProperties DEF Whole, Through
    <2>5. x.head.type = f.type  BY <1>7 DEF Agrees
    <2> QED BY <1>7, <2>2, <2>3, <2>4, <2>5 DEF HasClusters
  <1>9. NamesStep(E, vol, inode, pending, T, i, {}, {}, inode', pending', T)
    <2>1. NamesStay(inode, inode', i)  BY <1>4 DEF NamesStay
    <2>2. DirsStay(inode, inode', i)
      <3> SUFFICES ASSUME NEW d \in Inodes, IsDirectory(inode[d])
                   PROVE  \/ /\ IsDirectory(inode'[d]) /\ inode'[d].start = inode[d].start
                             /\ inode[d].flags = 1 => inode'[d].flags = 1
                          \/ d = i /\ ~IsDirectory(inode'[d])
                             /\ \A j \in Inodes \ {Root} : Named(inode, j) => inode[j].parent # i
        BY DEF DirsStay
      <3>1. CASE d # i  BY <1>4, <3>1
      <3>2. CASE d = i
        <4>1. ~IsDirectory(inode'[d])  BY <1>4, <3>2, FreeOwnsNone DEF IsDirectory
        <4>2. \A j \in Inodes \ {Root} : Named(inode, j) => inode[j].parent # i
          BY <1>3 DEF Named
        <4> QED BY <3>2, <4>1, <4>2
      <3> QED BY <3>1, <3>2
    <2>3. InodesStep(vol, inode, pending, i, inode', pending')
      BY <1>1, <1>2, <1>3, <2>1, <2>2 DEF InodesStep, Keeps, Good
    <2>4. EntriesStep(E, inode, i, {}, {}, inode', T)  BY <1>5 DEF EntriesStep
    <2>5. TableStep(E, T, {}, {}, T)  BY <1>1 DEF TableStep, NamesTrue, DirsTrue
    <2>6. MissingStep({}, pending, inode', pending')  BY <1>3 DEF MissingStep
    <2> QED BY <2>3, <2>4, <2>5, <2>6 DEF NamesStep
  <1>10. (E \ {}) \cup {} = E  OBVIOUS
  <1>11. NamesTrue(E, inode', pending', T)
    <2>1. NamesTrue((E \ {}) \cup {}, inode', pending', T)  BY <1>1, <1>9, NamesKept
    <2> QED BY <1>10, <2>1
  <1>12. Lone(E, inode') = IF HasClusters(x) THEN L \cup {x} ELSE L
    <2>1. Lone((E \ {}) \cup {}, inode') = IF HasClusters(x) THEN L \cup {x} ELSE L
      BY <1>1, <1>5, <1>6, <1>9, LoneLetGo
    <2> QED BY <1>10, <2>1
  <1>13. DataTrue(L, vol, inode, T) /\ L \subseteq E  BY DEF Consistent, Catalogue, Lone
  <1>14. DataTrue(Lone(E, inode'), vol', inode', T)
    <2>1. CASE Owns(f)
      <3>1. HeadChain(x.head) = ChainOf(f) /\ x.head.type = f.type
        BY <1>7, <2>1 DEF HeadChain, ChainOf, Agrees, Owns
      <3>2. LetsGo(vol, inode, inode', i, x, T)
        BY <1>1, <1>2, <1>3, <1>4, <1>5, <2>1, <3>1 DEF LetsGo, Keeps
      <3>3. DataTrue(L \cup {x}, vol, inode', T)  BY <1>13, <3>2, LetGoData
      <3> QED BY <1>3, <1>8, <1>12, <2>1, <3>3, Zenon
    <2>2. CASE ~Owns(f)
      <3>1. DataSteps(vol, inode, vol', inode', i)
        <4>1. OthersStay(vol, vol', UsedBy(vol, f))  BY <1>3 DEF OthersStay
        <4>2. \A j \in Inodes : j # i => SameOwner(inode[j], inode'[j])  BY <1>4 DEF SameOwner
        <4>3. vol'.bitmap \subseteq (vol.bitmap \ UsedBy(vol, f)) \cup UsedBy(vol', inode'[i])
          BY <1>3, <2>2 DEF UsedBy
        <4> QED BY <1>1, <1>2, <4>1, <4>2, <4>3 DEF DataSteps, Keeps
      <3>2. TableSteps(vol, inode, T, vol', inode', T, i)
        BY <1>4, FreeOwnsNone DEF TableSteps, IsDirectory
      <3>3. DataTrue(L, vol', inode', T)  BY <1>1, <1>13, <3>1, <3>2, DataStep
      <3> QED BY <1>8, <1>12, <2>2, <3>3
    <2> QED BY <2>1, <2>2
  <1> QED BY <1>1, <1>2, <1>3, <1>11, <1>14 DEF Consistent, Catalogue, Keeps

LEMMA EvictConsistent ==
  ASSUME NEW T, Consistent(vol, inode, pending, T), NEW i \in Inodes, Evict(i)
  PROVE  Consistent(vol', inode', pending', T)
  <1>1. /\ Inv /\ Good(vol, inode) /\ Dirs(inode, pending) /\ VolOK(vol) /\ Counted(vol)
        /\ NamesTrue(Entries(vol, T), inode, pending, T) /\ HintTrue(Entries(vol, T), vol, T)
        /\ DOMAIN inode = Inodes
    BY ConsistentIs
  <1>2. Keeps(vol, inode, vol', inode') /\ Dirs(inode', pending')  BY <1>1, EvictKeeps
  <1>3. i # Root /\ inode' = [inode EXCEPT ![i] = Free] /\ vol' = vol /\ pending' = pending
        /\ pending[i] = None
    BY DEF Evict
  <1>4. CASE ~Linked(i)
    <2>1. inode'[i] = Free /\ \A j \in Inodes : j # i => inode'[j] = inode[j]  BY <1>1, <1>3
    <2>2. inode[i].st # "linked" /\ inode'[i].st # "linked"
      BY <1>4, <2>1, FreeOwnsNone DEF Linked
    <2>3. NamesMissing(Entries(vol, T), inode', pending')
      BY <1>1, <1>3, <2>1 DEF NamesTrue, NamesMissing
    <2>4. QuietStep(vol, inode, pending, T, i, vol', inode', pending')
      BY <1>1, <1>2, <1>3, <2>1, <2>2, <2>3 DEF QuietStep, ChainsSame, Keeps
    <2> QED BY <2>4, QuietKeeps
  <1> QED BY <1>4, LetGoConsistent
-----------------------------------------------------------------------------
(* exfat_setattr: the entry is told before the clusters are given back.    *)

\* What is given back holds data of nobody; other slots stay.
LEMMA ReleaseSlots ==
  ASSUME NEW v, VolOK(v), SlotsOK(v), NEW p, NEW w, w = Release(v, p)
  PROVE  SlotsOK(w) /\ w.hint = v.hint /\ SlotsStay(v, w, v.bitmap \ w.bitmap)
  <1> DEFINE r == FreeCluster(v, p)
             b == Block(v.bitmap \ r.bitmap, Data)
  <1>1. r.hint = v.hint /\ r.slots = v.slots /\ Fields \subseteq DOMAIN r
    BY DEF FreeCluster, VolOK, Fields
  <1>2. w = [r EXCEPT !.slots = Over(b, @)]  BY DEF Release
  <1> HIDE DEF r
  <1>3. w.slots = Over(b, v.slots) /\ w.hint = v.hint /\ w.bitmap = r.bitmap
    BY <1>1, <1>2 DEF Fields
  <1>4. v.bitmap \subseteq Clusters  BY DEF VolOK, FatOK
  <1>5. DOMAIN b = (v.bitmap \ w.bitmap) \X (0 .. SlotsPerClu - 1)  BY <1>3 DEF Block
  <1>6. DOMAIN b \subseteq DOMAIN v.slots  BY <1>4, <1>5 DEF SlotsOK
  <1>7. DOMAIN w.slots = DOMAIN v.slots /\ \A loc \in DOMAIN v.slots : loc \notin DOMAIN b => w.slots[loc] = v.slots[loc]
    BY <1>3, <1>6 DEF Over
  <1>8. SlotsOK(w)  BY <1>7 DEF SlotsOK
  <1>9. \A loc \in DOMAIN v.slots : loc[1] \notin v.bitmap \ w.bitmap => loc \notin DOMAIN b
    BY <1>5
  <1> QED BY <1>3, <1>7, <1>8, <1>9 DEF SlotsStay

\* Slots of no directory do not matter.
LEMMA RewrittenElsewhere ==
  ASSUME NEW v, NEW w, NEW T, NEW c, NEW e, NEW Y, Rewritten(v, w, T, c, e, Y), TableOK(v, T),
         NEW z, SlotsOK(z), NEW C, SlotsStay(w, z, C), \A d \in DOMAIN T : Of(T[d]) \cap C = {}
  PROVE  Rewritten(v, z, T, c, e, Y)
  <1>1. SlotsOK(w)  BY DEF Rewritten, Ordered
  <1>2. \A d \in DOMAIN T : View(z, T[d]) = View(w, T[d])
    <2> TAKE d \in DOMAIN T
    <2>1. T[d] \in Seq(Clusters)  BY DEF TableOK
    <2> QED BY <1>1, <2>1, ViewsElsewhere
  <1>3. Entries(z, T) = Entries(w, T)  BY <1>2, SameViews
  <1>4. Ordered(z, T)  BY <1>2 DEF Ordered, Rewritten
  <1> QED BY <1>2, <1>3, <1>4 DEF Rewritten

\* The slots of no directory are those of an inode that is none.
LEMMA FilesElsewhere ==
  ASSUME NEW v, NEW ino, NEW pnd, NEW T, Consistent(v, ino, pnd, T), NEW i \in Inodes,
         ~IsDirectory(ino[i])
  PROVE  \A d \in DOMAIN T : Of(T[d]) \cap UsedBy(v, ino[i]) = {}
  <1> TAKE d \in DOMAIN T
  <1>1. Catalogue(Entries(v, T), v, ino, pnd, T)  BY DEF Consistent
  <1> QED BY <1>1, DirectoryApart

LEMMA TruncateConsistent ==
  ASSUME NEW T, Consistent(vol, inode, pending, T), faults' = {}, NEW i \in Inodes, NEW size \in Nat,
         Truncate(i, size)
  PROVE  Consistent(vol', inode', pending', T)
  <1> DEFINE f == inode[i]
             E == Entries(vol, T)
             q == Clus(vol, f)
  <1>1. /\ Inv /\ Good(vol, inode) /\ Dirs(inode, pending) /\ VolOK(vol) /\ Counted(vol)
        /\ NamesTrue(E, inode, pending, T) /\ DOMAIN inode = Inodes /\ HintTrue(E, vol, T)
        /\ TableOK(vol, T) /\ InodeOK(f)
    BY ConsistentIs
  <1>2. Keeps(vol, inode, vol', inode') /\ Dirs(inode', pending')  BY <1>1, TruncateKeeps
  <1>3. /\ f.st # "free" /\ f.type = "file" /\ size < f.size /\ pending' = pending /\ i # Root
    BY <1>1 DEF Truncate, HasData, Dirs
  <1>4. /\ f.st \in {"linked", "orphan"} /\ f.size \in Nat
        /\ DOMAIN f = {"st", "type", "name", "parent", "dir", "entry",
                       "flags", "start", "size", "hoff", "hclu", "dirty"}
    BY <1>1, <1>3 DEF InodeOK, Free
  <1>5. EntrySet(vol, f.dir, f.entry) => Strays(inode, {i}) = {}  BY Zenon DEF Truncate
  <1>6. ~EntrySet(vol, f.dir, f.entry) => ~Linked(i) /\ vol' = vol
    BY Zenon DEF Truncate, Misses
  <1>7. /\ \A j \in Inodes : j # i => inode'[j] = inode[j]
        /\ inode'[i].st = f.st /\ inode'[i].type = f.type /\ inode'[i].name = f.name
        /\ inode'[i].parent = f.parent /\ inode'[i].entry = f.entry /\ inode'[i].dir = f.dir
        /\ inode'[i].size = size /\ inode'[i].dirty
        /\ inode'[i].start = IF size = 0 THEN EOC ELSE f.start
        /\ inode'[i].flags = IF size = 0 THEN 3 ELSE f.flags
    <2> DEFINE g == [f EXCEPT !.size = size, !.dirty = TRUE,
                              !.flags = IF size = 0 THEN 3 ELSE @,
                              !.start = IF size = 0 THEN EOC ELSE @]
    <2>1. inode' = [inode EXCEPT ![i] = g] \/ inode' = [inode EXCEPT ![i] = [g EXCEPT !.hoff = -1, !.hclu = EOC]]
      BY DEF Truncate
    <2>2. /\ g.st = f.st /\ g.type = f.type /\ g.name = f.name /\ g.parent = f.parent
          /\ g.entry = f.entry /\ g.dir = f.dir /\ g.size = size /\ g.dirty
          /\ g.start = IF size = 0 THEN EOC ELSE f.start
          /\ g.flags = IF size = 0 THEN 3 ELSE f.flags
          /\ DOMAIN g = DOMAIN f
      BY <1>4
    <2> HIDE DEF g
    <2> QED BY <1>1, <1>4, <2>1, <2>2, ZenonT(60)
  <1>8. CASE EntrySet(vol, f.dir, f.entry)
    <2>1. AtHome(vol, inode, i)  BY <1>5, <1>8, Zenon DEF Strays
    <2>2. Named(inode, i) /\ f.st = "linked"  BY <1>3, <2>1 DEF AtHome, Named
    <2>3. AfterGrowth(vol, vol, {})  BY <1>1 DEF AfterGrowth, OthersStay
    <2>4. PICK x \in E :
            /\ Home(E, inode, i, x) /\ x.head \in Heads /\ x.dir \in DOMAIN T
            /\ Slot(vol, f.dir, f.entry) = x.head
            /\ \A h \in Heads : h.name = x.head.name =>
                     Rewritten(vol, PutSlots(vol, f.dir, f.entry, <<h>>), T, x.dir, x.at,
                               {EntryAt(x.dir, x.at, h)})
      BY <2>1, <2>2, <2>3, HomeEntry, SMTT(60)
    <2> DEFINE h == IF size = 0 THEN [x.head EXCEPT !.size = 0, !.flags = 1, !.clu = Nil]
                    ELSE [x.head EXCEPT !.size = size]
               told == PutSlots(vol, f.dir, f.entry, <<h>>)
               y == EntryAt(x.dir, x.at, h)
    <2>5. \E z, cut : /\ vol' = Release(z, cut)
                      /\ z = told \/ \E l : z = [told EXCEPT !.fat[l] = EOC]
      BY <1>8, <2>4 DEF Truncate
    <2>6. /\ h \in Heads /\ h.name = x.head.name /\ h.type = x.head.type /\ h.size = size
          /\ size # 0 => h.clu = x.head.clu /\ h.flags = x.head.flags
      BY <2>4, Zenon DEF Heads
    <2>7. Rewritten(vol, told, T, x.dir, x.at, {y})  BY <2>4, <2>6, Zenon
    <2>8. SameFat(vol, told) /\ told.hint = vol.hint /\ VolOK(told)
      BY <1>1, PutSlotsKeeps
    <2>9. y.dir = x.dir /\ y.at = x.at /\ y.head = h  BY DEF EntryAt
    <2> HIDE DEF told, h, y
    <2>10. Owns(f) /\ f.start # EOC
      <3>1. f # Free /\ f.size # 0  BY <1>3, <1>4, FreeOwnsNone
      <3> QED BY <1>1, <2>2, <3>1, OwnsIs
    <2>11. Whole(vol, f, q) /\ UsedBy(vol, f) = Of(q)  BY <1>1, <2>10 DEF Good, Apart, UsedBy
    <2> HIDE DEF q
    <2>12. /\ Through(vol, ChainOf(f), q) /\ Of(q) \subseteq vol.bitmap
           /\ f.size \in 1 .. Len(q) /\ Len(q) \in Nat /\ f.size <= Len(q) /\ q \in Seq(Clusters)
      <3>1. Through(vol, ChainOf(f), q) /\ Of(q) \subseteq vol.bitmap /\ f.size \in 1 .. Len(q)
        BY <2>11 DEF Whole
      <3>2. Len(q) \in Nat  BY <3>1, RunEnd
      <3> QED BY <3>1, <3>2 DEF Through
    <2>13. /\ vol'.bitmap = vol.bitmap \ {q[k] : k \in size + 1 .. Len(q)}
           /\ size > 0 => Through(vol', ChainOf(inode'[i]), SubSeq(q, 1, size))
           /\ VolOK(vol') /\ OthersStay(vol, vol', Of(q))
      <3>1. FileOK(f)  BY <1>1, <1>3, FreeOwnsNone, OwnsIs
      <3> QED BY <1>1, <1>8, <2>12, <3>1, TruncateFreesTheRest
    <2>14. /\ Rewritten(vol, vol', T, x.dir, x.at, {y}) /\ vol'.hint = vol.hint
      <3>1. PICK z, cut : vol' = Release(z, cut) /\ (z = told \/ \E l : z = [told EXCEPT !.fat[l] = EOC])
        BY <2>5
      <3>2. z.slots = told.slots /\ z.hint = told.hint /\ z.bitmap = told.bitmap
        BY <2>8, <3>1 DEF VolOK, Fields
      <3>3. SlotsOK(z) /\ z.bitmap = vol.bitmap
        BY <2>7, <2>8, <3>2 DEF Rewritten, Ordered, SlotsOK, SameFat, SameClusters
      <3>4. VolOK(z)
        <4>1. CASE z = told  BY <2>8, <4>1
        <4>2. CASE \E l : z = [told EXCEPT !.fat[l] = EOC]
          BY <2>8, <4>2, Zenon DEF VolOK, FatOK, Fields
        <4> QED BY <3>1, <4>1, <4>2
      <3>5. PICK w : w = vol'  OBVIOUS
      <3>6. SlotsOK(w) /\ w.hint = z.hint /\ SlotsStay(z, w, z.bitmap \ w.bitmap)
        BY <3>1, <3>3, <3>4, <3>5, ReleaseSlots
      <3>7. z.bitmap \ w.bitmap \subseteq UsedBy(vol, f)  BY <2>11, <2>13, <3>3, <3>5 DEF Of
      <3>8. \A d \in DOMAIN T : Of(T[d]) \cap (z.bitmap \ w.bitmap) = {}
        <4>1. ~IsDirectory(f)  BY <1>3 DEF IsDirectory
        <4> QED BY <3>7, <4>1, FilesElsewhere
      <3>9. SlotsStay(told, w, z.bitmap \ w.bitmap)  BY <3>2, <3>6 DEF SlotsStay
      <3>10. Rewritten(vol, w, T, x.dir, x.at, {y})
        <4> DEFINE Y == {y}
                   C == z.bitmap \ w.bitmap
        <4>1. Rewritten(vol, told, T, x.dir, x.at, Y) /\ SlotsStay(told, w, C)
              /\ \A d \in DOMAIN T : Of(T[d]) \cap C = {}
          BY <2>7, <3>8, <3>9
        <4> HIDE DEF Y, C
        <4>2. Rewritten(vol, w, T, x.dir, x.at, Y)  BY <1>1, <3>6, <4>1, RewrittenElsewhere
        <4> QED BY <4>2 DEF Y
      <3> QED BY <2>8, <3>2, <3>5, <3>6, <3>10
    <2>15. vol'.bitmap \subseteq (vol.bitmap \ Of(q)) \cup UsedBy(vol', inode'[i])
      <3>1. CASE size = 0
        <4>1. {q[k] : k \in size + 1 .. Len(q)} = Of(q)  BY <3>1 DEF Of
        <4> QED BY <2>13, <4>1
      <3>2. CASE size # 0
        <4>1. size \in 1 .. Len(q) /\ 1 \in 1 .. Len(q) /\ 1 <= size  BY <1>3, <1>4, <2>12, <3>2
        <4>2. Of(SubSeq(q, 1, size)) = {q[k] : k \in 1 .. size}  BY <2>12, <4>1, PartIs
        <4>3. size > 0 /\ FatOK(vol')  BY <2>13, <4>1 DEF VolOK
        <4>4. Clus(vol', inode'[i]) = SubSeq(q, 1, size)
          <5>1. Through(vol', ChainOf(inode'[i]), SubSeq(q, 1, size))  BY <2>13, <4>3
          <5> QED BY <4>3, <5>1, ChainIs, Zenon DEF Clus
        <4>5. Owns(inode'[i])  BY <1>4, <1>7, <2>2, <2>10, <3>2 DEF Owns
        <4>6. UsedBy(vol', inode'[i]) = {q[k] : k \in 1 .. size}  BY <4>2, <4>4, <4>5 DEF UsedBy
        <4>7. \A k \in 1 .. Len(q) : k \in 1 .. size \/ k \in size + 1 .. Len(q)
          BY <2>12
        <4>8. Of(q) \subseteq {q[k] : k \in 1 .. size} \cup {q[k] : k \in size + 1 .. Len(q)}
          BY <4>7 DEF Of
        <4> QED BY <2>13, <4>6, <4>8
      <3> QED BY <3>1, <3>2
    <2>16. Agrees(inode'[i], h)
      <3>1. Agrees(f, x.head)  BY <2>4 DEF Home
      <3>2. size # 0 => h.clu = f.start /\ h.flags = f.flags  BY <2>6, <2>10, <3>1 DEF Agrees
      <3>3. h.name = f.name /\ h.type = f.type  BY <2>6, <3>1 DEF Agrees
      <3> QED BY <1>3, <1>7, <2>6, <2>10, <3>2, <3>3 DEF Agrees
    <2>17. EntryWritten(vol, inode, pending, T, i, Of(q), x, vol', y, inode')
      BY <1>2, <1>3, <1>7, <2>2, <2>4, <2>6, <2>9, <2>11, <2>13, <2>14, <2>15, <2>16
      DEF EntryWritten, Keeps
    <2> QED BY <1>3, <2>17, EntryWrittenKeeps
  <1>9. CASE ~EntrySet(vol, f.dir, f.entry)
    <2>1. vol' = vol /\ f.st # "linked"  BY <1>6, <1>9 DEF Linked
    <2>2. ChainsSame(vol, vol)  BY <1>1 DEF ChainsSame
    <2>3. NamesMissing(E, inode', pending)
      <3>1. \A d \in Inodes : pending[d] # None => inode'[d] = inode[d]  BY <1>1, <1>7, <2>1 DEF Dirs
      <3> QED BY <1>1, <3>1 DEF NamesTrue, NamesMissing
    <2>4. QuietStep(vol, inode, pending, T, i, vol', inode', pending')
      BY <1>1, <1>2, <1>3, <1>7, <2>1, <2>2, <2>3 DEF QuietStep, Keeps
    <2> QED BY <2>4, QuietKeeps
  <1> QED BY <1>8, <1>9

-----------------------------------------------------------------------------
(* exfat_get_block: what is written of the entry.                          *)

\* What ffsMapCluster leaves alone of an inode.
SameName(f, g) ==
    /\ g.st = f.st /\ g.type = f.type /\ g.name = f.name /\ g.parent = f.parent
    /\ g.dir = f.dir /\ g.entry = f.entry

LEMMA MapNames ==
  ASSUME NEW v, NEW f, InodeOK(f), f # Free, NEW off
  PROVE  LET g == MapCluster(v, f, off).f
         IN SameName(f, g) /\ g.dirty = f.dirty /\ g.size = f.size
  <1>1. ASSUME NEW clu, NEW last, NEW a
        PROVE  LET g == MapTo(clu, last, a, v, f, off).f
               IN SameName(f, g) /\ g.dirty = f.dirty /\ g.size = f.size
    <2> DEFINE m == MapTo(clu, last, a, v, f, off)
               Shape(h) == /\ DOMAIN h = DOMAIN f /\ SameName(f, h)
                           /\ h.dirty = f.dirty /\ h.size = f.size
    <2>0. DOMAIN f = {"st", "type", "name", "parent", "dir", "entry", "flags", "start",
                      "size", "hoff", "hclu", "dirty"}
      BY DEF InodeOK
    <2>1. \E k, s, c :
            \/ m.f = f
            \/ m.f = [f EXCEPT !.hoff = off, !.hclu = c]
            \/ m.f = [f EXCEPT !.flags = k, !.start = s]
            \/ m.f = [[f EXCEPT !.flags = k, !.start = s] EXCEPT !.hoff = off, !.hclu = c]
      BY Zenon DEF MapTo
    <2>3. Shape(f)  BY DEF SameName
    <2>4. \A k, s : Shape([f EXCEPT !.flags = k, !.start = s])
      BY <2>0 DEF SameName
    <2>5. \A h, c : Shape(h) => Shape([h EXCEPT !.hoff = off, !.hclu = c])
      <3> SUFFICES ASSUME NEW h, NEW c, Shape(h)
                   PROVE  Shape([h EXCEPT !.hoff = off, !.hclu = c])
        BY Zenon
      <3> QED BY <2>0 DEF SameName
    <2> HIDE DEF m, Shape
    <2>6. Shape(m.f)
      <3>1. PICK k, s, c :
              \/ m.f = f
              \/ m.f = [f EXCEPT !.hoff = off, !.hclu = c]
              \/ m.f = [f EXCEPT !.flags = k, !.start = s]
              \/ m.f = [[f EXCEPT !.flags = k, !.start = s] EXCEPT !.hoff = off, !.hclu = c]
        BY <2>1, Zenon
      <3> DEFINE h == [f EXCEPT !.flags = k, !.start = s]
      <3>2. Shape(h)  BY <2>4, Zenon
      <3> HIDE DEF h
      <3>3. Shape([f EXCEPT !.hoff = off, !.hclu = c]) /\ Shape([h EXCEPT !.hoff = off, !.hclu = c])
        BY <2>3, <2>5, <3>2, Zenon
      <3> QED BY <2>3, <3>1, <3>2, <3>3 DEF h
    <2> QED BY <2>6 DEF m, Shape
  <1>2. PICK clu, last, a : MapCluster(v, f, off) = MapTo(clu, last, a, v, f, off)
    BY MapClusterIs
  <1> QED BY <1>1, <1>2

\* What is written where a cluster was taken.
MapWrites(f, w, m) ==
    /\ SameFat(w, m.v)
    /\ m.ok /\ m.wrote =>
          m.v = PutSlots(w, f.dir, f.entry,
                    <<[Slot(w, f.dir, f.entry) EXCEPT !.flags = m.f.flags, !.clu = m.f.start]>>)
    /\ m.ok /\ ~m.wrote => m.v = w /\ m.f.start = f.start /\ m.f.flags = f.flags /\ f.start # EOC

LEMMA MapToWrites ==
  ASSUME NEW v, NEW f, InodeOK(f), f # Free, NEW a, VolOK(a.v), a.clu # EOC, NEW last, NEW off,
         f.start = EOC <=> last = EOC
  PROVE  LET m == MapTo(EOC, last, a, v, f, off)
             w == MapVol(f, a, last)
         IN w.slots = a.v.slots /\ w.hint = a.v.hint /\ MapWrites(f, w, m)
  <1> DEFINE m == MapTo(EOC, last, a, v, f, off)
             w == MapVol(f, a, last)
             conv == last # EOC /\ a.flags # f.flags
             kind == IF conv \/ (last = EOC /\ a.flags = 1) THEN 1 ELSE f.flags
             first == IF last = EOC THEN a.clu ELSE f.start
             w1 == IF conv THEN ChainCont(a.v, f.start, f.size) ELSE a.v
             w2 == IF last # EOC /\ a.flags = 1 THEN [w1 EXCEPT !.fat[last] = a.clu] ELSE w1
             g == [f EXCEPT !.flags = kind, !.start = first]
             head == Slot(w2, f.dir, f.entry)
             w3 == IF last = EOC \/ conv
                   THEN PutSlots(w2, f.dir, f.entry,
                                 <<[head EXCEPT !.flags = g.flags, !.clu = g.start]>>)
                   ELSE w2
             h == [g EXCEPT !.hoff = off, !.hclu = a.clu]
  <1>1. m = IF ~EntrySet(w2, f.dir, f.entry)
            THEN [ok |-> FALSE, v |-> w2, f |-> g, wrote |-> FALSE]
            ELSE [ok |-> TRUE, v |-> w3, f |-> h, wrote |-> last = EOC \/ conv]
    BY DEF MapTo
  <1>2. w2 = w  BY DEF MapVol, MapRun, MapConv
  <1>3. w2.slots = a.v.slots /\ w2.hint = a.v.hint
    <2>1. Fields \subseteq DOMAIN a.v  BY DEF VolOK
    <2>2. w1 = a.v \/ \E x : w1 = [a.v EXCEPT !.fat = x]  BY Zenon DEF ChainCont
    <2> HIDE DEF w1
    <2>3. w1.slots = a.v.slots /\ w1.hint = a.v.hint /\ Fields \subseteq DOMAIN w1
      BY <2>1, <2>2 DEF Fields
    <2> QED BY <2>3 DEF Fields
  <1>4. SameFat(w, m.v)
    <2>1. MapArgs(f, a)
      <3>1. f.st \in {"linked", "orphan"}  BY DEF InodeOK
      <3> QED BY OwnsIs DEF MapArgs, VolOK
    <2> QED BY <2>1, MapToIs
  <1>5. DOMAIN f = {"st", "type", "name", "parent", "dir", "entry", "flags", "start",
                    "size", "hoff", "hclu", "dirty"}
    BY DEF InodeOK
  <1> HIDE DEF w2, w3, w, conv, kind, first
  <1>6. g.flags = kind /\ g.start = first /\ h.flags = kind /\ h.start = first  BY <1>5
  <1> HIDE DEF g, h
  <1>7. CASE ~EntrySet(w2, f.dir, f.entry)
    <2>1. m.ok = FALSE  BY <1>1, <1>7
    <2> HIDE DEF m
    <2> QED BY <1>2, <1>3, <1>4, <2>1 DEF MapWrites, m, w
  <1>8. CASE EntrySet(w2, f.dir, f.entry)
    <2>1. m.ok = TRUE /\ m.v = w3 /\ m.f = h /\ m.wrote = (last = EOC \/ conv)  BY <1>1, <1>8
    <2> HIDE DEF m
    <2>2. CASE last = EOC \/ conv
      <3>1. m.wrote = TRUE  BY <2>1, <2>2, Zenon
      <3>2. w3 = PutSlots(w2, f.dir, f.entry, <<[head EXCEPT !.flags = g.flags, !.clu = g.start]>>)
        BY <2>2 DEF w3
      <3>3. g.flags = m.f.flags /\ g.start = m.f.start  BY <1>6, <2>1
      <3> QED BY <1>2, <1>3, <1>4, <2>1, <3>1, <3>2, <3>3 DEF MapWrites, m, w
    <2>3. CASE ~(last = EOC \/ conv)
      <3>1. m.wrote = FALSE  BY <2>1, <2>3, Zenon
      <3>2. w3 = w2  BY <2>3 DEF w3
      <3>3. m.f.start = f.start /\ m.f.flags = f.flags /\ f.start # EOC
        BY <1>6, <2>1, <2>3 DEF kind, first
      <3> QED BY <1>2, <1>3, <1>4, <2>1, <3>1, <3>2, <3>3 DEF MapWrites, m, w
    <2> QED BY <2>2, <2>3
  <1> QED BY <1>7, <1>8

\* ffsMapCluster finds the cluster, or there is no other; or it takes one.
MapStill(v, f, m, off) ==
    /\ ChainsSame(v, m.v) /\ m.v.slots = v.slots /\ m.v.hint = v.hint
    /\ m.f.start = f.start /\ m.f.flags = f.flags
    /\ m.ok /\ off = f.size => f.flags = 1 /\ f.start # EOC
MapGrown(v, f, m) ==
    \E new \in Clusters \ v.bitmap : \E w, r :
       /\ w.slots = v.slots /\ w.hint = v.hint /\ MapWrites(f, w, m)
       /\ Through(m.v, Chain(m.f.start, f.size + 1, m.f.flags), r)
       /\ Of(r) = UsedBy(v, f) \cup {new} /\ m.v.bitmap = v.bitmap \cup {new}
       /\ OthersStay(v, m.v, UsedBy(v, f))

LEMMA MapBehind ==
  ASSUME NEW v, VolOK(v), Counted(v), NEW f, InodeOK(f), f # Free, NEW last, NEW off \in Nat,
         NEW a, Counted(a.v), NEW want, Takes(v, want, f.flags, a) \/ TakesNone(v, f.flags, a),
         f.start = EOC <=> last = EOC
  PROVE  LET m == MapTo(EOC, last, a, v, f, off)
         IN \/ m.f = f /\ m.v.bitmap = v.bitmap /\ MapStill(v, f, m, off)
            \/ /\ a.clu \in Clusters \ v.bitmap
               /\ \E w : w.slots = v.slots /\ w.hint = v.hint /\ MapWrites(f, w, m)
  <1> DEFINE m == MapTo(EOC, last, a, v, f, off)
  <1>1. CASE TakesNone(v, f.flags, a)
    <2>1. /\ a.clu = EOC /\ SameClusters(v, a.v) /\ VolOK(a.v)
          /\ a.v.slots = v.slots /\ a.v.hint = v.hint
      BY <1>1 DEF TakesNone
    <2>2. m = [ok |-> FALSE, v |-> a.v, f |-> f, wrote |-> FALSE]  BY <2>1 DEF MapTo
    <2>3. m.ok = FALSE /\ m.v = a.v /\ m.f = f  BY <2>2
    <2> HIDE DEF m
    <2>4. ChainsSame(v, m.v)  BY <2>1, <2>3 DEF SameClusters, ChainsSame
    <2>5. m.v.bitmap = v.bitmap  BY <2>1, <2>3 DEF SameClusters
    <2> QED BY <2>1, <2>3, <2>4, <2>5 DEF MapStill, m
  <1>2. CASE Takes(v, want, f.flags, a)
    <2>1. /\ a.clu \in Clusters \ v.bitmap /\ VolOK(a.v) /\ a.clu # EOC
          /\ a.v.slots = v.slots /\ a.v.hint = v.hint
      BY <1>2, ClusterFacts DEF Takes
    <2>2. LET w == MapVol(f, a, last)
          IN w.slots = a.v.slots /\ w.hint = a.v.hint /\ MapWrites(f, w, m)
      BY <2>1, MapToWrites
    <2> QED BY <2>1, <2>2
  <1> QED BY <1>1, <1>2

LEMMA MapOutcome ==
  ASSUME NEW v, VolOK(v), Counted(v), NEW f, InodeOK(f), f # Free,
         Owns(f) => Whole(v, f, Clus(v, f)), NEW off \in Nat, off <= f.size,
         ~Owns(f) => f.size = 0
  PROVE  LET m == MapCluster(v, f, off)
         IN MapStill(v, f, m, off) \/ (off = f.size /\ MapGrown(v, f, m))
  <1> DEFINE m == MapCluster(v, f, off)
  <1> HIDE DEF m
  <1> SUFFICES MapStill(v, f, m, off) \/ (off = f.size /\ MapGrown(v, f, m))
    BY DEF m
  <1>1. FileOK(f) /\ f.flags \in {1, 3} /\ (Owns(f) <=> f.start # EOC) /\ f.size \in Nat
    BY OwnsIs DEF FileOK
  <1>2. CASE ~Owns(f)
    <2> DEFINE a == AllocCluster(v, EOC, f.flags)
    <2>1. f.start = EOC /\ off = 0 /\ f.size = 0 /\ UsedBy(v, f) = {}  BY <1>1, <1>2 DEF UsedBy
    <2>2. m = MapTo(EOC, EOC, a, v, f, off)
      <3>1. MapClu(v, f, off) = EOC /\ MapLast(v, f, off) = EOC  BY <2>1 DEF MapClu, MapLast
      <3> QED BY <3>1, MapClusterIs DEF m
    <2>3. (Takes(v, EOC, f.flags, a) \/ TakesNone(v, f.flags, a)) /\ Counted(a.v)
      BY <1>1, AllocTakesAFreeCluster, Zenon
    <2> HIDE DEF a
    <2>4. \/ m.f = f /\ m.v.bitmap = v.bitmap /\ MapStill(v, f, m, off)
          \/ /\ a.clu \in Clusters \ v.bitmap
             /\ \E w : w.slots = v.slots /\ w.hint = v.hint /\ MapWrites(f, w, m)
      BY <1>1, <2>1, <2>2, <2>3, MapBehind
    <2>5. /\ \/ ~m.ok /\ m.f = f /\ SameClusters(v, m.v)
             \/ \E new \in Clusters \ v.bitmap :
                    /\ Through(m.v, Chain(new, 1, m.f.flags), <<new>>)
                    /\ m.f.start = new /\ m.v.bitmap = v.bitmap \cup {new}
                    /\ m.f.size = f.size /\ (m.ok => m.f.hoff = off /\ m.f.hclu = new)
          /\ VolOK(m.v) /\ Counted(m.v) /\ OthersStay(v, m.v, {})
      <3>1. f.flags \in {1, 3} /\ f.start = EOC /\ FileOK(f)  BY <1>1, <2>1
      <3> QED BY ONLY <3>1, VolOK(v), Counted(v), off \in Nat, FileGetsItsFirst, Zenon DEF m
    <2>6. CASE MapStill(v, f, m, off)  BY <2>6
    <2>7. CASE /\ ~MapStill(v, f, m, off)
               /\ \E w : w.slots = v.slots /\ w.hint = v.hint /\ MapWrites(f, w, m)
      <3>1. PICK w : w.slots = v.slots /\ w.hint = v.hint /\ MapWrites(f, w, m)  BY <2>7
      <3>2. CASE m.f = f
        <4>1. ~(m.ok /\ m.wrote) /\ (m.ok => FALSE)
          <5>1. CASE m.ok /\ m.wrote
            <6>1. m = MapTo(EOC, EOC, a, v, f, off) /\ a.clu # EOC
              BY <2>2, <2>4, <2>7, ClusterFacts
            <6>2. m.f.start = a.clu
              <7>1. MapArgs(f, a)
                <8>1. Fields \subseteq DOMAIN a.v
                  BY <2>3 DEF Takes, TakesNone, VolOK
                <8> QED BY <1>1, <6>1, <8>1 DEF MapArgs
              <7>2. MapStart(f, a, EOC) = a.clu  BY DEF MapStart
              <7> QED BY <6>1, <7>1, <7>2, MapToIs
            <6> QED BY <2>1, <3>2, <6>1, <6>2
          <5>2. CASE m.ok /\ ~m.wrote  BY <2>1, <3>1, <5>2 DEF MapWrites
          <5> QED BY <5>1, <5>2
        <4>2. m = MapTo(EOC, EOC, a, v, f, off) /\ a.clu # EOC /\ MapArgs(f, a)
          <5>1. Fields \subseteq DOMAIN a.v
            BY <2>3 DEF Takes, TakesNone, VolOK
          <5>2. a.clu # EOC  BY <2>4, <2>7, ClusterFacts
          <5> QED BY <1>1, <2>2, <5>1, <5>2 DEF MapArgs
        <4>3. m.f.start = MapStart(f, a, EOC)  BY <4>2, MapToIs
        <4>4. m.f.start = a.clu  BY <4>3 DEF MapStart
        <4> QED BY <2>1, <3>2, <4>2, <4>4
      <3>3. CASE m.f # f
        <4>1. PICK new \in Clusters \ v.bitmap :
                    /\ Through(m.v, Chain(new, 1, m.f.flags), <<new>>)
                    /\ m.f.start = new /\ m.v.bitmap = v.bitmap \cup {new}
          BY <2>5, <3>3
        <4>2. Of(<<new>>) = {new}
          <5>1. Len(<<new>>) = 1 /\ <<new>>[1] = new  OBVIOUS
          <5> QED BY <5>1 DEF Of
        <4>3. f.size + 1 = 1  BY <2>1
        <4> QED BY <2>1, <2>5, <3>1, <4>1, <4>2, <4>3 DEF MapGrown
      <3> QED BY <3>2, <3>3
    <2> QED BY <2>4, <2>6, <2>7
  <1>3. CASE Owns(f)
    <2> DEFINE q == Clus(v, f)
               n == Len(q)
    <2>1. /\ Through(v, ChainOf(f), q) /\ Of(q) \subseteq v.bitmap /\ HintOK(f, q)
          /\ f.size \in 1 .. n /\ n \in Nat /\ UsedBy(v, f) = Of(q)
      <3>1. Whole(v, f, q)  BY <1>3
      <3> HIDE DEF q
      <3>2. Through(v, ChainOf(f), q)  BY <3>1 DEF Whole
      <3> QED BY <1>3, <3>1, <3>2, RunEnd DEF Whole, UsedBy, q
    <2> HIDE DEF q
    <2>2. f.flags = 3 => f.size = n  BY <2>1 DEF Through, ChainOf, Chain
    <2>3. CASE off < n
      <3>1. off \in 0 .. Len(q) - 1  BY <2>1, <2>3
      <3>2. m.v = v /\ m.f.start = f.start /\ m.f.flags = f.flags
        BY <1>1, <2>1, <3>1, MapFindsTheCluster DEF m
      <3>3. off = f.size => f.flags = 1  BY <1>1, <2>2, <2>3
      <3>4. f.start # EOC  BY <1>1, <1>3
      <3>5. ChainsSame(v, m.v)  BY <3>2 DEF ChainsSame
      <3> QED BY <3>2, <3>3, <3>4, <3>5 DEF MapStill
    <2>4. CASE ~(off < n)
      <3>1. off = n /\ off = f.size  BY <1>1, <2>1, <2>4
      <3> DEFINE last == q[n]
                 a == AllocCluster(v, last + 1, f.flags)
      <3>2. last \in Clusters /\ last # EOC /\ last + 1 \in Nat /\ last + 1 >= 2
            /\ n \in 0 .. Len(q) /\ Len(q) = n /\ off \in 0 .. Len(q) /\ off = Len(q)
        <4>1. /\ q[Len(q)] \in Clusters /\ q[Len(q)] + 1 \in Nat /\ q[Len(q)] + 1 >= 2
          BY <2>1, RunEnd
        <4>2. n = Len(q) /\ off = Len(q) /\ off \in 0 .. Len(q)  BY <2>1, <3>1
        <4> HIDE DEF n
        <4> QED BY <4>1, <4>2, ClusterFacts
      <3>3. MapClu(v, f, off) = EOC /\ MapLast(v, f, off) = last
        <4>1. MapLast(v, f, off) = q[Len(q)] /\ MapClu(v, f, off) = EOC
          BY <1>1, <2>1, <3>2, MapSearch
        <4> QED BY <3>2, <4>1
      <3>4. m = MapTo(EOC, last, a, v, f, off)  BY <3>2, <3>3, MapClusterIs DEF m
      <3> HIDE DEF last
      <3>5. (Takes(v, last + 1, f.flags, a) \/ TakesNone(v, f.flags, a)) /\ Counted(a.v)
        BY <1>1, <3>2, AllocTakesAFreeCluster
      <3> HIDE DEF a
      <3>6. \/ m.f = f /\ m.v.bitmap = v.bitmap /\ MapStill(v, f, m, off)
            \/ /\ a.clu \in Clusters \ v.bitmap
               /\ \E w : w.slots = v.slots /\ w.hint = v.hint /\ MapWrites(f, w, m)
        <4>1. f.start = EOC <=> last = EOC  BY <1>1, <1>3, <3>2
        <4>2. Takes(v, last + 1, f.flags, a) \/ TakesNone(v, f.flags, a)  BY <3>5
        <4>3. Counted(a.v)  BY <3>5
        <4> HIDE DEF n
        <4> QED BY <3>4, <4>1, <4>2, <4>3, MapBehind, Zenon
      <3>7. /\ \/ ~m.ok /\ m.f = f /\ SameClusters(v, m.v)
               \/ \E new \in Clusters \ v.bitmap :
                    /\ Through(m.v, Chain(m.f.start, f.size + 1, m.f.flags), Append(q, new))
                    /\ Of(Append(q, new)) = Of(q) \cup {new}
                    /\ m.v.bitmap = v.bitmap \cup {new}
                    /\ m.f.start = f.start /\ m.f.size = f.size
                    /\ m.ok => m.f.hclu = new
                    /\ HintOK(m.f, Append(q, new))
            /\ VolOK(m.v) /\ Counted(m.v) /\ OthersStay(v, m.v, Of(q))
        <4>1. m = MapCluster(v, f, Len(q))  BY <3>2 DEF m
        <4> QED BY <1>1, <2>1, <4>1, FileGrowsByOne, Zenon
      <3>8. CASE MapStill(v, f, m, off)  BY <3>8
      <3>9. CASE \E w : w.slots = v.slots /\ w.hint = v.hint /\ MapWrites(f, w, m)
        <4>1. CASE \E new \in Clusters \ v.bitmap :
                    /\ Through(m.v, Chain(m.f.start, f.size + 1, m.f.flags), Append(q, new))
                    /\ Of(Append(q, new)) = Of(q) \cup {new}
                    /\ m.v.bitmap = v.bitmap \cup {new}
          BY <2>1, <3>1, <3>7, <3>9, <4>1 DEF MapGrown
        <4>2. CASE ~m.ok /\ m.f = f /\ SameClusters(v, m.v)
          <5>1. PICK w : w.slots = v.slots /\ w.hint = v.hint /\ MapWrites(f, w, m)  BY <3>9
          <5>2. CASE a.clu = EOC
            <6>1. MapStill(v, f, m, off)  BY <3>6, <5>2, ClusterFacts
            <6> QED BY <6>1
          <5>3. CASE a.clu # EOC
            <6>1. a.v.bitmap = v.bitmap \cup {a.clu} /\ a.clu \notin v.bitmap /\ MapArgs(f, a)
              <7>1. Takes(v, last + 1, f.flags, a)  BY <3>5, <5>3 DEF TakesNone
              <7> QED BY <1>1, <5>3, <7>1 DEF Takes, MapArgs, VolOK
            <6>2. SameFat(MapVol(f, a, last), m.v)  BY <3>4, <6>1, MapToIs
            <6>3. MapVol(f, a, last).bitmap = a.v.bitmap
              <7>1. MapRun(f, a, last) = a.v \/ \E x : MapRun(f, a, last) = [a.v EXCEPT !.fat = x]
                BY Zenon DEF MapRun, ChainCont
              <7>2. Fields \subseteq DOMAIN a.v  BY <6>1 DEF MapArgs
              <7>3. MapRun(f, a, last).bitmap = a.v.bitmap /\ Fields \subseteq DOMAIN MapRun(f, a, last)
                BY <7>1, <7>2 DEF Fields
              <7> QED BY <7>3 DEF MapVol, Fields
            <6>4. m.v.bitmap = v.bitmap \cup {a.clu}
              BY <6>1, <6>2, <6>3 DEF SameFat, SameClusters
            <6> QED BY <4>2, <6>1, <6>4 DEF SameClusters
          <5> QED BY <5>2, <5>3
        <4> QED BY <3>7, <4>1, <4>2
      <3> QED BY <3>6, <3>8, <3>9
    <2> QED BY <2>3, <2>4
  <1> QED BY <1>2, <1>3

\* An entry where no slot has changed.
LEMMA RewrittenSame ==
  ASSUME NEW v, NEW w, w.slots = v.slots, NEW T, Ordered(v, T), NEW x \in Entries(v, T)
  PROVE  Rewritten(v, w, T, x.dir, x.at, {x})
  <1>1. /\ \A q : View(w, q) = View(v, q)
        /\ Entries(w, T) = Entries(v, T) /\ (Ordered(w, T) <=> Ordered(v, T))
    BY SlotsSame
  <1>2. Rewritten(w, w, T, x.dir, x.at, {x})  BY <1>1, RewrittenSelf
  <1> QED BY <1>1, <1>2 DEF Rewritten

\* exfat_get_block where nothing is taken
LEMMA MapStillConsistent ==
  ASSUME NEW T, Consistent(vol, inode, pending, T), NEW i \in Inodes, HasData(i),
         NEW m, NEW off, off <= inode[i].size, MapStill(vol, inode[i], m, off),
         NEW size, ~m.ok \/ size = inode[i].size \/ off = inode[i].size,
         NEW g, g.start = m.f.start, g.flags = m.f.flags, SameName(inode[i], g),
         g.size = (IF m.ok THEN size ELSE inode[i].size),
         g.size = inode[i].size => g.dirty = inode[i].dirty,
         g.size # inode[i].size => g.dirty = TRUE,
         Good(m.v, [inode EXCEPT ![i] = g]), StrangersStay(vol, inode, m.v, [inode EXCEPT ![i] = g]),
         Dirs([inode EXCEPT ![i] = g], pending)
  PROVE  Consistent(m.v, [inode EXCEPT ![i] = g], pending, T)
  <1> DEFINE f == inode[i]
             E == Entries(vol, T)
             jno == [inode EXCEPT ![i] = g]
  <1>1. /\ Inv /\ Good(vol, inode) /\ Dirs(inode, pending) /\ VolOK(vol) /\ Counted(vol)
        /\ NamesTrue(E, inode, pending, T) /\ DOMAIN inode = Inodes /\ HintTrue(E, vol, T)
        /\ TableOK(vol, T) /\ InodeOK(f)
    BY ConsistentIs
  <1>2. f.st \in {"linked", "orphan"} /\ f.type = "file" /\ i # Root
    <2>1. f.st # "free" /\ f.type = "file"  BY DEF HasData
    <2> QED BY <1>1, <2>1 DEF InodeOK, Dirs, Free
  <1>3. jno[i] = g /\ \A j \in Inodes : j # i => jno[j] = inode[j]  BY <1>1
  <1>4. /\ ChainsSame(vol, m.v) /\ m.v.slots = vol.slots /\ m.v.hint = vol.hint
        /\ g.start = f.start /\ g.flags = f.flags
        /\ g.size # f.size => f.flags = 1 /\ f.start # EOC
    BY DEF MapStill
  <1>5. SameName(f, g)  OBVIOUS
  <1> HIDE DEF jno
  <1>6. UsedBy(m.v, g) = UsedBy(vol, f)
    <2>1. \A x : Clus(m.v, x) = Clus(vol, x)  BY <1>4, SameChains
    <2>2. Owns(g) <=> Owns(f)  BY <1>4, <1>5 DEF Owns, SameName
    <2>3. CASE ~Owns(f)  BY <2>2, <2>3 DEF UsedBy
    <2>4. CASE Owns(f)
      <3>1. Whole(vol, f, Clus(vol, f))  BY <1>1, <2>4 DEF Good, Apart
      <3>2. Through(vol, ChainOf(f), Clus(vol, f))  BY <3>1 DEF Whole
      <3>3. Through(vol, ChainOf(g), Clus(vol, f))
        <4>1. /\ ChainOf(g).dir = ChainOf(f).dir /\ ChainOf(g).flags = ChainOf(f).flags
              /\ ChainOf(f).flags = 3 => ChainOf(g).size = ChainOf(f).size
          BY <1>4 DEF ChainOf, Chain
        <4> QED BY <3>2, <4>1 DEF Through
      <3>4. Clus(vol, g) = Clus(vol, f)  BY <1>1, <3>3, ChainIs DEF Clus, VolOK
      <3> QED BY <2>1, <2>2, <3>4 DEF UsedBy
    <2> QED BY <2>3, <2>4
  <1>7. CASE f.st = "linked"
    <2>1. Named(inode, i)  BY <1>2, <1>7 DEF Named
    <2>2. PICK x \in E : Home(E, inode, i, x)  BY <1>1, <1>2, <1>7, OwnEntry
    <2>3. Agrees(f, x.head) /\ x.head \in Heads
      BY <1>1, <2>2 DEF Home, NamesTrue, EntriesTrue
    <2>4. Agrees(g, x.head)
      <3>1. g.name = f.name /\ g.type = f.type /\ g.type # "dir"  BY <1>2, <1>5 DEF SameName
      <3> QED BY <1>4, <2>3, <3>1 DEF Agrees
    <2>5. Rewritten(vol, m.v, T, x.dir, x.at, {x})
      <3>1. Ordered(vol, T)  BY DEF Consistent
      <3> QED BY <1>4, <2>2, <3>1, RewrittenSame, Zenon
    <2>6. OthersStay(vol, m.v, {})  BY <1>4, SameChains DEF OthersStay, ChainsSame
    <2>7. m.v.bitmap = vol.bitmap  BY <1>4 DEF ChainsSame
    <2>8. /\ g.st = "linked" /\ g.type = f.type /\ g.name = f.name
          /\ g.parent = f.parent /\ g.entry = f.entry /\ g.dir = f.dir
      BY <1>5, <1>7 DEF SameName
    <2>9. f.type # "dir"  BY <1>2
    <2>10. EntryWritten(vol, inode, pending, T, i, {}, x, m.v, x, jno)
      BY <1>3, <1>4, <1>6, <2>1, <2>2, <2>3, <2>4, <2>5, <2>6, <2>7, <2>8, <2>9
      DEF EntryWritten, jno
    <2> QED BY <2>10, EntryWrittenKeeps DEF jno
  <1>8. CASE f.st # "linked"
    <2>1. HintTrue(E, m.v, T)  BY <1>1, <1>4, HintSame
    <2>2. NamesMissing(E, jno, pending)
      <3>1. \A d \in Inodes : pending[d] # None => jno[d] = inode[d]
        BY <1>1, <1>3, <1>8 DEF Dirs
      <3> QED BY <1>1, <3>1 DEF NamesTrue, NamesMissing
    <2>3. g.st # "linked"  BY <1>5, <1>8 DEF SameName
    <2>4. QuietStep(vol, inode, pending, T, i, m.v, jno, pending)
      BY <1>2, <1>3, <1>4, <1>8, <2>1, <2>2, <2>3 DEF QuietStep, jno
    <2> QED BY <2>4, QuietKeeps DEF jno
  <1> QED BY <1>7, <1>8

\* exfat_get_block where a cluster is taken
LEMMA MapGrownConsistent ==
  ASSUME NEW T, Consistent(vol, inode, pending, T), NEW i \in Inodes, HasData(i), Linked(i),
         NEW m, MapGrown(vol, inode[i], m), m.ok, m.wrote => AtHome(vol, inode, i),
         NEW g, g.start = m.f.start, g.flags = m.f.flags, SameName(inode[i], g),
         g.size = inode[i].size + 1, g.dirty = TRUE,
         Good(m.v, [inode EXCEPT ![i] = g]), StrangersStay(vol, inode, m.v, [inode EXCEPT ![i] = g])
  PROVE  Consistent(m.v, [inode EXCEPT ![i] = g], pending, T)
  <1> DEFINE f == inode[i]
             E == Entries(vol, T)
             jno == [inode EXCEPT ![i] = g]
             used == UsedBy(vol, f)
  <1>1. /\ Inv /\ Good(vol, inode) /\ Dirs(inode, pending) /\ VolOK(vol) /\ Counted(vol)
        /\ NamesTrue(E, inode, pending, T) /\ DOMAIN inode = Inodes /\ HintTrue(E, vol, T)
        /\ TableOK(vol, T) /\ InodeOK(f)
    BY ConsistentIs
  <1>2. f.st = "linked" /\ f.type = "file" /\ i # Root
    <2>1. f.st = "linked" /\ f.type = "file"  BY DEF HasData, Linked
    <2> QED BY <1>1, <2>1 DEF Dirs
  <1>3. jno[i] = g /\ \A j \in Inodes : j # i => jno[j] = inode[j]  BY <1>1
  <1>4. PICK new, w, r :
          /\ new \in Clusters \ vol.bitmap /\ w.slots = vol.slots /\ w.hint = vol.hint /\ MapWrites(f, w, m)
          /\ Through(m.v, Chain(m.f.start, f.size + 1, m.f.flags), r)
          /\ Of(r) = used \cup {new} /\ m.v.bitmap = vol.bitmap \cup {new}
          /\ OthersStay(vol, m.v, used)
    BY DEF MapGrown
  <1>5. g.start \in Clusters /\ g.start # EOC /\ g.flags \in {1, 3}
    <2>1. /\ Chain(m.f.start, f.size + 1, m.f.flags).dir = m.f.start
          /\ Chain(m.f.start, f.size + 1, m.f.flags).flags = m.f.flags
      BY DEF Chain
    <2>2. m.f.start \in Clusters /\ m.f.flags \in {1, 3}  BY <1>4, <2>1, RunEnd DEF Through
    <2> QED BY <2>2, ClusterFacts
  <1>6. UsedBy(m.v, g) = used \cup {new}
    <2>1. VolOK(m.v)  BY DEF Good
    <2>2. Chain(m.f.start, f.size + 1, m.f.flags) = ChainOf(g)  BY DEF ChainOf
    <2>3. Clus(m.v, g) = r  BY <1>4, <2>1, <2>2, ChainIs DEF Clus, VolOK
    <2>4. Owns(g)  BY <1>2, <1>5 DEF Owns, SameName
    <2> QED BY <1>4, <2>3, <2>4 DEF UsedBy
  <1>7. AfterGrowth(vol, w, used)
    <2>1. SameFat(w, m.v) /\ VolOK(m.v)  BY <1>4 DEF MapWrites, Good
    <2>2. SameFat(m.v, w)  BY <2>1 DEF SameFat, SameClusters
    <2>3. VolOK(w) /\ \A p, q : Through(m.v, p, q) => Through(w, p, q)
      BY <2>1, <2>2, SameFatIs
    <2>4. w.bitmap = m.v.bitmap  BY <2>1 DEF SameFat, SameClusters
    <2> HIDE DEF used
    <2> QED BY <1>4, <2>3, <2>4 DEF AfterGrowth, OthersStay
  <1>8. Named(inode, i)  BY <1>2 DEF Named
  <1>9. SameName(f, g)  OBVIOUS
  <1> HIDE DEF used, jno
  <1>10. /\ g.st = "linked" /\ g.type = f.type /\ g.name = f.name /\ g.type # "dir"
         /\ g.parent = f.parent /\ g.entry = f.entry /\ g.dir = f.dir /\ f.type # "dir"
    BY <1>2, <1>9 DEF SameName
  <1>11. ASSUME NEW x \in E, Home(E, inode, i, x), NEW y, y.dir = x.dir, y.at = x.at,
                y.head \in Heads, y.head.name = x.head.name, y.head.type = x.head.type,
                y.head.clu = g.start, y.head.flags = g.flags,
                Rewritten(vol, m.v, T, x.dir, x.at, {y}), m.v.hint = vol.hint
         PROVE  Consistent(m.v, jno, pending, T)
    <2>1. Agrees(f, x.head)  BY <1>11 DEF Home
    <2>2. Agrees(g, y.head)  BY <1>5, <1>10, <1>11, <2>1 DEF Agrees
    <2>3. used \subseteq UsedBy(vol, inode[i])  BY DEF used
    <2>4. m.v.bitmap \subseteq (vol.bitmap \ UsedBy(vol, inode[i])) \cup UsedBy(m.v, g)
      BY <1>4, <1>6 DEF used
    <2>5. EntryWritten(vol, inode, pending, T, i, used, x, m.v, y, jno)
      BY <1>3, <1>4, <1>8, <1>10, <1>11, <2>2, <2>3, <2>4 DEF EntryWritten, jno
    <2> QED BY <2>5, EntryWrittenKeeps
  <1>12. CASE m.wrote
    <2>1. Of(T[inode[f.parent].start]) \cap used = {}
      <3>1. ~IsDirectory(inode[i])  BY <1>2 DEF IsDirectory
      <3>2. inode[f.parent].start \in DOMAIN T  BY <1>8, ParentIs
      <3> QED BY <3>1, <3>2, FilesElsewhere DEF used
    <2>2. PICK x \in E :
            /\ Home(E, inode, i, x) /\ x.head \in Heads
            /\ Slot(w, f.dir, f.entry) = x.head
            /\ \A h \in Heads : h.name = x.head.name =>
                     Rewritten(vol, PutSlots(w, f.dir, f.entry, <<h>>), T, x.dir, x.at,
                               {EntryAt(x.dir, x.at, h)})
      BY <1>7, <1>8, <1>12, <2>1, HomeEntry, ZenonT(60)
    <2> DEFINE h == [x.head EXCEPT !.flags = m.f.flags, !.clu = m.f.start]
               y == EntryAt(x.dir, x.at, h)
    <2>3. m.v = PutSlots(w, f.dir, f.entry, <<h>>)  BY <1>4, <1>12, <2>2 DEF MapWrites
    <2>4. /\ h \in Heads /\ h.name = x.head.name /\ h.type = x.head.type
          /\ h.clu = g.start /\ h.flags = g.flags
      BY <1>5, <2>2, Zenon DEF Heads
    <2>5. Rewritten(vol, m.v, T, x.dir, x.at, {y})  BY <2>2, <2>3, <2>4, Zenon
    <2>6. m.v.hint = vol.hint  BY <1>4, <1>7, <2>3, PutSlotsKeeps DEF AfterGrowth
    <2>7. y.dir = x.dir /\ y.at = x.at /\ y.head = h  BY DEF EntryAt
    <2> HIDE DEF h, y
    <2>8. Consistent(m.v, jno, pending, T)  BY <1>11, <2>2, <2>4, <2>5, <2>6, <2>7, Zenon
    <2> QED BY <2>8 DEF jno
  <1>13. CASE ~m.wrote
    <2>1. m.v = w /\ g.start = f.start /\ g.flags = f.flags /\ f.start # EOC
      BY <1>4, <1>13 DEF MapWrites
    <2>2. PICK x \in E : Home(E, inode, i, x)  BY <1>1, <1>2, OwnEntry
    <2>3. Agrees(f, x.head) /\ x.head \in Heads
      BY <1>1, <2>2 DEF Home, NamesTrue, EntriesTrue
    <2>4. x.head.clu = g.start /\ x.head.flags = g.flags  BY <2>1, <2>3 DEF Agrees
    <2>5. Rewritten(vol, m.v, T, x.dir, x.at, {x})
      <3>1. Ordered(vol, T)  BY DEF Consistent
      <3> QED BY <1>4, <2>1, <2>2, <3>1, RewrittenSame, Zenon
    <2>6. Consistent(m.v, jno, pending, T)  BY <1>4, <1>11, <2>1, <2>2, <2>3, <2>4, <2>5
    <2> QED BY <2>6 DEF jno
  <1> QED BY <1>12, <1>13

LEMMA MapConsistent ==
  ASSUME NEW T, Consistent(vol, inode, pending, T), NEW i \in Inodes, HasData(i), NEW off \in Nat,
         NEW size \in Nat, Map(i, off, size), MapsBehind(i, off, size), faults' = {}
  PROVE  Consistent(vol', inode', pending', T)
  <1> DEFINE f == inode[i]
             m == MapCluster(vol, f, off)
             g == IF m.ok /\ size # f.size THEN [m.f EXCEPT !.size = size, !.dirty = TRUE] ELSE m.f
             grown == m.v.bitmap # vol.bitmap
  <1>1. /\ Inv /\ Good(vol, inode) /\ Dirs(inode, pending) /\ VolOK(vol) /\ Counted(vol)
        /\ DOMAIN inode = Inodes /\ InodeOK(f) /\ Apart(vol, inode)
    BY ConsistentIs DEF Good
  <1>2. /\ vol' = m.v /\ inode' = [inode EXCEPT ![i] = g] /\ pending' = pending
        /\ f.st # "free" /\ f.type = "file" /\ f # Free
    <2>1. vol' = m.v /\ inode' = [inode EXCEPT ![i] = g] /\ pending' = pending  BY DEF Map
    <2>2. f.st # "free" /\ f.type = "file"  BY DEF HasData
    <2> QED BY <2>1, <2>2 DEF Free
  <1>3. /\ ~(f.st = "orphan" /\ f.start = EOC /\ f.size > 0)
        /\ ~(grown /\ ~m.ok /\ f.st = "linked")
        /\ ~(grown /\ (f.st = "orphan" \/ size = off))
        /\ m.wrote => AtHome(vol, inode, i)
    BY Zenon DEF Map, Loses, Misses, Linked, Orphan, Strays
  <1>4. Keeps(vol, inode, vol', inode') /\ Dirs(inode', pending')  BY <1>1, MapKeeps
  <1>5. /\ f.size \in Nat /\ off <= f.size /\ (~Owns(f) => f.size = 0)
        /\ Owns(f) => Whole(vol, f, Clus(vol, f))
    <2>1. f.size \in Nat /\ (Owns(f) <=> f.start # EOC) /\ f.st \in {"linked", "orphan"}
          /\ (f.st = "linked" /\ f.start = EOC => f.size = 0)
      BY <1>1, <1>2, OwnsIs DEF FileOK
    <2>2. off <= f.size  BY <2>1 DEF MapsBehind
    <2> QED BY <1>1, <1>3, <2>1, <2>2 DEF Apart
  <1>6. MapStill(vol, f, m, off) \/ (off = f.size /\ MapGrown(vol, f, m))
    BY <1>1, <1>2, <1>5, MapOutcome
  <1>7. SameName(f, m.f) /\ m.f.dirty = f.dirty /\ m.f.size = f.size  BY <1>1, <1>2, MapNames
  <1>8. m.ok \in BOOLEAN /\ DOMAIN m.f = DOMAIN f  BY <1>1, <1>2, MapShape
  <1> HIDE DEF m
  <1>9. /\ SameName(f, g) /\ g.start = m.f.start /\ g.flags = m.f.flags
        /\ g.size = (IF m.ok THEN size ELSE f.size)
        /\ g.size = f.size => g.dirty = f.dirty
        /\ g.size # f.size => g.dirty = TRUE
    BY <1>1, <1>2, <1>7, <1>8, Zenon DEF InodeOK, SameName
  <1> HIDE DEF g
  <1>10. Good(m.v, [inode EXCEPT ![i] = g]) /\ StrangersStay(vol, inode, m.v, [inode EXCEPT ![i] = g])
         /\ Dirs([inode EXCEPT ![i] = g], pending)
    BY <1>2, <1>4 DEF Keeps
  <1>11. CASE MapStill(vol, f, m, off)
    <2>1. size = f.size \/ off = f.size  BY DEF MapsBehind
    <2>2. Consistent(m.v, [inode EXCEPT ![i] = g], pending, T)
      BY <1>5, <1>9, <1>10, <1>11, <2>1, MapStillConsistent, Zenon
    <2> QED BY <1>2, <2>2
  <1>12. CASE off = f.size /\ MapGrown(vol, f, m)
    <2>1. grown
      <3>1. PICK new \in Clusters \ vol.bitmap : m.v.bitmap = vol.bitmap \cup {new}
        BY <1>12 DEF MapGrown
      <3>2. new \in m.v.bitmap /\ new \notin vol.bitmap  BY <3>1
      <3> QED BY <3>2
    <2>2. f.st = "linked" /\ size # off
      BY <1>1, <1>2, <1>3, <2>1 DEF InodeOK, Free
    <2>3. m.ok  BY <1>3, <1>8, <2>1, <2>2
    <2>4. size = off + 1  BY <1>5, <1>12, <2>2 DEF MapsBehind
    <2>5. g.size = f.size + 1 /\ g.size # f.size
      BY <1>5, <1>9, <1>12, <2>3, <2>4
    <2>6. g.dirty = TRUE  BY <1>9, <2>5
    <2>7. Consistent(m.v, [inode EXCEPT ![i] = g], pending, T)
      BY <1>3, <1>9, <1>10, <1>12, <2>2, <2>3, <2>5, <2>6, MapGrownConsistent, Zenon DEF Linked
    <2> QED BY <1>2, <2>7
  <1> QED BY <1>6, <1>11, <1>12

\* exfat_get_block for a read
LEMMA ReadConsistent ==
  ASSUME NEW T, Consistent(vol, inode, pending, T), faults' = {}, NEW i \in Inodes, NEW off \in Nat,
         Read(i, off)
  PROVE  Consistent(vol', inode', pending', T)
  <1>1. HasData(i) /\ Map(i, off, inode[i].size) /\ off < inode[i].size  BY DEF Read
  <1>2. MapsBehind(i, off, inode[i].size)  BY <1>1 DEF MapsBehind
  <1>3. InodeOK(inode[i])  BY ConsistentIs
  <1>4. inode[i].size \in Nat  BY <1>1, <1>3 DEF InodeOK, HasData, Free
  <1> QED BY <1>1, <1>2, <1>4, MapConsistent

\* exfat_write_begin, exfat_write_end and exfat_write_failed
LEMMA WriteConsistent ==
  ASSUME NEW T, Consistent(vol, inode, pending, T), faults' = {}, NEW i \in Inodes,
         Write(i) \/ WriteFails(i)
  PROVE  Consistent(vol', inode', pending', T)
  <1>1. PICK size \in {inode[i].size, inode[i].size + 1} : HasData(i) /\ Map(i, inode[i].size, size)
    BY DEF Write, WriteFails
  <1>2. InodeOK(inode[i])  BY ConsistentIs
  <1>3. inode[i].size \in Nat  BY <1>1, <1>2 DEF InodeOK, HasData, Free
  <1>4. MapsBehind(i, inode[i].size, size) /\ size \in Nat  BY <1>1, <1>3 DEF MapsBehind
  <1> QED BY <1>1, <1>3, <1>4, MapConsistent
-----------------------------------------------------------------------------
(* A directory is looked through for a name.                               *)

LEMMA LeastIs ==
  ASSUME NEW S \in SUBSET Nat, S # {}
  PROVE  Least(S) \in S /\ \A y \in S : Least(S) <= y
  <1>1. \E x \in S : \A y \in S : x <= y  BY LeastNat
  <1> QED BY <1>1, Zenon DEF Least

\* Where a directory has a slot that was never used, all before are used.
LEMMA RunStartIs ==
  ASSUME NEW s, NEW j \in Nat, IsEmpty(s[j])
  PROVE  /\ RunStart(s, j) \in 0 .. j
         /\ \A k \in RunStart(s, j) .. j : IsEmpty(s[k])
  <1> DEFINE R == {i \in 0 .. j : \A k \in i .. j : IsEmpty(s[k])}
  <1>1. j \in R
    <2>1. \A k \in j .. j : k = j  OBVIOUS
    <2> QED BY <2>1
  <1>2. R \in SUBSET Nat /\ R # {}  BY <1>1
  <1>3. Least(R) \in R  BY <1>2, LeastIs
  <1> QED BY <1>3 DEF RunStart

\* exfat_find_dir_entry finds a name that is there, in a directory that is in order;
\* else the room it remembers has only used slots before it.
Found(r, s, v, p, name) ==
    \/ /\ r.entry \in HeadsAt(s) /\ s[r.entry].name = name
       /\ r.v = [v EXCEPT !.hint = NoHint]
    \/ /\ r.entry = -2 /\ \A j \in HeadsAt(s) : s[j].name # name
       /\ \/ r.v = [v EXCEPT !.hint = [dir |-> p.dir, entry |-> -1, clu |-> NoChain]]
          \/ \E e \in DOMAIN s :
                /\ \A k \in 0 .. e - 1 : s[k] # Unused
                /\ r.v = [v EXCEPT !.hint = [dir |-> p.dir, entry |-> e,
                                             clu |-> Rest(v, p, e \div SlotsPerClu)]]

LEMMA FindInIs ==
  ASSUME NEW N \in Nat, NEW s, DOMAIN s = 0 .. N - 1, InOrder(s), NEW v, NEW p, NEW name \in Names
  PROVE  Found(FindIn(s, v, p, name), s, v, p, name)
  <1> DEFINE r == FindIn(s, v, p, name)
             seen == {j \in DOMAIN s : \A k \in 0 .. j - 1 : s[k] # Unused}
             hits == {j \in seen : IsHead(s[j]) /\ s[j].name = name /\
                                   \A m \in 1 .. NameLen[name] - 1 : j + m \in seen /\ s[j + m] = Ext}
             room == {j \in seen : /\ IsEmpty(s[j])
                                   /\ s[j] = Unused \/ j - RunStart(s, j) + 1 >= NameLen[name]}
             at == RunStart(s, Least(room))
  <1>1. r = IF hits # {} THEN [entry |-> Least(hits), v |-> [v EXCEPT !.hint = NoHint]]
            ELSE [entry |-> -2,
                  v |-> [v EXCEPT !.hint =
                      IF room = {} THEN [dir |-> p.dir, entry |-> -1, clu |-> NoChain]
                      ELSE [dir |-> p.dir, entry |-> at, clu |-> Rest(v, p, at \div SlotsPerClu)]]]
    BY DEF FindIn
  <1>2. seen \subseteq DOMAIN s /\ seen \in SUBSET Nat  OBVIOUS
  <1>3. NameLen[name] \in Nat /\ NameLen[name] >= 1  BY VolumeAssumption
  <1>4. ASSUME NEW j \in HeadsAt(s), s[j].name = name PROVE j \in hits
    <2>1. j \in DOMAIN s /\ IsHead(s[j]) /\ j \in Nat  BY DEF HeadsAt
    <2>2. s[j] # Unused  BY <2>1, SlotKinds
    <2>3. \A k \in 0 .. j - 1 : s[k] # Unused
      <3> TAKE k \in 0 .. j - 1
      <3>1. k \in DOMAIN s /\ k < j  BY <2>1
      <3> QED BY <2>1, <2>2, <3>1 DEF InOrder
    <2>4. ASSUME NEW m \in 1 .. NameLen[name] - 1 PROVE j + m \in seen /\ s[j + m] = Ext
      <3>1. j + m \in DOMAIN s /\ s[j + m] = Ext  BY <1>4, <2>1 DEF InOrder
      <3>2. s[j + m] # Unused  BY <3>1, SlotKinds
      <3>3. \A k \in 0 .. (j + m) - 1 : s[k] # Unused
        <4> TAKE k \in 0 .. (j + m) - 1
        <4>1. k \in DOMAIN s /\ k < j + m  BY <2>1, <3>1, <1>3
        <4> QED BY <3>1, <3>2, <4>1 DEF InOrder
      <3> QED BY <3>1, <3>3
    <2> QED BY <1>4, <2>1, <2>3, <2>4
  <1>5. CASE hits # {}
    <2>1. hits \in SUBSET Nat  BY <1>2
    <2>2. Least(hits) \in hits  BY <1>5, <2>1, LeastIs, Zenon
    <2>3. r.entry = Least(hits) /\ r.v = [v EXCEPT !.hint = NoHint]  BY <1>1, <1>5
    <2>4. r.entry \in DOMAIN s /\ IsHead(s[r.entry]) /\ s[r.entry].name = name  BY <2>2, <2>3
    <2> QED BY <2>3, <2>4 DEF HeadsAt, Found
  <1>6. CASE hits = {}
    <2>1. r.entry = -2 /\ \A j \in HeadsAt(s) : s[j].name # name
      <3>1. r.entry = -2  BY <1>1, <1>6
      <3> HIDE DEF r, hits
      <3> QED BY <1>4, <1>6, <3>1
    <2>2. CASE room = {}
      <3>1. r.v = [v EXCEPT !.hint = [dir |-> p.dir, entry |-> -1, clu |-> NoChain]]
        BY <1>1, <1>6, <2>2
      <3> QED BY <2>1, <3>1 DEF Found
    <2>3. CASE room # {}
      <3>1. room \in SUBSET Nat  BY <1>2
      <3>2. Least(room) \in room  BY <2>3, <3>1, LeastIs, Zenon
      <3>3. Least(room) \in Nat /\ IsEmpty(s[Least(room)]) /\ Least(room) \in DOMAIN s
            /\ \A k \in 0 .. Least(room) - 1 : s[k] # Unused
        BY <3>2
      <3> HIDE DEF room
      <3>4. at \in 0 .. Least(room)  BY <3>3, RunStartIs
      <3>5. at \in DOMAIN s /\ \A k \in 0 .. at - 1 : s[k] # Unused  BY <3>3, <3>4
      <3>6. r.v = [v EXCEPT !.hint = [dir |-> p.dir, entry |-> at,
                                      clu |-> Rest(v, p, at \div SlotsPerClu)]]
        BY <1>1, <1>6, <2>3
      <3> QED BY <2>1, <3>5, <3>6 DEF Found
    <2> QED BY <2>2, <2>3
  <1> QED BY <1>5, <1>6

\* A directory that has an inode.
LEMMA OpenedIs ==
  ASSUME NEW v, NEW ino, NEW pnd, NEW T, Consistent(v, ino, pnd, T), NEW d \in Inodes,
         IsDirectory(ino[d])
  PROVE  LET c == ino[d].start
         IN /\ c \in DOMAIN T /\ T[c] = Clus(v, ino[d]) /\ Whole(v, ino[d], T[c]) /\ Owns(ino[d])
            /\ Through(v, ChainOf(ino[d]), T[c]) /\ InOrder(View(v, T[c]))
            /\ ino[d].size = Len(T[c]) /\ ino[d].flags \in {1, 3}
            /\ c = RootClu => d = Root /\ ino[d].flags = 1
            /\ \A j \in Inodes : IsDirectory(ino[j]) /\ ino[j].start = c => j = d
            /\ \A x \in Entries(v, T) : x.head.type = "dir" /\ x.head.clu = c =>
                  d # Root /\ Has(ino, d, x) /\ x.head.flags = ino[d].flags
  <1> DEFINE c == ino[d].start
             E == Entries(v, T)
  <1>1. /\ Good(v, ino) /\ NamesTrue(E, ino, pnd, T) /\ Dirs(ino, pnd)
        /\ ChainsTrue(Lone(E, ino), v, ino, T) /\ Ordered(v, T)
    BY DEF Consistent, Catalogue, DataTrue
  <1>2. Owns(ino[d]) /\ T[c] = Clus(v, ino[d]) /\ c \in DOMAIN T /\ ino[d].size = Len(T[c])
    BY <1>1, DirOwns DEF Good, IsDirectory, ChainsTrue, NamesTrue, DirsTrue
  <1>3. Whole(v, ino[d], T[c])  BY <1>1, <1>2 DEF Good, Apart
  <1>4. Through(v, ChainOf(ino[d]), T[c])  BY <1>3 DEF Whole
  <1>5. InOrder(View(v, T[c]))  BY <1>1, <1>2 DEF Ordered
  <1>6. ASSUME NEW j \in Inodes, IsDirectory(ino[j]), ino[j].start = c PROVE j = d
    <2>1. Owns(ino[j])  BY <1>1, <1>6, DirOwns DEF Good, IsDirectory
    <2> QED BY <1>1, <1>2, <1>6, <2>1, SameDirectory
  <1>7. Root \in Inodes /\ IsDirectory(ino[Root]) /\ ino[Root].start = RootClu /\ ino[Root].flags = 1
    BY <1>1, VolumeAssumption DEF Dirs, IsDirectory
  <1>8. ino[d].flags \in {1, 3}  BY <1>4 DEF Through, ChainOf, Chain
  <1>9. ASSUME NEW x \in E, x.head.type = "dir", x.head.clu = c
        PROVE  d # Root /\ Has(ino, d, x) /\ x.head.flags = ino[d].flags
    <2>1. DirsTrue(E, ino, T)  BY <1>1 DEF NamesTrue
    <2>2. d # Root  BY <1>7, <1>9, <2>1 DEF DirsTrue
    <2>3. PICK y \in E : Home(E, ino, d, y) /\ Has(ino, d, y)
      BY <1>1, <2>2, OwnEntry DEF IsDirectory
    <2>4. Agrees(ino[d], y.head)  BY <2>3 DEF Home
    <2>5. ino[d].start # EOC  BY <1>2 DEF Owns
    <2>6. y.head.type = "dir" /\ y.head.clu = c /\ y.head.flags = ino[d].flags
      BY <2>4, <2>5 DEF Agrees, IsDirectory
    <2>7. x = y  BY <1>9, <2>1, <2>6 DEF DirsTrue
    <2> QED BY <2>2, <2>3, <2>6, <2>7
  <1> QED BY <1>2, <1>3, <1>4, <1>5, <1>6, <1>7, <1>8, <1>9

\* Its entries, as they are found.
LEMMA OpenedEntries ==
  ASSUME NEW v, NEW ino, NEW pnd, NEW T, Consistent(v, ino, pnd, T), NEW d \in Inodes,
         IsDirectory(ino[d])
  PROVE  LET c == ino[d].start
             s == View(v, T[c])
         IN /\ Scan(v, ChainOf(ino[d])) = s /\ Len(T[c]) * SlotsPerClu \in Nat
            /\ DOMAIN s = 0 .. Len(T[c]) * SlotsPerClu - 1
            /\ \A j \in HeadsAt(s) : At(v, T, c, j) \in Entries(v, T)
            /\ \A x \in Entries(v, T) : x.dir = c => x.at \in HeadsAt(s) /\ x.head = s[x.at]
            /\ \A h \in HeadsOf(v, ChainOf(ino[d])) : \E x \in Entries(v, T) : x.dir = c /\ x.head = h
  <1> DEFINE c == ino[d].start
             s == View(v, T[c])
  <1>1. c \in DOMAIN T /\ Through(v, ChainOf(ino[d]), T[c])  BY OpenedIs
  <1>2. FatOK(v) /\ TableOK(v, T)
    <2>1. Catalogue(Entries(v, T), v, ino, pnd, T)  BY DEF Consistent
    <2> QED BY <2>1, TableIs DEF Catalogue, Good, VolOK
  <1>3. Scan(v, ChainOf(ino[d])) = s  BY <1>1, <1>2, SlotIs
  <1>4. /\ Len(T[c]) * SlotsPerClu \in Nat /\ DOMAIN s = 0 .. Len(T[c]) * SlotsPerClu - 1
    BY <1>1, <1>2, ViewDomain
  <1>5. \A j \in HeadsAt(s) : At(v, T, c, j) \in Entries(v, T)  BY <1>1, AtIs
  <1>6. \A x \in Entries(v, T) : x.dir = c => x.at \in HeadsAt(s) /\ x.head = s[x.at]
    BY EntryFacts
  <1>7. \A h \in HeadsOf(v, ChainOf(ino[d])) : \E x \in Entries(v, T) : x.dir = c /\ x.head = h
    <2> TAKE h \in HeadsOf(v, ChainOf(ino[d]))
    <2>1. PICK j \in HeadsAt(s) : h = s[j]  BY <1>3 DEF HeadsOf, HeadsAt
    <2>2. At(v, T, c, j).dir = c /\ At(v, T, c, j).head = h  BY <2>1 DEF At
    <2> QED BY <1>5, <2>1, <2>2
  <1> QED BY <1>3, <1>4, <1>5, <1>6, <1>7

\* A lookup finds what is whole, and nobody else's.
LEMMA EntriesApartIs ==
  ASSUME NEW T, Consistent(vol, inode, pending, T)
  PROVE  EntriesApart
  <1> SUFFICES ASSUME NEW d \in Inodes, Linked(d), IsDir(d),
                      NEW h \in HeadsOf(vol, ChainOf(inode[d])), Positive(d, h.name) = {},
                      ~(h.type = "file" /\ h.size = 0)
               PROVE  LET q == ChainSeq(vol, HeadChain(h))
                      IN Stranger(vol, inode, HeadChain(h), q) /\ h.size \in 1 .. Len(q)
    BY DEF EntriesApart
  <1> DEFINE E == Entries(vol, T)
             c == inode[d].start
  <1>1. IsDirectory(inode[d])  BY DEF Linked, IsDir, IsDirectory
  <1>2. PICK x \in E : x.dir = c /\ x.head = h  BY <1>1, OpenedEntries
  <1>3. /\ NamesTrue(E, inode, pending, T) /\ ChainsTrue(Lone(E, inode), vol, inode, T)
        /\ \A j \in Inodes : IsDirectory(inode[j]) /\ inode[j].start = c => j = d
    BY <1>1, OpenedIs DEF Consistent, Catalogue, DataTrue
  <1>4. ASSUME NEW i \in Inodes \ {Root}, Has(inode, i, x) PROVE FALSE
    <2>1. inode[i].st = "linked" /\ inode[i].name = h.name /\ inode[inode[i].parent].start = c
      BY <1>2, <1>4 DEF Has
    <2>2. inode[i].parent \in Inodes /\ IsDirectory(inode[inode[i].parent])
      BY <1>3, <2>1 DEF NamesTrue, HomesTrue, IsDirectory
    <2>3. inode[i].parent = d  BY <1>3, <2>1, <2>2
    <2> QED BY <2>1, <2>3 DEF Positive, Linked
  <1>5. x.head.type \in {"file", "dir"}  BY <1>2, EntryFacts DEF IsHead
  <1>6. x \in Lone(E, inode)  BY <1>2, <1>4, <1>5 DEF Lone
  <1>7. Stranger(vol, inode, HeadChain(x.head), ClusAt(vol, x)) /\ x.head.size \in 1 .. Len(ClusAt(vol, x))
    BY <1>3, <1>6, LoneIs
  <1> QED BY <1>2, <1>7 DEF ClusAt

\* The hint says where in the directory d there is room.
LEMMA HintAt ==
  ASSUME NEW v, NEW ino, NEW pnd, NEW T, Consistent(v, ino, pnd, T), NEW d \in Inodes,
         IsDirectory(ino[d]), NEW p, p = ChainOf(ino[d]),
         NEW e \in DOMAIN View(v, T[ino[d].start]),
         \A k \in 0 .. e - 1 : View(v, T[ino[d].start])[k] # Unused,
         NEW w, SameFat(v, w), w.slots = v.slots,
         w.hint = [dir |-> p.dir, entry |-> e, clu |-> Rest(v, p, e \div SlotsPerClu)]
  PROVE  HintTrue(Entries(v, T), w, T)
  <1> DEFINE c == ino[d].start
             q == T[c]
             k == e \div SlotsPerClu
             E == Entries(v, T)
  <1>1. /\ c \in DOMAIN T /\ Through(v, p, q) /\ p.flags = ino[d].flags /\ p.dir = c
        /\ p.size = ino[d].size /\ ino[d].size = Len(q)
        /\ c = RootClu => d = Root /\ ino[d].flags = 1
        /\ \A x \in E : x.head.type = "dir" /\ x.head.clu = c => x.head.flags = ino[d].flags
    <2>1. /\ c \in DOMAIN T /\ Through(v, p, q) /\ ino[d].size = Len(q)
          /\ c = RootClu => d = Root /\ ino[d].flags = 1
          /\ \A x \in E : x.head.type = "dir" /\ x.head.clu = c => x.head.flags = ino[d].flags
      BY OpenedIs
    <2>2. p.flags = ino[d].flags /\ p.dir = c /\ p.size = ino[d].size  BY DEF ChainOf, Chain
    <2> HIDE DEF c, q, E
    <2> QED BY <2>1, <2>2
  <1>2. VolOK(v) /\ FatOK(v) /\ TableOK(v, T)
    <2>1. Catalogue(E, v, ino, pnd, T)  BY DEF Consistent
    <2> QED BY <2>1, TableIs DEF Catalogue, Good, VolOK
  <1>3. DOMAIN View(v, q) = Idx(q) /\ Len(q) \in Nat  BY <1>1, <1>2, ViewDomain
  <1>4. e \in Nat /\ k \in Nat /\ k + 1 \in 1 .. Len(q)
    <2>1. q \in Seq(Clusters)  BY <1>1 DEF Through
    <2>2. e \in Nat /\ k + 1 \in 1 .. Len(q)  BY <1>3, <2>1, LocFacts
    <2>3. k \in Nat  BY <2>2, DivMod
    <2> QED BY <2>2, <2>3
  <1>5. w.hint.dir = c /\ w.hint.entry = e /\ w.hint.clu = Rest(v, p, k)  BY <1>1
  <1>6. /\ Rest(v, p, k).dir = q[k + 1] /\ Rest(v, p, k).flags = p.flags
        /\ p.flags = 3 => Rest(v, p, k).size = Len(q) - (k + 1) + 1
    <2>1. k \in 0 .. Len(q) - 1  BY <1>3, <1>4
    <2>2. NthCluster(v, p, k) = q[k + 1]  BY <1>1, <1>2, <2>1, NthThrough
    <2>3. Rest(v, p, k).size = IF p.flags = 3 THEN p.size - k ELSE p.size  BY DEF Rest, Chain
    <2>4. p.flags = 3 => Rest(v, p, k).size = Len(q) - k  BY <1>1, <2>3
    <2>5. Len(q) - k = Len(q) - (k + 1) + 1  BY <1>3, <1>4
    <2> QED BY <2>2, <2>4, <2>5 DEF Rest, Chain
  <1>7. Through(v, Rest(v, p, k), SubSeq(q, k + 1, Len(q)))
    <2> DEFINE r == Rest(v, p, k)
               a == k + 1
    <2>1. r.dir = q[a] /\ r.flags = p.flags /\ (p.flags = 3 => r.size = Len(q) - a + 1) /\ a \in 1 .. Len(q)
      BY <1>4, <1>6
    <2> HIDE DEF r, a
    <2>2. Through(v, r, SubSeq(q, a, Len(q)))  BY <1>1, <2>1, RestIsThrough
    <2> QED BY <2>2 DEF r, a
  <1>8. Through(w, Rest(v, p, k), SubSeq(q, k + 1, Len(q)))  BY <1>2, <1>7, SameFatIs
  <1>9. View(w, q) = View(v, q)  BY SlotsSame
  <1>10. k < Len(q)  BY <1>3, <1>4
  <1>13. HintType(w.hint)
    <2>1. DOMAIN Rest(v, p, k) = {"dir", "size", "flags"}  BY DEF Rest, Chain
    <2>2. w.hint = [dir |-> p.dir, entry |-> e, clu |-> Rest(v, p, k)]  OBVIOUS
    <2>3. DOMAIN w.hint = {"dir", "entry", "clu"} /\ w.hint.clu = Rest(v, p, k) /\ w.hint.entry = e
      <3> HIDE DEF k
      <3> QED BY <2>2
    <2> HIDE DEF k
    <2> QED BY <1>4, <2>1, <2>3 DEF HintType
  <1> HIDE DEF k, q
  <1>11. \A x \in E : x.head.type = "dir" /\ x.head.clu = w.hint.dir => x.head.flags = w.hint.clu.flags
    BY <1>1, <1>5, <1>6
  <1>12. w.hint.dir = RootClu => w.hint.clu.flags = 1  BY <1>1, <1>5, <1>6
  <1> QED BY <1>4, <1>5, <1>8, <1>9, <1>10, <1>11, <1>12, <1>13 DEF HintTrue, q, k

\* What a lookup finds, and what it remembers of a name that is not there.
LEMMA FindIs ==
  ASSUME NEW v, NEW ino, NEW pnd, NEW T, Consistent(v, ino, pnd, T), NEW d \in Inodes,
         IsDirectory(ino[d]), NEW name \in Names
  PROVE  LET r == FindDirEntry(v, ChainOf(ino[d]), name)
             c == ino[d].start
             s == View(v, T[c])
         IN /\ SameFat(v, r.v) /\ ChainsSame(v, r.v) /\ r.v.slots = v.slots
            /\ HintTrue(Entries(v, T), r.v, T)
            /\ \/ /\ r.entry \in HeadsAt(s) /\ s[r.entry].name = name /\ r.entry \in Nat
                  /\ Slot(v, ChainOf(ino[d]), r.entry) = s[r.entry]
               \/ r.entry = -2 /\ \A j \in HeadsAt(s) : s[j].name # name
  <1> DEFINE p == ChainOf(ino[d])
             r == FindDirEntry(v, p, name)
             c == ino[d].start
             s == View(v, T[c])
             E == Entries(v, T)
  <1>1. VolOK(v) /\ Counted(v) /\ FatOK(v) /\ Fields \subseteq DOMAIN v
    BY DEF Consistent, Catalogue, Good, VolOK
  <1>2. /\ Scan(v, p) = s /\ Len(T[c]) * SlotsPerClu \in Nat
        /\ DOMAIN s = 0 .. Len(T[c]) * SlotsPerClu - 1
    BY OpenedEntries
  <1>3. InOrder(s) /\ Through(v, p, T[c]) /\ DOMAIN s = Idx(T[c])  BY <1>2, OpenedIs DEF Idx
  <1>4. SameFat(v, r.v) /\ ChainsSame(v, r.v)  BY <1>1, FoundIs, SameFatChains
  <1> DEFINE N == Len(T[c]) * SlotsPerClu
  <1>5. Found(r, s, v, p, name)
    <2>1. r = FindIn(s, v, p, name)  BY <1>2 DEF FindDirEntry
    <2>2. N \in Nat /\ DOMAIN s = 0 .. N - 1  BY <1>2
    <2> HIDE DEF N, s, p, r
    <2> QED BY <1>3, <2>1, <2>2, FindInIs
  <1>6. ASSUME NEW h, r.v = [v EXCEPT !.hint = h] PROVE r.v.slots = v.slots /\ r.v.hint = h
    BY <1>1, <1>6 DEF Fields
  <1>7. r.v.slots = v.slots  BY <1>5, <1>6, Zenon DEF Found
  <1>8. HintTrue(E, r.v, T)
    <2>2. CASE r.v = [v EXCEPT !.hint = NoHint]
      <3>1. r.v.hint = NoHint  BY <1>6, <2>2
      <3> QED BY <3>1, NoHintIs
    <2>3. CASE r.v = [v EXCEPT !.hint = [dir |-> p.dir, entry |-> -1, clu |-> NoChain]]
      <3>1. r.v.hint = [dir |-> p.dir, entry |-> -1, clu |-> NoChain]  BY <1>6, <2>3
      <3>2. r.v.hint.entry = -1  BY <3>1
      <3> HIDE DEF p, r, E
      <3>3. HintType(r.v.hint)  BY <3>1, NoHintIs
      <3> QED BY <3>2, <3>3, NoHintIs
    <2>4. CASE \E e \in DOMAIN s :
                    /\ \A k \in 0 .. e - 1 : s[k] # Unused
                    /\ r.v = [v EXCEPT !.hint = [dir |-> p.dir, entry |-> e,
                                                 clu |-> Rest(v, p, e \div SlotsPerClu)]]
      <3>1. PICK e \in DOMAIN s :
                    /\ \A k \in 0 .. e - 1 : s[k] # Unused
                    /\ r.v = [v EXCEPT !.hint = [dir |-> p.dir, entry |-> e,
                                                 clu |-> Rest(v, p, e \div SlotsPerClu)]]
        BY <2>4
      <3>2. r.v.hint = [dir |-> p.dir, entry |-> e, clu |-> Rest(v, p, e \div SlotsPerClu)]
        BY <1>6, <3>1
      <3>3. PICK w : w = r.v  OBVIOUS
      <3>4. p = ChainOf(ino[d]) /\ IsDirectory(ino[d]) /\ e \in DOMAIN View(v, T[ino[d].start])
            /\ \A k \in 0 .. e - 1 : View(v, T[ino[d].start])[k] # Unused
        BY <3>1
      <3>5. SameFat(v, w) /\ w.slots = v.slots
            /\ w.hint = [dir |-> p.dir, entry |-> e, clu |-> Rest(v, p, e \div SlotsPerClu)]
        BY <1>4, <1>7, <3>2, <3>3
      <3> HIDE DEF r, p, s
      <3>6. HintTrue(E, w, T)  BY <3>4, <3>5, HintAt
      <3> QED BY <3>3, <3>6
    <2> HIDE DEF r
    <2> QED BY <1>5, <2>2, <2>3, <2>4 DEF Found
  <1>9. ASSUME r.entry \in HeadsAt(s) PROVE r.entry \in Nat /\ Slot(v, p, r.entry) = s[r.entry]
    <2>1. r.entry \in DOMAIN s  BY <1>9 DEF HeadsAt
    <2>2. r.entry \in Nat  BY <1>2, <2>1
    <2> HIDE DEF r
    <2> QED BY <1>1, <1>3, <2>1, <2>2, SlotIs
  <1> HIDE DEF r, s
  <1>10. \/ r.entry \in HeadsAt(s) /\ s[r.entry].name = name
         \/ r.entry = -2 /\ \A j \in HeadsAt(s) : s[j].name # name
    BY <1>5 DEF Found
  <1> QED BY <1>4, <1>7, <1>8, <1>9, <1>10 DEF r, s

\* The step of exfat_lookup that makes the inode i of the entry x.
Attached(v, ino, pnd, T, i, x, w, jno) ==
    /\ ChainsSame(v, w) /\ w.slots = v.slots /\ HintTrue(Entries(v, T), w, T)
    /\ Good(w, jno) /\ Dirs(jno, pnd)
    /\ i \in Inodes /\ ino[i].st = "free" /\ \A j \in Inodes : j # i => jno[j] = ino[j]
    /\ x \in Entries(v, T) /\ jno[i].st = "linked" /\ Agrees(jno[i], x.head)
    /\ jno[i].parent \in Inodes /\ IsDirectory(ino[jno[i].parent])
    /\ x.dir = ino[jno[i].parent].start /\ jno[i].dir = ChainOf(ino[jno[i].parent])
    /\ jno[i].entry = x.at /\ jno[i].size = x.head.size
    /\ \A j \in Inodes \ {Root} : Named(ino, j) => ~Has(ino, j, x)
    /\ HasClusters(x) => ChainOf(jno[i]) = HeadChain(x.head)
    /\ ~HasClusters(x) => jno[i].start = EOC

LEMMA AttachedNames ==
  ASSUME NEW v, NEW ino, NEW pnd, NEW T, Consistent(v, ino, pnd, T), NEW i, NEW x, NEW w, NEW jno,
         Attached(v, ino, pnd, T, i, x, w, jno)
  PROVE  NamesStep(Entries(v, T), v, ino, pnd, T, i, {}, {x}, jno, pnd, T)
  <1> USE DEF Attached
  <1> DEFINE E == Entries(v, T)
             d == jno[i].parent
  <1>1. /\ Good(v, ino) /\ Dirs(ino, pnd) /\ NamesTrue(E, ino, pnd, T) /\ DirsTrue(E, ino, T)
        /\ EntriesTrue(E, T) /\ NamesMissing(E, ino, pnd)
    BY DEF Consistent, Catalogue, NamesTrue
  <1>2. Root \in Inodes /\ IsDirectory(ino[Root]) /\ ino[Root].start = RootClu /\ i # Root
    BY <1>1, VolumeAssumption DEF Dirs, IsDirectory
  <1>3. ino[i].st # "linked" /\ ~Named(ino, i) /\ Named(jno, i) /\ jno[i].name = x.head.name
        /\ jno[i].type = x.head.type
    BY <1>2 DEF Named, Agrees
  <1>4. d # i /\ jno[d] = ino[d]  BY <1>3 DEF IsDirectory
  <1>5. InodesStep(v, ino, pnd, i, jno, pnd)
    <2>1. NamesStay(ino, jno, i)  BY DEF NamesStay
    <2>2. \A k \in Inodes : IsDirectory(ino[k]) => IsDirectory(jno[k]) /\ jno[k] = ino[k]
      BY <1>3 DEF IsDirectory
    <2>3. DirsStay(ino, jno, i)  BY <2>2 DEF DirsStay
    <2> QED BY <1>1, <1>2, <2>1, <2>3 DEF InodesStep, Good
  <1>6. /\ ino[d].start \in DOMAIN T /\ ino[d].flags \in {1, 3}
        /\ ino[d].start = RootClu => d = Root /\ ino[d].flags = 1
        /\ \A k \in Inodes : IsDirectory(ino[k]) /\ ino[k].start = ino[d].start => k = d
    BY OpenedIs
  <1>7. Knows(jno, jno[i])  BY <1>4, <1>6 DEF Knows, ChainOf, Chain
  <1>8. jno[i].type = "dir" => d = Root /\ jno[i].dir.flags = 1
    <2> HAVE jno[i].type = "dir"
    <2>1. x.dir = RootClu  BY <1>1, <1>3 DEF DirsTrue
    <2> QED BY <1>6, <2>1 DEF ChainOf, Chain
  <1>9. ASSUME NEW j \in Inodes \ {Root}, Named(ino, j), ino[j].parent = d PROVE ino[j].name # x.head.name
    <2>1. ~Has(ino, j, x)  BY <1>9
    <2> QED BY <1>9, <2>1 DEF Has, Named
  <1>10. x.at \in Nat /\ x.head \in Heads
    <2>1. TableOK(v, T) /\ Ordered(v, T)  BY TableIs DEF Consistent
    <2> QED BY <2>1, SlotsOfEntry
  <1>11. Placed(ino, jno, i)
    <2>1. jno[i].parent \in Inodes /\ IsDirectory(jno[jno[i].parent])  BY <1>4
    <2>2. jno[i].entry \in Nat  BY <1>10
    <2>3. \A j \in Inodes \ {Root} : j # i /\ Named(ino, j) /\ ino[j].parent = jno[i].parent
                                  => ino[j].name # jno[i].name
      BY <1>3, <1>9
    <2> QED BY <1>7, <1>8, <2>1, <2>2, <2>3 DEF Placed
  <1>12. EntriesStep(E, ino, i, {}, {x}, jno, T)
    <2> DEFINE Y == {x}
               X == {}
    <2>1. ASSUME NEW y \in Y
          PROVE  /\ y.dir \in DOMAIN T /\ y.head \in Heads
                 /\ y.dir = jno[jno[i].parent].start /\ Agrees(jno[i], y.head)
                 /\ jno[i].type = "dir" => y.at = jno[i].entry
                 /\ \A z \in E \ X : z.dir = y.dir /\ z.head.name = y.head.name => z = y
      <3>1. y = x  OBVIOUS
      <3>2. \A z \in E : z.dir = x.dir /\ z.head.name = x.head.name => z = x
        BY <1>1 DEF EntriesTrue
      <3> QED BY <1>4, <1>6, <1>10, <3>1, <3>2
    <2>2. \E y : Y = {y}  OBVIOUS
    <2>3. X \subseteq E /\ \A y \in X : Named(ino, i) /\ Has(ino, i, y)  OBVIOUS
    <2> HIDE DEF X, Y
    <2>4. EntriesStep(E, ino, i, X, Y, jno, T)
      BY <1>3, <1>11, <2>1, <2>2, <2>3 DEF EntriesStep
    <2> QED BY <2>4 DEF X, Y
  <1>13. TableStep(E, T, {}, {x}, T)
    <2>1. RootClu \in DOMAIN T  BY <1>1 DEF DirsTrue
    <2>2. ASSUME NEW y \in {x}, y.head.type = "dir"
          PROVE  /\ y.dir = RootClu /\ y.head.clu \in DOMAIN T \ {RootClu}
                 /\ \A z \in E \ {} : z.head.type = "dir" /\ z.head.clu = y.head.clu => z = y
      <3>1. y = x  OBVIOUS
      <3> QED BY <1>1, <2>2, <3>1 DEF DirsTrue
    <2> QED BY <2>1, <2>2 DEF TableStep
  <1>14. MissingStep({x}, pnd, jno, pnd)
    <2> SUFFICES ASSUME NEW k \in Inodes, pnd[k] # None
                 PROVE  x.dir = jno[k].start => x.head.name # pnd[k]
      BY DEF MissingStep
    <2>1. ino[k].st = "linked"  BY <1>1 DEF Dirs
    <2>2. jno[k] = ino[k]  BY <1>3, <2>1
    <2> QED BY <1>1, <2>2 DEF NamesMissing
  <1> QED BY <1>5, <1>12, <1>13, <1>14 DEF NamesStep

LEMMA AttachedKeeps ==
  ASSUME NEW v, NEW ino, NEW pnd, NEW T, Consistent(v, ino, pnd, T), NEW i, NEW x, NEW w, NEW jno,
         Attached(v, ino, pnd, T, i, x, w, jno)
  PROVE  Consistent(w, jno, pnd, T)
  <1> USE DEF Attached
  <1> DEFINE E == Entries(v, T)
             L == Lone(E, ino)
  <1>1. /\ Good(v, ino) /\ NamesTrue(E, ino, pnd, T) /\ DataTrue(L, v, ino, T) /\ Ordered(v, T)
        /\ InodeOK(ino[i]) /\ InodeOK(jno[i])
    BY DEF Consistent, Catalogue, Good
  <1>2. NamesStep(E, v, ino, pnd, T, i, {}, {x}, jno, pnd, T)  BY AttachedNames
  <1>3. ~Owns(ino[i]) /\ ~Named(ino, i)  BY <1>1, FreeIsFree DEF Named
  <1>4. (E \ {}) \cup {x} = E  OBVIOUS
  <1>5. NamesTrue(E, jno, pnd, T)
    <2>1. NamesTrue((E \ {}) \cup {x}, jno, pnd, T)  BY <1>1, <1>2, NamesKept
    <2> QED BY <1>4, <2>1, Zenon
  <1>6. Lone(E, jno) = L \ {x}
    <2>1. Lone((E \ {}) \cup {x}, jno) = L \ {x}  BY <1>1, <1>2, <1>3, LoneAttached
    <2> QED BY <1>4, <2>1, Zenon
  <1>7. DataTrue(L \ {x}, w, jno, T)
    <2>1. CASE HasClusters(x)
      <3>1. x \in L
        <4>1. \A j \in Inodes \ {Root} : Has(ino, j, x) => Named(ino, j)  BY DEF Has, Named
        <4> QED BY <2>1, <4>1 DEF Lone, HasClusters
      <3>2. /\ jno[i].start = x.head.clu /\ jno[i].size = x.head.size /\ jno[i].type = x.head.type
            /\ Clus(w, jno[i]) = ClusAt(v, x)
        <4>1. ChainOf(jno[i]) = HeadChain(x.head)  BY <2>1
        <4>2. \A f : Clus(w, f) = Clus(v, f)  BY SameChains
        <4>3. jno[i].start = x.head.clu  BY <4>1 DEF ChainOf, HeadChain, Chain
        <4> QED BY <4>1, <4>2, <4>3 DEF Clus, ClusAt, Agrees
      <3>3. Owns(jno[i])
        <4>1. x.head \in Heads  BY <1>1, EntryFacts
        <4>2. x.head.clu # EOC  BY <4>1, SlotKinds, ClusterFacts
        <4> QED BY <3>2, <4>2 DEF Owns
      <3>4. Attaches(L, v, ino, w, jno, i, x)
        BY <1>1, <1>3, <3>1, <3>2, <3>3 DEF Attaches
      <3> QED BY <1>1, <3>4, AttachData
    <2>2. CASE ~HasClusters(x)
      <3>1. L \ {x} = L  BY <2>2 DEF Lone, HasClusters
      <3>2. ~Owns(jno[i])  BY <2>2 DEF Owns
      <3>3. \A k \in Inodes : InodeOK(jno[k]) /\ (Owns(jno[k]) => SameData(ino[k], jno[k]))
        <4> TAKE k \in Inodes
        <4>1. InodeOK(jno[k])  BY DEF Good
        <4>2. CASE k = i  BY <3>2, <4>1, <4>2
        <4>3. CASE k # i  BY <4>1, <4>3 DEF SameData
        <4> QED BY <4>2, <4>3
      <3>4. StrangersStay(v, ino, w, jno)  BY <1>1, <3>3, KeepsChains DEF Keeps, Good
      <3>5. UsedBy(v, ino[i]) = {} /\ UsedBy(w, jno[i]) = {}  BY <1>3, <3>2 DEF UsedBy
      <3>6. OthersStay(v, w, UsedBy(v, ino[i]))  BY SameChains DEF OthersStay, ChainsSame
      <3>7. DataSteps(v, ino, w, jno, i)
        <4>1. \A j \in Inodes : j # i => SameOwner(ino[j], jno[j])  BY DEF SameOwner
        <4>2. w.bitmap = v.bitmap  BY DEF ChainsSame
        <4> QED BY <1>1, <3>4, <3>5, <3>6, <4>1, <4>2 DEF DataSteps
      <3>8. TableSteps(v, ino, T, w, jno, T, i)
        <4>1. ~IsDirectory(jno[i])  BY <1>1, <3>2, DirOwns DEF IsDirectory
        <4> QED BY <4>1 DEF TableSteps
      <3>9. L \subseteq E  BY DEF Lone
      <3>10. DataTrue(L, w, jno, T)  BY <1>1, <3>7, <3>8, <3>9, DataStep
      <3> QED BY <3>1, <3>10
    <2> QED BY <2>1, <2>2
  <1>8. Entries(w, T) = E /\ Ordered(w, T)  BY <1>1, SlotsSame
  <1> QED BY <1>5, <1>6, <1>7, <1>8 DEF Consistent, Catalogue

\* exfat_lookup
LEMMA LookupConsistent ==
  ASSUME NEW T, Consistent(vol, inode, pending, T), NEW d \in Inodes, NEW name \in Names,
         Lookup(d, name)
  PROVE  Consistent(vol', inode', pending', T)
  <1> DEFINE p == ChainOf(inode[d])
             r == FindDirEntry(vol, p, name)
             h == Slot(vol, p, r.entry)
             empty == h.type = "file" /\ h.size = 0
             New == NewInode(h.type, name, d, p, r.entry, IF empty THEN 3 ELSE h.flags,
                             IF empty THEN EOC ELSE h.clu, h.size)
             E == Entries(vol, T)
             c == inode[d].start
             s == View(vol, T[c])
  <1>1. /\ Inv /\ Good(vol, inode) /\ Dirs(inode, pending) /\ VolOK(vol) /\ Counted(vol)
        /\ NamesTrue(E, inode, pending, T) /\ DOMAIN inode = Inodes /\ HintTrue(E, vol, T)
        /\ TableOK(vol, T) /\ Root \in Inodes
    BY ConsistentIs
  <1>2. IsDirectory(inode[d]) /\ pending[d] = None /\ Positive(d, name) = {}
    BY DEF Lookup, OpenDir, Linked, IsDir, IsDirectory
  <1>3. /\ vol' = r.v
        /\ IF r.entry < 0
           THEN pending' = [pending EXCEPT ![d] = name] /\ inode' = inode
           ELSE /\ \E i \in Inodes : inode[i].st = "free" /\ inode' = [inode EXCEPT ![i] = New]
                /\ pending' = pending
    BY DEF Lookup
  <1>4. /\ SameFat(vol, r.v) /\ ChainsSame(vol, r.v) /\ r.v.slots = vol.slots
        /\ HintTrue(E, r.v, T)
        /\ \/ /\ r.entry \in HeadsAt(s) /\ s[r.entry].name = name /\ r.entry \in Nat
              /\ h = s[r.entry]
           \/ r.entry = -2 /\ \A j \in HeadsAt(s) : s[j].name # name
    BY <1>2, FindIs
  <1>5. Good(vol', inode') /\ Dirs(inode', pending')
    <2>1. EntriesApart  BY EntriesApartIs
    <2> QED BY <1>1, <2>1, LookupKeeps
  <1> HIDE DEF r, h, New
  <1>6. CASE r.entry = -2 /\ \A j \in HeadsAt(s) : s[j].name # name
    <2>1. pending' = [pending EXCEPT ![d] = name] /\ inode' = inode /\ vol' = r.v
      BY <1>3, <1>6
    <2>2. \A x \in E : x.dir = c => x.head.name # name
      <3> TAKE x \in E
      <3> HAVE x.dir = c
      <3>1. x.at \in HeadsAt(s) /\ x.head = s[x.at]  BY <1>2, OpenedEntries
      <3> HIDE DEF s
      <3> QED BY <1>6, <3>1
    <2>3. NamesMissing(E, inode', pending')
      BY <1>1, <2>1, <2>2 DEF NamesTrue, NamesMissing, Dirs
    <2>4. None # Root /\ None \notin Inodes  BY NoneAssumption, <1>1
    <2>5. QuietStep(vol, inode, pending, T, None, vol', inode', pending')
      BY <1>4, <1>5, <2>1, <2>3, <2>4 DEF QuietStep
    <2> QED BY <2>5, QuietKeeps
  <1>7. CASE r.entry \in HeadsAt(s) /\ s[r.entry].name = name /\ r.entry \in Nat /\ h = s[r.entry]
    <2>1. PICK i \in Inodes : inode[i].st = "free" /\ inode' = [inode EXCEPT ![i] = New]
      BY <1>3, <1>7
    <2>2. pending' = pending /\ vol' = r.v  BY <1>3, <1>7
    <2> DEFINE x == At(vol, T, c, r.entry)
    <2>3. x \in E  BY <1>2, <1>7, OpenedEntries, Zenon
    <2>4. x.dir = c /\ x.at = r.entry /\ x.head = h  BY <1>7 DEF At
    <2> HIDE DEF x, s
    <2>5. h \in Heads /\ h.name = name /\ h.type \in {"file", "dir"}
      <3>1. Ordered(vol, T)  BY DEF Consistent
      <3>2. h \in Heads  BY <2>3, <2>4, <3>1, EntryFacts
      <3> QED BY <1>7, <3>2, SlotKinds
    <2>6. /\ New.st = "linked" /\ New.type = h.type /\ New.name = name /\ New.parent = d
          /\ New.dir = p /\ New.entry = r.entry /\ New.size = h.size
          /\ New.start = (IF empty THEN EOC ELSE h.clu)
          /\ New.flags = (IF empty THEN 3 ELSE h.flags)
      BY DEF New, NewInode
    <2>7. inode'[i] = New /\ \A j \in Inodes : j # i => inode'[j] = inode[j]
      BY <1>1, <2>1
    <2>8. HasClusters(x) <=> ~empty  BY <2>4, <2>5 DEF HasClusters
    <2>9. HasClusters(x) => ChainOf(New) = HeadChain(x.head)
      BY <2>4, <2>6, <2>8 DEF ChainOf, HeadChain
    <2>10. ~HasClusters(x) => New.start = EOC  BY <2>6, <2>8
    <2>11. Agrees(New, h)
      <3>1. h.name = New.name /\ h.type = New.type /\ h.size = New.size  BY <2>5, <2>6
      <3>2. ~empty => h.clu # EOC  BY <2>5, SlotKinds, ClusterFacts
      <3>3. New.start = EOC => h.size = 0  BY <2>6, <3>2
      <3>4. New.start # EOC => h.clu = New.start /\ h.flags = New.flags  BY <2>6
      <3> HIDE DEF empty
      <3> QED BY <3>1, <3>3, <3>4 DEF Agrees
    <2>12. \A j \in Inodes \ {Root} : Named(inode, j) => ~Has(inode, j, x)
      <3> SUFFICES ASSUME NEW j \in Inodes \ {Root}, Named(inode, j), Has(inode, j, x) PROVE FALSE
        OBVIOUS
      <3>1. inode[j].st = "linked" /\ inode[j].name = name /\ inode[inode[j].parent].start = c
        BY <2>4, <2>5 DEF Has
      <3>2. inode[j].parent \in Inodes /\ IsDirectory(inode[inode[j].parent])  BY ParentIs
      <3>3. inode[j].parent = d  BY <1>2, <3>1, <3>2, OpenedIs
      <3> QED BY <1>2, <3>1, <3>3 DEF Positive, Linked
    <2>13. Good(vol', inode') /\ Dirs(inode', pending) /\ ChainsSame(vol, vol')
           /\ vol'.slots = vol.slots /\ HintTrue(E, vol', T)
      BY <1>4, <1>5, <2>2
    <2> HIDE DEF empty, p
    <2>14. Attached(vol, inode, pending, T, i, x, vol', inode')
      <3>1. inode'[i].dir = ChainOf(inode[d])  BY <2>6, <2>7 DEF p
      <3>2. /\ inode'[i].st = "linked" /\ inode'[i].parent = d /\ inode'[i].entry = x.at
            /\ inode'[i].size = x.head.size /\ Agrees(inode'[i], x.head) /\ x.dir = inode[d].start
        BY <2>4, <2>6, <2>7, <2>11
      <3>3. /\ HasClusters(x) => ChainOf(inode'[i]) = HeadChain(x.head)
            /\ ~HasClusters(x) => inode'[i].start = EOC
        BY <2>7, <2>9, <2>10
      <3> QED BY <1>2, <2>1, <2>3, <2>7, <2>12, <2>13, <3>1, <3>2, <3>3 DEF Attached
    <2> QED BY <2>2, <2>14, AttachedKeeps
  <1> QED BY <1>4, <1>6, <1>7

\* ffsUmountVol, ffsMountVol
LEMMA RemountConsistent ==
  ASSUME NEW T, Consistent(vol, inode, pending, T), Remount
  PROVE  Consistent(vol', inode', pending', T)
  <1> DEFINE E == Entries(vol, T)
  <1>1. /\ Inv /\ Good(vol, inode) /\ Dirs(inode, pending) /\ VolOK(vol) /\ Counted(vol)
        /\ NamesTrue(E, inode, pending, T) /\ DOMAIN inode = Inodes
        /\ TableOK(vol, T) /\ Root \in Inodes /\ Catalogue(E, vol, inode, pending, T)
        /\ Ordered(vol, T)
    BY ConsistentIs DEF Consistent
  <1>2. /\ vol' = Mounted(vol) /\ inode' = [inode EXCEPT ![Root] = RootInode(vol)]
        /\ pending' = pending
    BY DEF Remount
  <1>3. Good(vol', inode') /\ StrangersStay(vol, inode, vol', inode') /\ Dirs(inode', pending')
    BY <1>1, RemountKeeps DEF Keeps
  <1>4. /\ vol'.slots = vol.slots /\ vol'.fat = vol.fat /\ vol'.bitmap = vol.bitmap
        /\ vol'.hint = NoHint
    BY <1>2 DEF Mounted
  <1>5. ChainsSame(vol, vol')  BY <1>3, <1>4 DEF ChainsSame, Good
  <1> DEFINE f == inode[Root]
             q == T[RootClu]
  <1>6. IsDirectory(f) /\ f.start = RootClu /\ f.flags = 1  BY <1>1 DEF Dirs, IsDirectory
  <1>7. q = Clus(vol, f) /\ f.size = Len(q) /\ Through(vol, ChainOf(f), q) /\ Of(q) \subseteq vol.bitmap
    BY <1>1, <1>6, OpenedIs DEF Whole
  <1>8. /\ inode'[Root] = RootInode(vol) /\ \A j \in Inodes : j # Root => inode'[j] = inode[j]
    BY <1>1, <1>2
  <1> DEFINE g == RootInode(vol)
  <1>9. g.st = "linked" /\ g.type = "dir" /\ g.start = RootClu /\ g.flags = 1 /\ g.size = Len(q)
    <2>1. Through(vol, Chain(RootClu, 0, 1), q)
      BY <1>6, <1>7 DEF Through, ChainOf, Chain
    <2>2. g.size = ChainLen(vol, Chain(RootClu, 0, 1))  BY DEF RootInode, NewInode
    <2>3. ChainLen(vol, Chain(RootClu, 0, 1)) = Len(q)  BY <1>1, <2>1, ChainIs DEF VolOK
    <2> HIDE DEF q
    <2>4. g.st = "linked" /\ g.type = "dir" /\ g.start = RootClu /\ g.flags = 1
      BY DEF RootInode, NewInode
    <2> QED BY <2>2, <2>3, <2>4
  <1>10. \A j \in Inodes : SameOwner(inode[j], inode'[j])
    <2> TAKE j \in Inodes
    <2>1. CASE j = Root  BY <1>6, <1>7, <1>8, <1>9, <2>1 DEF SameOwner, IsDirectory
    <2>2. CASE j # Root  BY <1>8, <2>2 DEF SameOwner
    <2> QED BY <2>1, <2>2
  <1> HIDE DEF q, g
  <1>11. ChainOf(inode'[Root]) = ChainOf(f) /\ f.st = "linked" /\ f.type = "dir"
    BY <1>6, <1>7, <1>8, <1>9 DEF ChainOf, Chain, IsDirectory, g
  <1>12. Clus(vol', inode'[Root]) = q  BY <1>5, <1>7, <1>11, SameChains DEF Clus
  <1>13. None # Root /\ None \notin Inodes  BY NoneAssumption, <1>1
  <1>14. NamesStep(E, vol, inode, pending, T, None, {}, {}, inode', pending, T)
    <2>1. NamesStay(inode, inode', None)
      <3>1. inode'[Root].st = inode[Root].st /\ inode'[Root].type = inode[Root].type
            /\ inode'[Root].start = inode[Root].start
        BY <1>6, <1>8, <1>9, <1>11 DEF g
      <3> QED BY <1>8, <3>1 DEF NamesStay
    <2>2. DirsStay(inode, inode', None)
      <3> SUFFICES ASSUME NEW k \in Inodes, IsDirectory(inode[k])
                   PROVE  /\ IsDirectory(inode'[k]) /\ inode'[k].start = inode[k].start
                          /\ inode[k].flags = 1 => inode'[k].flags = 1
        BY DEF DirsStay
      <3>1. CASE k = Root  BY <1>6, <1>8, <1>9, <3>1 DEF IsDirectory, g
      <3>2. CASE k # Root  BY <1>8, <3>2
      <3> QED BY <3>1, <3>2
    <2>3. InodesStep(vol, inode, pending, None, inode', pending)
      BY <1>1, <1>2, <1>3, <1>13, <2>1, <2>2 DEF InodesStep, Good
    <2>4. EntriesStep(E, inode, None, {}, {}, inode', T)  BY <1>13 DEF EntriesStep, Named
    <2>5. TableStep(E, T, {}, {}, T)  BY <1>1 DEF TableStep, NamesTrue, DirsTrue
    <2>6. MissingStep({}, pending, inode', pending)  BY DEF MissingStep
    <2> QED BY <2>3, <2>4, <2>5, <2>6 DEF NamesStep
  <1>15. DataSteps(vol, inode, vol', inode', Root)
    <2>1. OthersStay(vol, vol', UsedBy(vol, inode[Root]))
      BY <1>5, SameChains DEF OthersStay, ChainsSame
    <2>2. UsedBy(vol', inode'[Root]) = UsedBy(vol, inode[Root])
      <3>1. Owns(inode'[Root]) /\ Owns(f)
        BY <1>1, <1>3, <1>8, <1>9, <1>11, DirOwns DEF Good, g
      <3> QED BY <1>7, <1>12, <3>1 DEF UsedBy
    <2> QED BY <1>1, <1>3, <1>4, <1>10, <2>1, <2>2 DEF DataSteps
  <1>16. TableSteps(vol, inode, T, vol', inode', T, Root)
    <2>1. inode'[Root].start = RootClu /\ inode'[Root].size = Len(T[RootClu])
      BY <1>8, <1>9 DEF g, q
    <2> QED BY <1>12, <2>1 DEF TableSteps, q
  <1>17. Catalogue((E \ {}) \cup {}, vol', inode', pending, T)
    <2>1. \A z \in E : Named(inode, None) /\ Has(inode, None, z) => z \in {}  BY <1>13 DEF Named
    <2>2. {} \cap (E \ {}) = {}  OBVIOUS
    <2> QED BY <1>1, <1>14, <1>15, <1>16, <2>1, <2>2, CatalogueStep
  <1>18. (E \ {}) \cup {} = E /\ Entries(vol', T) = E /\ Ordered(vol', T)
    BY <1>1, <1>4, SlotsSame
  <1>19. HintTrue(E, vol', T)  BY <1>4, NoHintIs
  <1> QED BY <1>2, <1>17, <1>18, <1>19 DEF Consistent
-----------------------------------------------------------------------------
(* Room for an entry is looked for: from the hint on if it is of this      *)
(* directory, else from the beginning.                                     *)

\* The end of a directory, from cluster k on.
LEMMA RestView ==
  ASSUME NEW v, NEW q \in Seq(Clusters), NEW k \in Nat, k < Len(q)
  PROVE  LET r == SubSeq(q, k + 1, Len(q))
             b == k * SlotsPerClu
             M == Len(r) * SlotsPerClu
         IN /\ b \in Nat /\ M \in Nat /\ b + M = Len(q) * SlotsPerClu
            /\ DOMAIN View(v, r) = 0 .. M - 1
            /\ \A j \in 0 .. M - 1 : b + j \in DOMAIN View(v, q) /\ View(v, r)[j] = View(v, q)[b + j]
  <1> DEFINE r == SubSeq(q, k + 1, Len(q))
             b == k * SlotsPerClu
             M == Len(r) * SlotsPerClu
             n == Len(q)
             a == k + 1
  <1>1. SlotsPerClu \in Nat /\ SlotsPerClu > 0 /\ n \in Nat /\ a \in 1 .. n /\ n \in 1 .. n /\ a <= n
    BY VolumeAssumption, LenProperties
  <1>2. /\ r \in Seq(Clusters) /\ Len(r) = n - a + 1 /\ Len(r) \in Nat
        /\ \A m \in 1 .. Len(r) : r[m] = q[a + m - 1]
    <2>1. a \in 1 .. Len(q) /\ Len(q) \in 1 .. Len(q) /\ a <= Len(q)  BY <1>1
    <2> DEFINE R(i, j) == LET x == SubSeq(q, i, j)
                          IN /\ x \in Seq(Clusters) /\ Len(x) = j - i + 1 /\ Len(x) \in Nat
                             /\ \A m \in 1 .. Len(x) : x[m] = q[i + m - 1] /\ i + m - 1 \in i .. j
    <2>2. \A i, j \in 1 .. Len(q) : i <= j => R(i, j)
      <3> TAKE i, j \in 1 .. Len(q)
      <3> SUFFICES ASSUME i <= j PROVE R(i, j)  OBVIOUS
      <3> QED BY PartIs, Zenon
    <2>3. R(a, Len(q))
      <3> HIDE DEF R, a
      <3> QED BY <2>1, <2>2
    <2> QED BY <2>3
  <1>3. Len(r) = n - k  BY <1>1, <1>2
  <1>4. b \in Nat /\ M \in Nat /\ b + M = n * SlotsPerClu
    <2> DEFINE l == Len(r)
    <2>1. l \in Nat /\ k + l = n  BY <1>1, <1>2, <1>3
    <2> HIDE DEF l, n, r
    <2>2. k * SlotsPerClu + l * SlotsPerClu = n * SlotsPerClu
      <3>1. (k + l) * SlotsPerClu = k * SlotsPerClu + l * SlotsPerClu  BY <1>1, <2>1
      <3> QED BY <2>1, <3>1
    <2>3. k * SlotsPerClu \in Nat /\ l * SlotsPerClu \in Nat  BY <1>1, <2>1
    <2> QED BY <2>2, <2>3 DEF l
  <1>5. DOMAIN View(v, r) = 0 .. M - 1  BY DEF View
  <1>6. ASSUME NEW j \in 0 .. M - 1
        PROVE  b + j \in DOMAIN View(v, q) /\ View(v, r)[j] = View(v, q)[b + j]
    <2>1. j \in Nat /\ j \in Idx(r)
      <3> HIDE DEF r
      <3> QED BY <1>4 DEF Idx
    <2>2. b + j \in Idx(q)
      <3> HIDE DEF b, M, r
      <3>1. b + j \in Nat /\ b + j <= n * SlotsPerClu - 1  BY <1>4, <2>1
      <3>2. n * SlotsPerClu \in Nat  BY <1>1
      <3> QED BY <3>1, <3>2 DEF Idx
    <2>3. /\ b + j \in Nat /\ (b + j) \div SlotsPerClu = k + j \div SlotsPerClu
          /\ (b + j) % SlotsPerClu = j % SlotsPerClu
      BY <2>1, DivModPlus
    <2>4. j \div SlotsPerClu + 1 \in 1 .. Len(r) /\ j \div SlotsPerClu \in Nat
      <3>1. j \div SlotsPerClu + 1 \in 1 .. Len(r)  BY <1>2, <2>1, LocFacts, Zenon
      <3>2. j \div SlotsPerClu \in Nat  BY <2>1, DivMod
      <3> QED BY <3>1, <3>2
    <2>5. Loc(r, j) = Loc(q, b + j)
      <3> DEFINE m == j \div SlotsPerClu
      <3>1. m \in Nat /\ m + 1 \in 1 .. Len(r)  BY <2>4
      <3>2. r[m + 1] = q[a + (m + 1) - 1]  BY <1>2, <3>1, Zenon
      <3>3. a + (m + 1) - 1 = k + m + 1  BY <3>1
      <3> HIDE DEF r, b
      <3>4. Loc(r, j) = <<r[m + 1], j % SlotsPerClu>>  BY DEF Loc
      <3>5. Loc(q, b + j) = <<q[k + m + 1], j % SlotsPerClu>>  BY <2>3 DEF Loc
      <3> QED BY <3>2, <3>3, <3>4, <3>5
    <2>6. View(v, r)[j] = v.slots[Loc(r, j)]  BY <2>1 DEF View, Idx
    <2>7. View(v, q)[b + j] = v.slots[Loc(q, b + j)] /\ b + j \in DOMAIN View(v, q)
      BY <2>2 DEF View, Idx
    <2> QED BY <2>5, <2>6, <2>7
  <1> HIDE DEF M, b, r
  <1> QED BY <1>4, <1>5, <1>6 DEF M, b, r

\* n empty slots from j on.
EmptyFrom(s, j, n) == \A k \in j .. j + n - 1 : k \in DOMAIN s /\ IsEmpty(s[k])

\* What search_deleted_or_unused_entry finds in s.
Searched(r, s, from, mine, v, p, n) ==
    LET base == (from \div SlotsPerClu) * SlotsPerClu
    IN \/ mine /\ r.entry = -1 /\ r.v = v
       \/ /\ ~(mine /\ v.hint.entry = -1) /\ r.v = [v EXCEPT !.hint = NoHint]
          /\ \E j \in DOMAIN s :
                /\ r.entry = base + j /\ base + j >= from /\ EmptyFrom(s, j, n)
                /\ \A i \in DOMAIN s : base + i >= from /\ EmptyFrom(s, i, n) => j <= i
       \/ /\ ~mine /\ r.entry = -1 /\ \A j \in DOMAIN s : s[j] # Unused
          /\ r.v = [v EXCEPT !.hint.entry = -1, !.hint.clu = NoChain]
       \/ /\ ~mine /\ r.entry = -1
          /\ \E e \in DOMAIN s :
                /\ \A k \in 0 .. e - 1 : s[k] # Unused
                /\ r.v = [v EXCEPT !.hint = [dir |-> p.dir, entry |-> e,
                                             clu |-> Rest(v, p, e \div SlotsPerClu)]]

LEMMA SearchInIs ==
  ASSUME NEW M \in Nat, NEW s, DOMAIN s = 0 .. M - 1, NEW from, NEW mine \in BOOLEAN,
         NEW v, NEW p, NEW n
  PROVE  Searched(SearchIn(s, from, mine, v, p, n), s, from, mine, v, p, n)
  <1> DEFINE r == SearchIn(s, from, mine, v, p, n)
             base == (from \div SlotsPerClu) * SlotsPerClu
             fits == {j \in DOMAIN s : base + j >= from /\ EmptyFrom(s, j, n)}
             fresh == {j \in DOMAIN s : s[j] = Unused}
  <1>1. r = IF mine /\ v.hint.entry = -1 THEN [entry |-> -1, v |-> v]
            ELSE IF fits # {}
            THEN [entry |-> base + Least(fits), v |-> [v EXCEPT !.hint = NoHint]]
            ELSE IF mine THEN [entry |-> -1, v |-> v]
            ELSE IF fresh = {}
            THEN [entry |-> -1, v |-> [v EXCEPT !.hint.entry = -1, !.hint.clu = NoChain]]
            ELSE [entry |-> -1,
                  v |-> [v EXCEPT !.hint = [dir |-> p.dir, entry |-> Least(fresh),
                                            clu |-> Rest(v, p, Least(fresh) \div SlotsPerClu)]]]
    BY DEF SearchIn, EmptyFrom
  <1>2. fits \in SUBSET Nat /\ fresh \in SUBSET Nat  OBVIOUS
  <1>3. CASE mine /\ (v.hint.entry = -1 \/ fits = {})
    <2>1. r = [entry |-> -1, v |-> v]  BY <1>1, <1>3
    <2>2. r.entry = -1 /\ r.v = v  BY <2>1
    <2> HIDE DEF r
    <2> QED BY <1>3, <2>2, Zenon DEF Searched, r
  <1>4. CASE ~(mine /\ v.hint.entry = -1) /\ fits # {}
    <2>1. r = [entry |-> base + Least(fits), v |-> [v EXCEPT !.hint = NoHint]]  BY <1>1, <1>4
    <2>2. Least(fits) \in fits /\ \A y \in fits : Least(fits) <= y  BY <1>2, <1>4, LeastIs, Zenon
    <2> DEFINE j == Least(fits)
    <2>3. j \in DOMAIN s /\ base + j >= from /\ EmptyFrom(s, j, n)  BY <2>2, Zenon
    <2>4. \A i \in DOMAIN s : base + i >= from /\ EmptyFrom(s, i, n) => j <= i  BY <2>2
    <2>5. r.entry = base + j /\ r.v = [v EXCEPT !.hint = NoHint]  BY <2>1
    <2> HIDE DEF r, j
    <2> QED BY <1>4, <2>3, <2>4, <2>5 DEF Searched, r
  <1>5. CASE ~mine /\ fits = {} /\ fresh = {}
    <2>1. r = [entry |-> -1, v |-> [v EXCEPT !.hint.entry = -1, !.hint.clu = NoChain]]
      BY <1>1, <1>5
    <2>2. \A j \in DOMAIN s : s[j] # Unused  BY <1>5
    <2>3. r.entry = -1 /\ r.v = [v EXCEPT !.hint.entry = -1, !.hint.clu = NoChain]  BY <2>1
    <2> HIDE DEF r
    <2> QED BY <1>5, <2>2, <2>3 DEF Searched, r
  <1>6. CASE ~mine /\ fits = {} /\ fresh # {}
    <2> DEFINE e == Least(fresh)
    <2>1. r = [entry |-> -1, v |-> [v EXCEPT !.hint = [dir |-> p.dir, entry |-> e,
                                                      clu |-> Rest(v, p, e \div SlotsPerClu)]]]
      BY <1>1, <1>6
    <2>2. e \in fresh /\ \A y \in fresh : e <= y  BY <1>2, <1>6, LeastIs, Zenon
    <2>3. e \in DOMAIN s /\ \A k \in 0 .. e - 1 : s[k] # Unused
      <3>1. e \in DOMAIN s /\ e \in Nat /\ e <= M - 1  BY <2>2
      <3>2. ASSUME NEW k \in 0 .. e - 1, s[k] = Unused PROVE FALSE
        <4> HIDE DEF e
        <4>1. k \in DOMAIN s /\ ~(e <= k)  BY <3>1, <3>2
        <4>2. k \in fresh  BY <3>2, <4>1
        <4> QED BY <2>2, <4>1, <4>2
      <3> QED BY <3>1, <3>2
    <2> DEFINE w == [v EXCEPT !.hint = [dir |-> p.dir, entry |-> e,
                                        clu |-> Rest(v, p, e \div SlotsPerClu)]]
    <2>4. r.entry = -1 /\ r.v = w  BY <2>1
    <2> HIDE DEF r, e, fits, fresh
    <2> QED BY <1>6, <2>3, <2>4 DEF Searched, r
  <1> QED BY <1>3, <1>4, <1>5, <1>6

\* What is found has room for n slots, and all slots before it are used.
LEMMA RoomIs ==
  ASSUME NEW N \in Nat, NEW t, DOMAIN t = 0 .. N - 1, InOrder(t), NEW b \in Nat, NEW M \in Nat,
         b + M = N, NEW s, DOMAIN s = 0 .. M - 1, \A j \in 0 .. M - 1 : s[j] = t[b + j],
         NEW from \in Nat, from >= b, \A k \in 0 .. from - 1 : k \in DOMAIN t => t[k] # Unused,
         NEW n \in Nat \ {0}, NEW j \in DOMAIN s, b + j >= from, EmptyFrom(s, j, n),
         \A i \in DOMAIN s : b + i >= from /\ EmptyFrom(s, i, n) => j <= i
  PROVE  Spot(t, b + j, n) /\ \A m \in 0 .. n - 1 : IsEmpty(t[b + j + m])
  <1>1. j \in Nat /\ b + j \in Nat  OBVIOUS
  <1>0. \A x \in 0 .. M - 1 : b + x \in DOMAIN t /\ s[x] = t[b + x] /\ x \in DOMAIN s
    <2> TAKE x \in 0 .. M - 1
    <2>1. b + x \in 0 .. N - 1  OBVIOUS
    <2> QED BY <2>1
  <1>2. \A m \in 0 .. n - 1 : b + j + m \in DOMAIN t /\ IsEmpty(t[b + j + m]) /\ j + m \in DOMAIN s
    <2> TAKE m \in 0 .. n - 1
    <2>1. j + m \in j .. j + n - 1  BY <1>1
    <2>2. j + m \in DOMAIN s /\ IsEmpty(s[j + m])  BY <2>1 DEF EmptyFrom
    <2>3. b + (j + m) = b + j + m  BY <1>1
    <2>4. s[j + m] = t[b + j + m] /\ b + j + m \in DOMAIN t
      <3>1. j + m \in 0 .. M - 1  BY <2>2
      <3>2. b + (j + m) \in DOMAIN t /\ s[j + m] = t[b + (j + m)]  BY <1>0, <3>1, Zenon
      <3> QED BY <2>3, <3>2
    <2> QED BY <2>2, <2>3, <2>4
  <1>3. \A x : IsEmpty(x) => x # Ext /\ ~IsHead(x)  BY SlotKinds DEF IsEmpty, IsHead
  <1>4. ASSUME NEW k \in 0 .. b + j - 1, t[k] = Unused PROVE FALSE
    <2>1. k \in DOMAIN t /\ k \in Nat /\ k < b + j
      <3>1. b + j + 0 \in DOMAIN t  BY <1>2
      <3> QED BY <1>1, <3>1
    <2>2. k >= from  BY <1>4, <2>1
    <2> DEFINE i == k - b
    <2>3. i \in DOMAIN s /\ b + i = k /\ i < j  BY <1>1, <2>1, <2>2
    <2>4. EmptyFrom(s, i, n)
      <3> SUFFICES ASSUME NEW a \in i .. i + n - 1 PROVE a \in DOMAIN s /\ IsEmpty(s[a])
        BY DEF EmptyFrom
      <3>1. n - 1 \in 0 .. n - 1 /\ j + (n - 1) \in DOMAIN s  BY <1>2
      <3> HIDE DEF i
      <3>2. a \in DOMAIN s /\ b + a >= k  BY <1>1, <2>3, <3>1, SMTT(60)
      <3>3. b + a \in DOMAIN t /\ s[a] = t[b + a]
        <4>1. a \in 0 .. M - 1  BY <3>2
        <4> QED BY <1>0, <4>1
      <3>4. t[b + a] = Unused
        <4>1. CASE b + a = k  BY <1>4, <4>1, Zenon
        <4>2. CASE b + a # k
          <5>0. b + a \in Nat  BY <3>2
          <5>1. k < b + a  BY <2>1, <3>2, <4>2, <5>0
          <5> QED BY <1>4, <2>1, <3>3, <5>1, Zenon DEF InOrder
        <4> QED BY <4>1, <4>2
      <3> QED BY <3>2, <3>3, <3>4, SlotKinds
    <2> HIDE DEF i
    <2>5. j <= i  BY <2>2, <2>3, <2>4
    <2> QED BY <1>1, <2>3, <2>5
  <1>5. \A m \in 0 .. n - 1 : (b + j) + m \in DOMAIN t /\ IsEmpty(t[(b + j) + m])  BY <1>2
  <1>6. t[b + j] # Ext
    <2>1. 0 \in 0 .. n - 1 /\ (b + j) + 0 = b + j  BY <1>1
    <2>2. IsEmpty(t[b + j])  BY <1>5, <2>1
    <2> QED BY <1>3, <2>2
  <1>7. \A m \in 1 .. n - 1 : ~IsHead(t[(b + j) + m])
    <2> TAKE m \in 1 .. n - 1
    <2>1. m \in 0 .. n - 1  OBVIOUS
    <2> QED BY <1>3, <1>5, <2>1
  <1>8. Spot(t, b + j, n)  BY <1>1, <1>4, <1>5, <1>6, <1>7 DEF Spot
  <1> QED BY <1>5, <1>8
\* search_deleted_or_unused_entry finds room, or remembers where there will be some.
RoomFor(v, s, n, dir, r) ==
    \/ /\ r.entry \in Nat /\ r.v.hint = NoHint /\ Spot(s, r.entry, n)
       /\ \A m \in 0 .. n - 1 : IsEmpty(s[r.entry + m])
    \/ /\ r.entry = -1
       /\ \/ r.v.hint.entry = -1 /\ \A j \in DOMAIN s : s[j] # Unused
          \/ r.v.hint.entry # -1 /\ r.v.hint.dir = dir

LEMMA SearchEmptyIs ==
  ASSUME NEW v, NEW ino, NEW pnd, NEW T, Consistent(v, ino, pnd, T), NEW d \in Inodes,
         IsDirectory(ino[d]), Lies(v, ChainOf(ino[d])) = {}, NEW n \in 1 .. SlotsPerClu
  PROVE  LET r == SearchEmpty(v, ChainOf(ino[d]), n)
         IN /\ SameFat(v, r.v) /\ r.v.slots = v.slots /\ HintTrue(Entries(v, T), r.v, T)
            /\ RoomFor(v, View(v, T[ino[d].start]), n, ino[d].start, r)
  <1> DEFINE p == ChainOf(ino[d])
             r == SearchEmpty(v, p, n)
             c == ino[d].start
             t == View(v, T[c])
             N == Len(T[c]) * SlotsPerClu
             E == Entries(v, T)
             k == v.hint.entry \div SlotsPerClu
             rest == SubSeq(T[c], k + 1, Len(T[c]))
  <1>1. /\ VolOK(v) /\ FatOK(v) /\ Fields \subseteq DOMAIN v /\ HintTrue(E, v, T)
    BY DEF Consistent, Catalogue, Good, VolOK
  <1>2. /\ c \in DOMAIN T /\ Through(v, p, T[c]) /\ InOrder(t) /\ p.dir = c
    <2>1. /\ c \in DOMAIN T /\ Through(v, p, T[c]) /\ InOrder(t)  BY OpenedIs
    <2> QED BY <2>1 DEF ChainOf, Chain
  <1>3. Scan(v, p) = t /\ N \in Nat /\ DOMAIN t = 0 .. N - 1  BY OpenedEntries
  <1>4. n \in Nat \ {0} /\ SlotsPerClu \in Nat \ {0} /\ EOC \notin Clusters
    BY VolumeAssumption, ClusterFacts
  <1>5. SameFat(v, r.v)  BY <1>1, SearchIs
  <1>6. T[c] \in Seq(Clusters) /\ Len(T[c]) \in Nat  BY <1>2, RunEnd DEF Through
  <1>7. ASSUME NEW w, w = [v EXCEPT !.hint = NoHint] PROVE HintTrue(E, w, T) /\ w.slots = v.slots /\ w.hint = NoHint
    <2>1. w.hint = NoHint /\ w.slots = v.slots  BY <1>1, <1>7 DEF Fields
    <2> QED BY <2>1, NoHintIs
  <1>8. CASE v.hint.dir = c
    <2> DEFINE s == Scan(v, v.hint.clu)
    <2>1. r = SearchIn(s, v.hint.entry, TRUE, v, p, n)  BY <1>2, <1>8 DEF SearchEmpty
    <2>2. CASE v.hint.entry = -1
      <3>1. r = [entry |-> -1, v |-> v]  BY <2>1, <2>2 DEF SearchIn
      <3>2. \A j \in DOMAIN t : t[j] # Unused  BY <1>2, <1>3, <1>8, <2>2, Zenon DEF Lies
      <3>3. r.entry = -1 /\ r.v = v  BY <3>1
      <3> HIDE DEF r, t, p
      <3> QED BY <1>1, <1>5, <2>2, <3>2, <3>3 DEF RoomFor, r, t, p
    <2>3. CASE v.hint.entry # -1
      <3> DEFINE e == v.hint.entry
      <3>1. /\ e \in Nat /\ k < Len(T[c]) /\ Through(v, v.hint.clu, rest)
            /\ \A j \in 0 .. e - 1 : t[j] # Unused
        <4>1. v.hint.entry \in Nat
          <5>1. HintType(v.hint)  BY <1>1 DEF HintTrue
          <5> QED BY <2>3, <5>1 DEF HintType
        <4> HIDE DEF t
        <4>2. /\ k < Len(T[c]) /\ Through(v, v.hint.clu, rest)
              /\ \A j \in 0 .. e - 1 : View(v, T[c])[j] # Unused
          BY <1>1, <1>2, <1>8, <2>3 DEF HintTrue
        <4> QED BY <4>1, <4>2 DEF t
      <3>2. k \in Nat /\ k * SlotsPerClu \in Nat /\ e >= k * SlotsPerClu
        <4> HIDE DEF e
        <4>1. e \in Nat /\ k = e \div SlotsPerClu  BY <3>1 DEF e
        <4>2. k \in Nat  BY <4>1, DivMod
        <4>3. k * SlotsPerClu \in Nat  BY <1>4, <4>2
        <4>4. ASSUME ~(e >= k * SlotsPerClu) PROVE FALSE
          <5>1. e < k * SlotsPerClu
            <6> HIDE DEF k
            <6> QED BY <4>1, <4>3, <4>4
          <5>2. \A m \in Nat : e < m * SlotsPerClu => e \div SlotsPerClu < m  BY <4>1, DivMod
          <5>3. e \div SlotsPerClu < k  BY <4>2, <5>1, <5>2
          <5> HIDE DEF k
          <5> QED BY <4>1, <4>2, <5>3
        <4> QED BY <4>2, <4>3, <4>4
      <3> DEFINE M == Len(rest) * SlotsPerClu
                 b == k * SlotsPerClu
      <3>3. s = View(v, rest)  BY <1>1, <3>1, SlotIs
      <3>4. /\ b \in Nat /\ M \in Nat /\ b + M = N
            /\ DOMAIN s = 0 .. M - 1 /\ \A j \in 0 .. M - 1 : s[j] = t[b + j]
        <4> HIDE DEF k, s
        <4>1. /\ b \in Nat /\ M \in Nat /\ b + M = N
              /\ DOMAIN View(v, rest) = 0 .. M - 1
              /\ \A j \in 0 .. M - 1 : View(v, rest)[j] = t[b + j]
          <5> DEFINE q == T[c]
          <5>1. q \in Seq(Clusters) /\ k \in Nat /\ k < Len(q)  BY <1>6, <3>1, <3>2
          <5> HIDE DEF q
          <5>2. LET r2 == SubSeq(q, k + 1, Len(q))
                    b2 == k * SlotsPerClu
                    M2 == Len(r2) * SlotsPerClu
                IN /\ b2 \in Nat /\ M2 \in Nat /\ b2 + M2 = Len(q) * SlotsPerClu
                   /\ DOMAIN View(v, r2) = 0 .. M2 - 1
                   /\ \A j \in 0 .. M2 - 1 : b2 + j \in DOMAIN View(v, q)
                                              /\ View(v, r2)[j] = View(v, q)[b2 + j]
            BY <5>1, RestView
          <5> QED BY <5>2, Zenon DEF q
        <4> QED BY <3>3, <4>1, Zenon
      <3>5. Searched(r, s, e, TRUE, v, p, n)
        <4> HIDE DEF s, r, p, M
        <4> QED BY <2>1, <3>4, SearchInIs, Zenon
      <3>6. CASE r.entry = -1 /\ r.v = v
        <4> HIDE DEF r, t, p
        <4> QED BY <1>1, <1>2, <1>5, <1>8, <2>3, <3>6 DEF RoomFor, r, t, p
      <3>7. CASE /\ r.v = [v EXCEPT !.hint = NoHint]
                 /\ \E j \in DOMAIN s :
                       /\ r.entry = b + j /\ b + j >= e /\ EmptyFrom(s, j, n)
                       /\ \A i \in DOMAIN s : b + i >= e /\ EmptyFrom(s, i, n) => j <= i
        <4>1. PICK j \in DOMAIN s :
                       /\ r.entry = b + j /\ b + j >= e /\ EmptyFrom(s, j, n)
                       /\ \A i \in DOMAIN s : b + i >= e /\ EmptyFrom(s, i, n) => j <= i
          BY <3>7
        <4>2. Spot(t, b + j, n) /\ \A m \in 0 .. n - 1 : IsEmpty(t[b + j + m])
          <5>1. e \in Nat /\ e >= b /\ \A x \in 0 .. e - 1 : x \in DOMAIN t => t[x] # Unused
            BY <3>1, <3>2
          <5>2. /\ N \in Nat /\ DOMAIN t = 0 .. N - 1 /\ InOrder(t) /\ b \in Nat /\ M \in Nat
                /\ b + M = N /\ DOMAIN s = 0 .. M - 1 /\ \A x \in 0 .. M - 1 : s[x] = t[b + x]
                /\ n \in Nat \ {0}
            BY <1>2, <1>3, <1>4, <3>4, Zenon
          <5> HIDE DEF s, t, e, b, M, N
          <5> QED BY <4>1, <5>1, <5>2, RoomIs, Zenon
        <4>3. HintTrue(E, r.v, T) /\ r.v.slots = v.slots /\ r.v.hint = NoHint  BY <1>7, <3>7
        <4>4. b + j \in Nat  BY <3>4, <4>1
        <4> HIDE DEF r, t, p, b, s
        <4> QED BY <1>5, <4>1, <4>2, <4>3, <4>4 DEF RoomFor, r, t, p
      <3>8. ASSUME NEW e2, e2 = e PROVE (e2 \div SlotsPerClu) * SlotsPerClu = b  BY <3>8
      <3> HIDE DEF r, s, t, p, E, b, e, k
      <3>9. (e \div SlotsPerClu) * SlotsPerClu = b  BY <3>8
      <3> QED BY <3>5, <3>6, <3>7, <3>9 DEF Searched
    <2> QED BY <2>2, <2>3
  <1>9. CASE v.hint.dir # c
    <2>1. r = SearchIn(t, 0, FALSE, v, p, n)  BY <1>2, <1>3, <1>9 DEF SearchEmpty
    <2>2. Searched(r, t, 0, FALSE, v, p, n)
      <3> HIDE DEF t, r, p, N
      <3> QED BY <1>3, <2>1, SearchInIs, Zenon
    <2>3. (0 \div SlotsPerClu) * SlotsPerClu = 0
      <3>1. 0 \div SlotsPerClu = 0  BY <1>4
      <3> QED BY <1>4, <3>1
    <2>4. \/ /\ r.v = [v EXCEPT !.hint = NoHint]
             /\ \E j \in DOMAIN t :
                   /\ r.entry = 0 + j /\ 0 + j >= 0 /\ EmptyFrom(t, j, n)
                   /\ \A i \in DOMAIN t : 0 + i >= 0 /\ EmptyFrom(t, i, n) => j <= i
          \/ /\ r.entry = -1 /\ \A j \in DOMAIN t : t[j] # Unused
             /\ r.v = [v EXCEPT !.hint.entry = -1, !.hint.clu = NoChain]
          \/ /\ r.entry = -1
             /\ \E e \in DOMAIN t :
                   /\ \A x \in 0 .. e - 1 : t[x] # Unused
                   /\ r.v = [v EXCEPT !.hint = [dir |-> p.dir, entry |-> e,
                                                clu |-> Rest(v, p, e \div SlotsPerClu)]]
      <3> HIDE DEF r, t, p
      <3> QED BY <2>2, <2>3 DEF Searched
    <2>5. CASE /\ r.v = [v EXCEPT !.hint = NoHint]
               /\ \E j \in DOMAIN t :
                     /\ r.entry = 0 + j /\ 0 + j >= 0 /\ EmptyFrom(t, j, n)
                     /\ \A i \in DOMAIN t : 0 + i >= 0 /\ EmptyFrom(t, i, n) => j <= i
      <3>1. PICK j \in DOMAIN t :
                     /\ r.entry = 0 + j /\ 0 + j >= 0 /\ EmptyFrom(t, j, n)
                     /\ \A i \in DOMAIN t : 0 + i >= 0 /\ EmptyFrom(t, i, n) => j <= i
        BY <2>5
      <3>2. \A x \in 0 .. N - 1 : t[x] = t[0 + x]
        <4>1. \A x \in 0 .. N - 1 : x = 0 + x  OBVIOUS
        <4> HIDE DEF t, N
        <4> QED BY <4>1
      <3>3. Spot(t, 0 + j, n) /\ \A m \in 0 .. n - 1 : IsEmpty(t[0 + j + m])
        <4>1. 0 \in Nat /\ 0 >= 0 /\ 0 + N = N /\ \A x \in 0 .. 0 - 1 : x \in DOMAIN t => t[x] # Unused
          BY <1>3
        <4> HIDE DEF t, N
        <4> QED BY <1>2, <1>3, <1>4, <3>1, <3>2, <4>1, RoomIs, ZenonT(60)
      <3>4. HintTrue(E, r.v, T) /\ r.v.slots = v.slots /\ r.v.hint = NoHint  BY <1>7, <2>5
      <3>5. 0 + j \in Nat  BY <1>3, <3>1
      <3> HIDE DEF r, t, p
      <3> QED BY <1>5, <3>1, <3>3, <3>4, <3>5 DEF RoomFor, r, t, p
    <2>6. CASE /\ r.entry = -1 /\ \A j \in DOMAIN t : t[j] # Unused
               /\ r.v = [v EXCEPT !.hint.entry = -1, !.hint.clu = NoChain]
      <3>1. r.v.slots = v.slots  BY <1>1, <2>6 DEF Fields
      <3>2. PICK h : h = v.hint  OBVIOUS
      <3>3. r.v.hint = [h EXCEPT !.entry = -1, !.clu = NoChain]  BY <1>1, <2>6, <3>2 DEF Fields
      <3>4. HintType(h)  BY <1>1, <3>2 DEF HintTrue
      <3>5. r.v.hint.entry = -1 /\ HintType(r.v.hint)
        <4>1. DOMAIN h = {"dir", "entry", "clu"}  BY <3>4 DEF HintType
        <4>2. PICK g : g = r.v.hint  OBVIOUS
        <4>3. g = [h EXCEPT !.entry = -1, !.clu = NoChain]  BY <3>3, <4>2
        <4>4. g.entry = -1 /\ g.clu = NoChain /\ DOMAIN g = {"dir", "entry", "clu"}
          BY <4>1, <4>3
        <4>5. DOMAIN NoChain = {"dir", "size", "flags"}  BY DEF NoChain, Chain
        <4>6. HintType(g)  BY <4>4, <4>5 DEF HintType
        <4> QED BY <4>2, <4>4, <4>6
      <3> HIDE DEF r, t, p, E
      <3>6. HintTrue(E, r.v, T)  BY <3>5, NoHintIs
      <3> QED BY <1>5, <2>6, <3>1, <3>5, <3>6 DEF RoomFor, r, t, p, E
    <2>7. CASE /\ r.entry = -1
               /\ \E e \in DOMAIN t :
                     /\ \A x \in 0 .. e - 1 : t[x] # Unused
                     /\ r.v = [v EXCEPT !.hint = [dir |-> p.dir, entry |-> e,
                                                  clu |-> Rest(v, p, e \div SlotsPerClu)]]
      <3>1. PICK e \in DOMAIN t :
                     /\ \A x \in 0 .. e - 1 : t[x] # Unused
                     /\ r.v = [v EXCEPT !.hint = [dir |-> p.dir, entry |-> e,
                                                  clu |-> Rest(v, p, e \div SlotsPerClu)]]
        BY <2>7
      <3>2. /\ r.v.slots = v.slots
            /\ r.v.hint = [dir |-> p.dir, entry |-> e, clu |-> Rest(v, p, e \div SlotsPerClu)]
        BY <1>1, <3>1 DEF Fields
      <3>3. HintTrue(E, r.v, T)
        <4>1. PICK w : w = r.v  OBVIOUS
        <4>2. /\ p = ChainOf(ino[d]) /\ e \in DOMAIN View(v, T[ino[d].start])
              /\ \A x \in 0 .. e - 1 : View(v, T[ino[d].start])[x] # Unused
          BY <3>1
        <4>3. SameFat(v, w) /\ w.slots = v.slots
              /\ w.hint = [dir |-> p.dir, entry |-> e, clu |-> Rest(v, p, e \div SlotsPerClu)]
          BY <1>5, <3>2, <4>1
        <4> HIDE DEF r, p, t
        <4>4. HintTrue(E, w, T)  BY <4>2, <4>3, HintAt
        <4> QED BY <4>1, <4>4
      <3>4. r.v.hint.entry # -1 /\ r.v.hint.dir = c
        <4>1. e \in Nat  BY <1>3
        <4> QED BY <1>2, <3>2, <4>1
      <3> HIDE DEF r, t, p
      <3> QED BY <1>5, <2>7, <3>2, <3>3, <3>4 DEF RoomFor, r, t, p
    <2> HIDE DEF r, t, p, E
    <2> QED BY <1>5, <2>4, <2>5, <2>6, <2>7, Zenon
  <1> QED BY <1>8, <1>9

-----------------------------------------------------------------------------
(* A directory grows.                                                      *)

\* What find_empty_entry does with the new cluster, before it tells the entry.
Grown(v, p, a, w) ==
    /\ w.slots = Over(Block({a.clu}, Unused), v.slots) /\ HintType(w.hint)
    /\ IF v.hint.entry = -1
       THEN w.hint = [dir |-> p.dir, entry |-> p.size * SlotsPerClu, clu |-> Chain(a.clu, 1, a.flags)]
       ELSE /\ w.hint.dir = v.hint.dir /\ w.hint.entry = v.hint.entry
            /\ w.hint.clu.dir = v.hint.clu.dir /\ w.hint.clu.size = v.hint.clu.size + 1
            /\ w.hint.clu.flags = IF a.flags # p.flags THEN 1 ELSE v.hint.clu.flags

GrownBy(v, ino, d, p, q, a, w, g) ==
    /\ Grown(v, p, a, w) /\ SameFat(w, g.v)
    /\ a.clu \in Clusters \ v.bitmap /\ a.flags \in {1, 3} /\ p.flags \in {1, 3}
    /\ p.flags = 1 => a.flags = 1
    /\ g.p = Chain(p.dir, p.size + 1, a.flags)
    /\ g.v = IF p.dir = RootClu THEN w
             ELSE PutSlots(w, ino[d].dir, ino[d].entry,
                     <<[Slot(w, ino[d].dir, ino[d].entry) EXCEPT !.size = ino[d].size + 1,
                                                                 !.flags = a.flags]>>)
    /\ g.ino = [ino EXCEPT ![d].size = @ + 1, ![d].flags = a.flags]
    /\ Through(g.v, g.p, Append(q, a.clu)) /\ Of(Append(q, a.clu)) = Of(q) \cup {a.clu}
    /\ g.v.bitmap = v.bitmap \cup {a.clu}

LEMMA GrowSlots ==
  ASSUME NEW v, VolOK(v), Counted(v), HintType(v.hint), NEW p, NEW q, Through(v, p, q),
         Of(q) \subseteq v.bitmap, p.size \in Nat, NEW ino, NEW d
  PROVE  LET g == Grow(v, ino, d, p)
         IN /\ g.ok => \E a, w : GrownBy(v, ino, d, p, q, a, w, g)
            /\ ~g.ok => /\ SameClusters(v, g.v) /\ g.ino = ino /\ g.p = p
                        /\ g.v.slots = v.slots /\ g.v.hint = v.hint
            /\ g.ok \in BOOLEAN /\ VolOK(g.v) /\ Counted(g.v) /\ OthersStay(v, g.v, Of(q))
  <1> DEFINE last == LastCluster(v, p)
             a == AllocCluster(v, last + 1, p.flags)
             g == GrowBy(a, v, ino, d, p)
  <1>1. Grow(v, ino, d, p) = g  BY DEF Grow
  <1>0. /\ g.ok => \E new \in Clusters \ v.bitmap :
                     /\ Through(g.v, g.p, Append(q, new))
                     /\ Of(Append(q, new)) = Of(q) \cup {new}
                     /\ g.v.bitmap = v.bitmap \cup {new}
        /\ ~g.ok => SameClusters(v, g.v) /\ g.ino = ino /\ g.p = p
        /\ g.ok \in BOOLEAN /\ VolOK(g.v) /\ Counted(g.v) /\ OthersStay(v, g.v, Of(q))
    <2> DEFINE G == Grow(v, ino, d, p)
    <2>1. /\ G.ok => \E new \in Clusters \ v.bitmap :
                       /\ Through(G.v, G.p, Append(q, new))
                       /\ Of(Append(q, new)) = Of(q) \cup {new}
                       /\ G.v.bitmap = v.bitmap \cup {new}
          /\ (~G.ok => SameClusters(v, G.v) /\ G.ino = ino /\ G.p = p)
          /\ G.ok \in BOOLEAN /\ VolOK(G.v) /\ Counted(G.v) /\ OthersStay(v, G.v, Of(q))
      <3> DEFINE H == Grow(v, ino, d, p)
      <3>1. /\ H.ok =>
                 /\ \E new \in Clusters \ v.bitmap :
                       /\ Through(H.v, H.p, Append(q, new))
                       /\ Of(Append(q, new)) = Of(q) \cup {new}
                       /\ H.v.bitmap = v.bitmap \cup {new}
                 /\ H.p.dir = p.dir /\ H.p.size = p.size + 1 /\ (p.flags = 1 => H.p.flags = 1)
                 /\ H.ino = [ino EXCEPT ![d].size = @ + 1, ![d].flags = H.p.flags]
            /\ ~H.ok => SameClusters(v, H.v) /\ H.ino = ino /\ H.p = p
            /\ H.ok \in BOOLEAN /\ VolOK(H.v) /\ Counted(H.v) /\ OthersStay(v, H.v, Of(q))
        BY DirectoryGrowsByOne
      <3> HIDE DEF H
      <3>2. G = H  BY DEF H
      <3> HIDE DEF G
      <3> QED BY <3>1, <3>2
    <2> HIDE DEF G
    <2>2. G = g  BY <1>1 DEF G
    <2> HIDE DEF g
    <2> QED BY <2>1, <2>2
  <1>2. last = q[Len(q)]  BY ChainIs DEF VolOK
  <1>3. /\ Takes(v, last + 1, p.flags, a) \/ TakesNone(v, p.flags, a)
        /\ p.flags \in {1, 3}
    <2>0. q[Len(q)] + 1 \in Nat /\ q[Len(q)] + 1 >= 2  BY RunEnd
    <2> HIDE DEF last
    <2>1. last + 1 \in Nat /\ last + 1 >= 2 /\ p.flags \in {1, 3}
      BY <1>2, <2>0 DEF Through
    <2> QED BY <2>1, AllocTakesAFreeCluster
  <1> HIDE DEF a
  <1>4. CASE TakesNone(v, p.flags, a)
    <2>1. a.clu = EOC /\ a.v.slots = v.slots /\ a.v.hint = v.hint  BY <1>4 DEF TakesNone
    <2>2. g = [ok |-> FALSE, v |-> a.v, ino |-> ino, p |-> p]  BY <2>1 DEF GrowBy
    <2>3. g.ok = FALSE /\ g.v = a.v  BY <2>2
    <2> HIDE DEF g
    <2> QED BY <1>0, <1>1, <2>1, <2>3
  <1>5. CASE Takes(v, last + 1, p.flags, a)
    <2>1. /\ a.clu \in Clusters \ v.bitmap /\ VolOK(a.v) /\ a.flags \in {1, 3}
          /\ (p.flags = 1 => a.flags = 1) /\ a.v.slots = v.slots /\ a.v.hint = v.hint
          /\ a.v.bitmap = v.bitmap \cup {a.clu}
      BY <1>5 DEF Takes
    <2> DEFINE r == Chain(p.dir, p.size + 1, a.flags)
               cleared == [a.v EXCEPT !.slots = Over(Block({a.clu}, Unused), @)]
               x == ChainCont(cleared, p.dir, p.size)
               chained == IF a.flags # p.flags THEN [x EXCEPT !.hint.clu.flags = 1] ELSE cleared
               linked == IF a.flags = 1 THEN [chained EXCEPT !.fat[last] = a.clu] ELSE chained
               new == [dir |-> p.dir, entry |-> p.size * SlotsPerClu,
                       clu |-> Chain(a.clu, 1, a.flags)]
               Longer(h) == IF h.entry = -1 THEN new ELSE [h EXCEPT !.clu.size = h.clu.size + 1]
               hinted == [linked EXCEPT !.hint = Longer(linked.hint)]
               f == ino[d]
               told == IF p.dir = RootClu THEN hinted
                       ELSE PutSlots(hinted, f.dir, f.entry,
                              <<[Slot(hinted, f.dir, f.entry) EXCEPT !.size = f.size + 1,
                                                                     !.flags = r.flags]>>)
    <2>2. a.clu # EOC  BY <2>1, ClusterFacts
    <2>3. /\ g.ok = TRUE /\ g.p = r /\ g.v = told
          /\ g.ino = [ino EXCEPT ![d].size = @ + 1, ![d].flags = r.flags]
      BY <2>2 DEF GrowBy
    <2>4. r.flags = a.flags  BY DEF Chain
    <2> HIDE DEF g, r
    <2>5. /\ cleared.slots = Over(Block({a.clu}, Unused), v.slots) /\ cleared.hint = v.hint
          /\ Fields \subseteq DOMAIN cleared
      BY <2>1 DEF VolOK, Fields
    <2> HIDE DEF cleared
    <2>6. x.slots = cleared.slots /\ x.hint = v.hint /\ Fields \subseteq DOMAIN x
      <3>1. x = cleared \/ \E m : x = [cleared EXCEPT !.fat = m]  BY Zenon DEF ChainCont
      <3> QED BY <2>5, <3>1, Zenon DEF Fields
    <2> HIDE DEF x
    <2> DEFINE h1 == IF a.flags # p.flags THEN [v.hint EXCEPT !.clu.flags = 1] ELSE v.hint
               h2 == IF h1.entry = -1 THEN new ELSE [h1 EXCEPT !.clu.size = h1.clu.size + 1]
    <2>7. chained.slots = cleared.slots /\ chained.hint = h1 /\ Fields \subseteq DOMAIN chained
      BY <2>5, <2>6 DEF Fields
    <2> HIDE DEF chained
    <2>8. linked.slots = cleared.slots /\ linked.hint = h1 /\ Fields \subseteq DOMAIN linked
      BY <2>7 DEF Fields
    <2> HIDE DEF linked
    <2>9. hinted.slots = cleared.slots /\ hinted.hint = h2 /\ Fields \subseteq DOMAIN hinted
      <3> DEFINE h3 == Longer(linked.hint)
      <3>1. hinted = [linked EXCEPT !.hint = h3]  OBVIOUS
      <3>2. h3 = h2  BY <2>8
      <3> HIDE DEF h1, h2, h3, hinted
      <3>3. hinted = [linked EXCEPT !.hint = h2]  BY <3>1, <3>2
      <3> QED BY <2>8, <3>3 DEF Fields
    <2>10. SameFat(hinted, told)
      <3> HIDE DEF hinted
      <3>1. told = hinted \/ \E s : told = [hinted EXCEPT !.slots = s]  BY Zenon DEF PutSlots
      <3> HIDE DEF told
      <3>2. \A s : SameFat(hinted, [hinted EXCEPT !.slots = s])  BY <2>9, SlotsAndHint, Zenon
      <3>3. SameFat(hinted, hinted)  BY <2>9, SlotsAndHint, Zenon
      <3> QED BY <3>1, <3>2, <3>3
    <2>11. Grown(v, p, a, hinted)
      <3>1. /\ h1.dir = v.hint.dir /\ h1.entry = v.hint.entry /\ h1.clu.dir = v.hint.clu.dir
            /\ h1.clu.size = v.hint.clu.size /\ HintType(h1)
            /\ h1.clu.flags = IF a.flags # p.flags THEN 1 ELSE v.hint.clu.flags
        BY DEF HintType
      <3> HIDE DEF h1
      <3>2. CASE v.hint.entry = -1
        <4>1. h2 = new  BY <3>1, <3>2
        <4>2. new.entry \in Nat  BY VolumeAssumption
        <4>3. HintType(new)  BY <4>2 DEF HintType, Chain
        <4> HIDE DEF h2, hinted
        <4> QED BY <2>5, <2>9, <3>2, <4>1, <4>3 DEF Grown
      <3>3. CASE v.hint.entry # -1
        <4>1. h2 = [h1 EXCEPT !.clu.size = h1.clu.size + 1]  BY <3>1, <3>3
        <4>2. /\ h2.dir = h1.dir /\ h2.entry = h1.entry /\ h2.clu.dir = h1.clu.dir
              /\ h2.clu.size = h1.clu.size + 1 /\ h2.clu.flags = h1.clu.flags /\ HintType(h2)
          BY <3>1, <4>1 DEF HintType
        <4> HIDE DEF h2, hinted
        <4> QED BY <2>5, <2>9, <3>1, <3>3, <4>2 DEF Grown
      <3> QED BY <3>2, <3>3
    <2>12. g.v = IF p.dir = RootClu THEN hinted
                 ELSE PutSlots(hinted, f.dir, f.entry,
                        <<[Slot(hinted, f.dir, f.entry) EXCEPT !.size = f.size + 1,
                                                               !.flags = a.flags]>>)
      BY <2>3, <2>4
    <2>13. SameFat(hinted, g.v)  BY <2>3, <2>10
    <2> HIDE DEF told, hinted
    <2>14. PICK c \in Clusters \ v.bitmap :
                     /\ Through(g.v, g.p, Append(q, c))
                     /\ Of(Append(q, c)) = Of(q) \cup {c}
                     /\ g.v.bitmap = v.bitmap \cup {c}
      BY <1>0, <2>3
    <2>15. c = a.clu
      <3>1. hinted.bitmap = v.bitmap \cup {a.clu}
        <4>1. cleared.bitmap = v.bitmap \cup {a.clu}  BY <2>1 DEF cleared, VolOK, Fields
        <4>2. x.bitmap = cleared.bitmap
          <5>1. x = cleared \/ \E m : x = [cleared EXCEPT !.fat = m]  BY Zenon DEF ChainCont, x
          <5> QED BY <2>5, <5>1 DEF Fields
        <4>3. chained.bitmap = cleared.bitmap  BY <2>6, <4>2 DEF chained
        <4>4. linked.bitmap = chained.bitmap  BY <2>7 DEF linked
        <4> QED BY <2>8, <4>1, <4>3, <4>4 DEF hinted
      <3>2. g.v.bitmap = v.bitmap \cup {a.clu}  BY <2>13, <3>1 DEF SameFat, SameClusters
      <3> QED BY <2>1, <2>14, <3>2
    <2>16. g.ino = [ino EXCEPT ![d].size = @ + 1, ![d].flags = a.flags]  BY <2>3, <2>4
    <2>17. g.p = Chain(p.dir, p.size + 1, a.flags)  BY <2>3 DEF r
    <2>18. GrownBy(v, ino, d, p, q, a, hinted, g)
      BY <1>3, <2>1, <2>11, <2>12, <2>13, <2>14, <2>15, <2>16, <2>17 DEF GrownBy
    <2> QED BY <1>0, <1>1, <2>3, <2>18
  <1> QED BY <1>3, <1>4, <1>5

\* The clusters of the directories when the one at c gets the cluster x.
Lengthened(T, c, x) == [T EXCEPT ![c] = Append(T[c], x)]

LEMMA ClearedSlots ==
  ASSUME NEW v, SlotsOK(v), NEW x \in Clusters, NEW w, w.slots = Over(Block({x}, Unused), v.slots)
  PROVE  /\ SlotsOK(w)
         /\ \A loc \in Clusters \X (0 .. SlotsPerClu - 1) :
               w.slots[loc] = IF loc[1] = x THEN Unused ELSE v.slots[loc]
  <1> DEFINE b == Block({x}, Unused)
  <1>1. DOMAIN b = {x} \X (0 .. SlotsPerClu - 1) /\ \A loc \in DOMAIN b : b[loc] = Unused
    BY DEF Block
  <1> HIDE DEF b
  <1>2. DOMAIN w.slots = Clusters \X (0 .. SlotsPerClu - 1)
    BY <1>1 DEF Over, SlotsOK, b
  <1>3. ASSUME NEW loc \in Clusters \X (0 .. SlotsPerClu - 1)
        PROVE  w.slots[loc] = IF loc[1] = x THEN Unused ELSE v.slots[loc]
    <2>1. w.slots[loc] = IF loc \in DOMAIN b THEN b[loc] ELSE v.slots[loc]
      BY <1>1 DEF Over, SlotsOK, b
    <2>2. loc \in DOMAIN b <=> loc[1] = x  BY <1>1
    <2> QED BY <1>1, <2>1, <2>2
  <1> QED BY <1>2, <1>3, Zenon DEF SlotsOK

\* A directory with one more cluster, which is cleared.
LEMMA LongerView ==
  ASSUME NEW v, SlotsOK(v), NEW q \in Seq(Clusters), NEW x \in Clusters, x \notin Of(q), NEW w,
         w.slots = Over(Block({x}, Unused), v.slots)
  PROVE  LET M == Len(q) * SlotsPerClu
             N == (Len(q) + 1) * SlotsPerClu
             s == View(v, q)
             t == View(w, Append(q, x))
         IN /\ M \in Nat /\ N \in Nat /\ M < N /\ DOMAIN s = 0 .. M - 1 /\ DOMAIN t = 0 .. N - 1
            /\ \A j \in 0 .. M - 1 : t[j] = s[j]
            /\ \A j \in M .. N - 1 : t[j] = Unused
  <1> DEFINE n == Len(q)
             M == n * SlotsPerClu
             N == (n + 1) * SlotsPerClu
             r == Append(q, x)
             s == View(v, q)
             t == View(w, r)
  <1>0. SlotsPerClu \in Nat /\ SlotsPerClu > 0 /\ n \in Nat  BY VolumeAssumption
  <1>1. M \in Nat /\ N \in Nat /\ M < N /\ N = M + SlotsPerClu  BY <1>0
  <1>2. /\ Len(r) = n + 1 /\ r \in Seq(Clusters) /\ r[n + 1] = x
        /\ \A k \in 1 .. n : r[k] = q[k]
    BY <1>0
  <1>3. DOMAIN s = 0 .. M - 1 /\ \A j \in 0 .. M - 1 : s[j] = v.slots[Loc(q, j)]
    BY DEF View
  <1>4. DOMAIN t = 0 .. N - 1 /\ \A j \in 0 .. N - 1 : t[j] = w.slots[Loc(r, j)]
    BY <1>2 DEF View
  <1>5. \A loc \in Clusters \X (0 .. SlotsPerClu - 1) :
           w.slots[loc] = IF loc[1] = x THEN Unused ELSE v.slots[loc]
    BY ClearedSlots
  <1> HIDE DEF s, t, r
  <1>6. ASSUME NEW j \in 0 .. M - 1 PROVE t[j] = s[j]
    <2>1. j \in Idx(q) /\ j \in Nat /\ j \in 0 .. N - 1 /\ j < M  BY <1>1 DEF Idx
    <2>2. j \div SlotsPerClu + 1 \in 1 .. n /\ Loc(q, j) \in Clusters \X (0 .. SlotsPerClu - 1)
          /\ Loc(q, j)[1] \in Of(q)
      BY <2>1, LocFacts
    <2>3. Loc(r, j) = Loc(q, j)  BY <1>2, <2>2 DEF Loc
    <2>4. w.slots[Loc(q, j)] = v.slots[Loc(q, j)]  BY <1>5, <2>2, Zenon
    <2> HIDE DEF M, N
    <2> QED BY <1>3, <1>4, <2>1, <2>3, <2>4, Zenon
  <1>7. ASSUME NEW j \in M .. N - 1 PROVE t[j] = Unused
    <2>1. j \in Nat /\ j >= n * SlotsPerClu /\ j < (n + 1) * SlotsPerClu /\ j \in 0 .. N - 1
      BY <1>1
    <2>2. n + 1 \in Nat  BY <1>0
    <2>3. j \div SlotsPerClu \in Nat /\ j % SlotsPerClu \in 0 .. SlotsPerClu - 1
          /\ j \div SlotsPerClu >= n /\ j \div SlotsPerClu < n + 1
      BY <1>0, <2>1, <2>2, DivMod
    <2>4. j \div SlotsPerClu = n  BY <1>0, <2>3
    <2>5. Loc(r, j) = <<x, j % SlotsPerClu>>  BY <1>2, <2>4 DEF Loc
    <2>6. w.slots[<<x, j % SlotsPerClu>>] = Unused  BY <1>5, <2>3, Zenon
    <2> HIDE DEF M, N
    <2> QED BY <1>4, <2>1, <2>5, <2>6, Zenon
  <1> HIDE DEF M, N
  <1> QED BY <1>1, <1>3, <1>4, <1>6, <1>7 DEF M, N, n, s, t, r

\* The directories and their entries with the new cluster.
LEMMA LengthenedIs ==
  ASSUME NEW v, NEW T, TableOK(v, T), Ordered(v, T), v.bitmap \subseteq Clusters,
         NEW c \in DOMAIN T, NEW x \in Clusters \ v.bitmap,
         NEW w, w.slots = Over(Block({x}, Unused), v.slots), w.bitmap = v.bitmap \cup {x}
  PROVE  LET T2 == Lengthened(T, c, x)
         IN /\ DOMAIN T2 = DOMAIN T /\ T2[c] = Append(T[c], x) /\ \A b \in DOMAIN T \ {c} : T2[b] = T[b]
            /\ TableOK(w, T2) /\ Ordered(w, T2) /\ Entries(w, T2) = Entries(v, T)
            /\ \A b \in DOMAIN T : \A j \in DOMAIN View(v, T[b]) :
                  j \in DOMAIN View(w, T2[b]) /\ View(w, T2[b])[j] = View(v, T[b])[j]
            /\ \A b \in DOMAIN T \ {c} : View(w, T2[b]) = View(v, T[b])
  <1> DEFINE T2 == Lengthened(T, c, x)
             q == T[c]
             r == Append(q, x)
  <1>1. DOMAIN T2 = DOMAIN T /\ T2[c] = r /\ \A b \in DOMAIN T \ {c} : T2[b] = T[b]
    BY DEF Lengthened
  <1> HIDE DEF T2
  <1>2. \A b \in DOMAIN T : x \notin Of(T[b]) /\ T[b] \in Seq(Clusters) /\ Len(T[b]) \in Nat
    BY DEF TableOK
  <1>3. SlotsOK(v) /\ \A b \in DOMAIN T : InOrder(View(v, T[b]))  BY DEF Ordered
  <1>4. SlotsOK(w)  BY <1>3, ClearedSlots
  <1>5. ASSUME NEW b \in DOMAIN T \ {c} PROVE View(w, T2[b]) = View(v, T[b])
    <2>1. SlotsStay(v, w, {x})
      <3>1. \A loc \in Clusters \X (0 .. SlotsPerClu - 1) :
               w.slots[loc] = IF loc[1] = x THEN Unused ELSE v.slots[loc]
        BY <1>3, ClearedSlots
      <3> QED BY <1>3, <3>1, Zenon DEF SlotsStay, SlotsOK
    <2>2. T[b] \in Seq(Clusters) /\ Of(T[b]) \cap {x} = {}  BY <1>2
    <2>3. View(w, T[b]) = View(v, T[b])  BY <1>3, <2>1, <2>2, ViewsElsewhere
    <2> QED BY <1>1, <2>3
  <1>6. /\ InOrder(View(w, r)) /\ HeadsAt(View(w, r)) = HeadsAt(View(v, q))
        /\ \A j \in DOMAIN View(v, q) : j \in DOMAIN View(w, r) /\ View(w, r)[j] = View(v, q)[j]
    <2> DEFINE M == Len(q) * SlotsPerClu
               N == (Len(q) + 1) * SlotsPerClu
               s == View(v, q)
               t == View(w, r)
    <2>1. /\ M \in Nat /\ N \in Nat /\ M < N /\ DOMAIN s = 0 .. M - 1 /\ DOMAIN t = 0 .. N - 1
          /\ \A j \in 0 .. M - 1 : t[j] = s[j]
          /\ \A j \in M .. N - 1 : t[j] = Unused
      <3> HIDE DEF T2
      <3>1. q \in Seq(Clusters) /\ x \notin Of(q)  BY <1>2
      <3> QED BY <1>3, <3>1, LongerView
    <2>2. InOrder(s)  BY <1>3
    <2> HIDE DEF M, N, s, t, q, r
    <2>3. M <= N  BY <2>1
    <2>4. InOrder(t) /\ HeadsAt(t) = HeadsAt(s)
      <3>1. M \in Nat /\ N \in Nat /\ DOMAIN s = 0 .. M - 1 /\ DOMAIN t = 0 .. N - 1  BY <2>1
      <3>2. \A j \in 0 .. M - 1 : t[j] = s[j]  BY <2>1
      <3>3. \A j \in M .. N - 1 : t[j] = Unused  BY <2>1
      <3> QED BY ONLY <2>2, <2>3, <3>1, <3>2, <3>3, LongerInOrder
    <2>5. \A j \in DOMAIN s : j \in DOMAIN t /\ t[j] = s[j]  BY <2>1
    <2> QED BY <2>4, <2>5 DEF s, t
  <1>7. Ordered(w, T2)
    <2>1. \A b \in DOMAIN T2 : InOrder(View(w, T2[b]))  BY <1>1, <1>3, <1>5, <1>6, Zenon
    <2> QED BY <1>4, <2>1 DEF Ordered
  <1>8. Entries(w, T2) = Entries(v, T)
    <2>1. ASSUME NEW z PROVE z \in Entries(w, T2) <=> z \in Entries(v, T)
      <3>1. z.dir \in DOMAIN T => HeadsAt(View(w, T2[z.dir])) = HeadsAt(View(v, T[z.dir]))
        BY <1>1, <1>5, <1>6, Zenon
      <3>2. z.dir \in DOMAIN T /\ z.at \in HeadsAt(View(v, T[z.dir])) =>
               View(w, T2[z.dir])[z.at] = View(v, T[z.dir])[z.at]
        <4> SUFFICES ASSUME z.dir \in DOMAIN T, z.at \in HeadsAt(View(v, T[z.dir]))
                     PROVE  View(w, T2[z.dir])[z.at] = View(v, T[z.dir])[z.at]
          OBVIOUS
        <4>1. z.at \in DOMAIN View(v, T[z.dir])  BY DEF HeadsAt
        <4>2. CASE z.dir = c
          <5>1. T2[z.dir] = r /\ T[z.dir] = q  BY <1>1, <4>2
          <5>2. z.at \in DOMAIN View(v, q)  BY <4>1, <5>1
          <5> HIDE DEF r, q
          <5>3. View(w, r)[z.at] = View(v, q)[z.at]  BY <1>6, <5>2
          <5> QED BY <5>1, <5>3
        <4>3. CASE z.dir # c  BY <1>5, <4>3
        <4> QED BY <4>2, <4>3
      <3> QED BY <1>1, <3>1, <3>2, EntryIs
    <2> QED BY <2>1, Zenon
  <1>9. TableOK(w, T2)
    <2>1. /\ r \in Seq(Clusters) /\ Len(r) > 0 /\ r[1] = c
          /\ \A j, k \in 1 .. Len(r) : r[j] = r[k] => j = k
          /\ Of(r) = Of(q) \cup {x} /\ Of(q) \subseteq v.bitmap
      <3>1. /\ q \in Seq(Clusters) /\ Len(q) > 0 /\ q[1] = c
            /\ \A j, k \in 1 .. Len(q) : q[j] = q[k] => j = k
            /\ Of(q) \subseteq v.bitmap
        BY DEF TableOK
      <3>2. Len(q) \in Nat /\ DOMAIN q = 1 .. Len(q) /\ \A k \in 1 .. Len(q) : q[k] \in Of(q)
        BY <3>1 DEF Of
      <3> HIDE DEF q
      <3>3. /\ Len(r) = Len(q) + 1 /\ r \in Seq(Clusters) /\ r[Len(q) + 1] = x
            /\ \A k \in 1 .. Len(q) : r[k] = q[k]
        BY <3>1, <3>2
      <3> HIDE DEF r
      <3>4. r[1] = c  BY <3>1, <3>2, <3>3
      <3>5. \A k \in 1 .. Len(r) : k \in 1 .. Len(q) \/ k = Len(q) + 1  BY <3>2, <3>3
      <3>6. x \notin Of(q)  BY <3>1
      <3>7. ASSUME NEW j \in 1 .. Len(r), NEW k \in 1 .. Len(r), r[j] = r[k] PROVE j = k
        BY <3>1, <3>2, <3>3, <3>5, <3>6, <3>7
      <3>8. Of(r) = Of(q) \cup {x}
        <4>1. DOMAIN r = 1 .. Len(r)  BY <3>3
        <4>2. Len(q) + 1 \in 1 .. Len(r) /\ 1 .. Len(q) \subseteq 1 .. Len(r)  BY <3>2, <3>3
        <4> QED BY <3>2, <3>3, <3>5, <4>1, <4>2, Zenon DEF Of
      <3> QED BY <3>1, <3>2, <3>3, <3>4, <3>7, <3>8
    <2> HIDE DEF r, q
    <2>2. ASSUME NEW b \in DOMAIN T2
          PROVE  /\ T2[b] \in Seq(Clusters) /\ Len(T2[b]) > 0 /\ T2[b][1] = b
                 /\ \A j, k \in 1 .. Len(T2[b]) : T2[b][j] = T2[b][k] => j = k
                 /\ Of(T2[b]) \subseteq w.bitmap
      <3>1. CASE b = c  BY <1>1, <2>1, <3>1
      <3>2. CASE b # c
        <4>1. T2[b] = T[b] /\ b \in DOMAIN T  BY <1>1, <3>2
        <4>2. /\ T[b] \in Seq(Clusters) /\ Len(T[b]) > 0 /\ T[b][1] = b
              /\ \A j, k \in 1 .. Len(T[b]) : T[b][j] = T[b][k] => j = k
              /\ Of(T[b]) \subseteq v.bitmap
          BY <4>1 DEF TableOK
        <4> QED BY <4>1, <4>2
      <3> QED BY <3>1, <3>2
    <2>3. ASSUME NEW b \in DOMAIN T2, NEW e \in DOMAIN T2, b # e
          PROVE  Of(T2[b]) \cap Of(T2[e]) = {}
      <3>1. Of(T[b]) \cap Of(T[e]) = {} /\ x \notin Of(T[b]) /\ x \notin Of(T[e])
        BY <1>1, <1>2, <2>3 DEF TableOK
      <3>2. Of(T2[b]) \subseteq Of(T[b]) \cup {x} /\ (b # c => T2[b] = T[b])
        BY <1>1, <2>1 DEF q
      <3>3. Of(T2[e]) \subseteq Of(T[e]) \cup {x} /\ (e # c => T2[e] = T[e])
        BY <1>1, <2>1 DEF q
      <3> QED BY <2>3, <3>1, <3>2, <3>3
    <2> QED BY <2>2, <2>3 DEF TableOK
  <1>10. \A b \in DOMAIN T : \A j \in DOMAIN View(v, T[b]) :
            j \in DOMAIN View(w, T2[b]) /\ View(w, T2[b])[j] = View(v, T[b])[j]
    <2> TAKE b \in DOMAIN T
    <2> TAKE j \in DOMAIN View(v, T[b])
    <2> QED BY <1>1, <1>5, <1>6, Zenon
  <1> QED BY <1>1, <1>5, <1>7, <1>8, <1>9, <1>10 DEF T2

\* The directory d grows by the cluster of a: g is what comes of it, and w how the volume
\* is before the entry is told.
GrowsFrom(v, ino, pnd, T, d, a, w, g) ==
    /\ Consistent(v, ino, pnd, T) /\ d \in Inodes /\ IsDirectory(ino[d])
    /\ GrownBy(v, ino, d, ChainOf(ino[d]), T[ino[d].start], a, w, g)
    /\ Keeps(v, ino, g.v, g.ino) /\ OnlyGrows(ino, g.ino, d)
    /\ OthersStay(v, g.v, Of(T[ino[d].start]))

LEMMA GrowsFacts ==
  ASSUME NEW v, NEW ino, NEW pnd, NEW T, NEW d, NEW a, NEW w, NEW g,
         GrowsFrom(v, ino, pnd, T, d, a, w, g)
  PROVE  LET c == ino[d].start
             T2 == Lengthened(T, c, a.clu)
         IN /\ c \in DOMAIN T /\ a.clu \in Clusters \ v.bitmap /\ a.flags \in {1, 3}
            /\ DOMAIN T2 = DOMAIN T /\ T2[c] = Append(T[c], a.clu)
            /\ \A b \in DOMAIN T \ {c} : T2[b] = T[b]
            /\ TableOK(v, T) /\ TableOK(w, T2) /\ Ordered(w, T2) /\ Entries(w, T2) = Entries(v, T)
            /\ \A b \in DOMAIN T : \A j \in DOMAIN View(v, T[b]) :
                  j \in DOMAIN View(w, T2[b]) /\ View(w, T2[b])[j] = View(v, T[b])[j]
            /\ VolOK(v) /\ VolOK(w) /\ VolOK(g.v) /\ Counted(g.v) /\ SameFat(w, g.v)
            /\ Good(v, ino) /\ Good(g.v, g.ino)
            /\ \A p, q : Through(g.v, p, q) => Through(w, p, q)
            /\ NamesTrue(Entries(v, T), ino, pnd, T) /\ HintTrue(Entries(v, T), v, T) /\ Dirs(ino, pnd)
  <1> DEFINE c == ino[d].start
             T2 == Lengthened(T, c, a.clu)
  <1>1. /\ Catalogue(Entries(v, T), v, ino, pnd, T) /\ Ordered(v, T) /\ Good(v, ino)
        /\ NamesTrue(Entries(v, T), ino, pnd, T) /\ Good(g.v, g.ino)
        /\ HintTrue(Entries(v, T), v, T) /\ Dirs(ino, pnd)
    BY DEF GrowsFrom, Consistent, Catalogue, Keeps
  <1>2. TableOK(v, T)  BY <1>1, TableIs
  <1>3. c \in DOMAIN T  BY OpenedIs DEF GrowsFrom
  <1>4. /\ a.clu \in Clusters \ v.bitmap /\ a.flags \in {1, 3} /\ SameFat(w, g.v)
        /\ w.slots = Over(Block({a.clu}, Unused), v.slots)
        /\ g.v.bitmap = v.bitmap \cup {a.clu}
    BY DEF GrowsFrom, GrownBy, Grown
  <1>5. VolOK(v) /\ VolOK(g.v) /\ Counted(g.v) /\ v.bitmap \subseteq Clusters
    BY <1>1 DEF Good, VolOK, FatOK
  <1>6. w.bitmap = v.bitmap \cup {a.clu} /\ SameFat(g.v, w)
    BY <1>4 DEF SameFat, SameClusters
  <1>7. VolOK(w) /\ \A p, q : Through(g.v, p, q) => Through(w, p, q)  BY <1>5, <1>6, SameFatIs
  <1> HIDE DEF c
  <1> DEFINE x == a.clu
  <1>8. x \in Clusters \ v.bitmap /\ w.slots = Over(Block({x}, Unused), v.slots)
        /\ w.bitmap = v.bitmap \cup {x}
    BY <1>4, <1>6
  <1>9. T2 = Lengthened(T, c, x)  OBVIOUS
  <1> HIDE DEF x, T2
  <1>10. LET R == Lengthened(T, c, x)
         IN /\ DOMAIN R = DOMAIN T /\ R[c] = Append(T[c], x) /\ \A b \in DOMAIN T \ {c} : R[b] = T[b]
            /\ TableOK(w, R) /\ Ordered(w, R) /\ Entries(w, R) = Entries(v, T)
            /\ \A b \in DOMAIN T : \A j \in DOMAIN View(v, T[b]) :
                  j \in DOMAIN View(w, R[b]) /\ View(w, R[b])[j] = View(v, T[b])[j]
    BY ONLY <1>1, <1>2, <1>3, <1>5, <1>8, LengthenedIs
  <1> QED BY <1>1, <1>2, <1>3, <1>4, <1>5, <1>7, <1>9, <1>10 DEF x, c

\* An entry of a directory that is not the root.
Told(x, f, k) == EntryAt(x.dir, x.at, [x.head EXCEPT !.size = f.size + 1, !.flags = k])

LEMMA ToldIs ==
  ASSUME NEW x, x.head \in Heads, NEW f, f.size \in Nat, NEW k \in {1, 3}
  PROVE  LET h == Told(x, f, k).head
         IN /\ h \in Heads /\ h.name = x.head.name /\ h.type = x.head.type /\ h.clu = x.head.clu
            /\ h.size = f.size + 1 /\ h.flags = k
            /\ Told(x, f, k).dir = x.dir /\ Told(x, f, k).at = x.at
  <1> DEFINE h == [x.head EXCEPT !.size = f.size + 1, !.flags = k]
  <1>1. /\ h \in Heads /\ h.name = x.head.name /\ h.type = x.head.type /\ h.clu = x.head.clu
        /\ h.size = f.size + 1 /\ h.flags = k
    <2> DEFINE m == f.size + 1
               z == x.head
               h2 == [z EXCEPT !.size = m, !.flags = k]
    <2>1. m \in Nat /\ z \in Heads /\ h = h2  OBVIOUS
    <2> HIDE DEF m, z, h
    <2>2. /\ h2 \in Heads /\ h2.name = z.name /\ h2.type = z.type /\ h2.clu = z.clu
          /\ h2.size = m /\ h2.flags = k
      BY <2>1, Zenon DEF Heads
    <2> HIDE DEF h2
    <2> QED BY <2>1, <2>2 DEF m, z
  <1> HIDE DEF h
  <1>2. /\ EntryAt(x.dir, x.at, h).head = h /\ EntryAt(x.dir, x.at, h).dir = x.dir
        /\ EntryAt(x.dir, x.at, h).at = x.at
    BY DEF EntryAt
  <1> QED BY <1>1, <1>2, Zenon DEF Told, h

LEMMA GrownHead ==
  ASSUME NEW v, NEW ino, NEW pnd, NEW T, NEW d, NEW a, NEW w, NEW g,
         GrowsFrom(v, ino, pnd, T, d, a, w, g), d # Root
  PROVE  LET T2 == Lengthened(T, ino[d].start, a.clu)
             E == Entries(v, T)
         IN \E x \in E : /\ Home(E, ino, d, x) /\ Has(ino, d, x) /\ x.dir = RootClu /\ x.head \in Heads
                         /\ \A z \in E : Has(ino, d, z) => z = x
                         /\ Rewritten(w, g.v, T2, x.dir, x.at, {Told(x, ino[d], a.flags)})
                         /\ g.v.hint = w.hint
  <1> DEFINE c == ino[d].start
             T2 == Lengthened(T, c, a.clu)
             E == Entries(v, T)
             f == ino[d]
             r == T[RootClu]
  <1>1. /\ c \in DOMAIN T /\ a.clu \in Clusters \ v.bitmap /\ a.flags \in {1, 3}
        /\ DOMAIN T2 = DOMAIN T /\ T2[c] = Append(T[c], a.clu)
        /\ \A b \in DOMAIN T \ {c} : T2[b] = T[b]
        /\ TableOK(v, T) /\ TableOK(w, T2) /\ Ordered(w, T2) /\ Entries(w, T2) = E
        /\ VolOK(v) /\ VolOK(w) /\ VolOK(g.v) /\ SameFat(w, g.v) /\ Good(v, ino)
        /\ \A p, q : Through(g.v, p, q) => Through(w, p, q)
        /\ NamesTrue(E, ino, pnd, T) /\ Dirs(ino, pnd)
    BY GrowsFacts
  <1> HIDE DEF T2
  <1>2. d \in Inodes /\ IsDirectory(f) /\ Consistent(v, ino, pnd, T) /\ OthersStay(v, g.v, Of(T[c]))
    BY DEF GrowsFrom
  <1>3. d \in Inodes \ {Root} /\ f.st = "linked" /\ Named(ino, d)  BY <1>2 DEF IsDirectory, Named
  <1>4. PICK x \in E : /\ Home(E, ino, d, x) /\ Has(ino, d, x)
                       /\ \A z \in E : Has(ino, d, z) => z = x
    BY <1>1, <1>3, OwnEntry
  <1>5. f.parent = Root /\ f.dir.flags = 1 /\ f.entry \in Nat /\ f.dir.dir = ino[Root].start
        /\ ino[Root].start = RootClu /\ ino[Root].flags = 1 /\ IsDirectory(ino[Root]) /\ Root \in Inodes
    <2>1. f.type = "dir"  BY <1>2 DEF IsDirectory
    <2>2. f.parent = Root /\ f.dir.flags = 1 /\ f.entry \in Nat /\ f.dir.dir = ino[f.parent].start
      BY <1>1, <1>3, <2>1 DEF NamesTrue, HomesTrue
    <2>3. ino[Root].start = RootClu /\ ino[Root].flags = 1 /\ IsDirectory(ino[Root])
      BY <1>1 DEF Dirs, IsDirectory
    <2> QED BY <2>2, <2>3, VolumeAssumption
  <1>6. x.dir = RootClu /\ x.at = f.entry
    BY <1>2, <1>4, <1>5 DEF Home, IsDirectory
  <1>7. c # RootClu /\ RootClu \in DOMAIN T /\ Through(v, ChainOf(ino[Root]), r)
    <2>1. c = RootClu => d = Root  BY <1>2, OpenedIs
    <2>2. RootClu \in DOMAIN T /\ Through(v, ChainOf(ino[Root]), T[RootClu])
      BY <1>2, <1>5, OpenedIs
    <2> QED BY <1>3, <2>1, <2>2
  <1>8. Through(w, f.dir, r) /\ T2[RootClu] = r
    <2>1. Through(v, f.dir, r)
      <3>1. ChainOf(ino[Root]).flags = 1 /\ ChainOf(ino[Root]).dir = RootClu
        BY <1>5 DEF ChainOf, Chain
      <3>2. /\ r \in Seq(Clusters) /\ Len(r) > 0
            /\ \A j, k \in 1 .. Len(r) : r[j] = r[k] => j = k
            /\ RootClu = r[1]
            /\ \A k \in 1 .. Len(r) - 1 : v.fat[r[k]] = r[k + 1]
            /\ v.fat[r[Len(r)]] = EOC
        BY <1>7, <3>1 DEF Through
      <3>3. f.dir.dir = RootClu /\ f.dir.flags = 1  BY <1>5
      <3> QED BY <3>2, <3>3, SMTT(60) DEF Through
    <2>2. Of(r) \cap Of(T[c]) = {} /\ Of(r) \subseteq v.bitmap  BY <1>1, <1>7 DEF TableOK
    <2>3. Through(g.v, f.dir, r)  BY <1>2, <2>1, <2>2 DEF OthersStay
    <2> QED BY <1>1, <1>7, <2>3
  <1> DEFINE n == NameLen[x.head.name]
  <1>9. /\ n \in Nat \ {0} /\ x.at \in Nat /\ x.head \in Heads
        /\ x.at \in HeadsAt(View(w, r)) /\ View(w, r)[x.at] = x.head
        /\ \A m \in 0 .. n - 1 : x.at + m \in Idx(r)
    <2>1. x \in Entries(w, T2)  BY <1>1, <1>4
    <2> DEFINE s == View(w, T2[x.dir])
    <2>2. /\ n \in Nat \ {0} /\ x.at \in Nat /\ x.head \in Heads
          /\ x.at \in HeadsAt(s) /\ s[x.at] = x.head
          /\ \A m \in 0 .. n - 1 : x.at + m \in Idx(T2[x.dir])
      BY <1>1, <2>1, SlotsOfEntry
    <2>3. T2[x.dir] = r  BY <1>6, <1>8
    <2> QED BY <2>2, <2>3
  <1>10. LeadsTo(w, f.dir, f.entry, r, x.at, n)
    <2>1. FatOK(w) /\ n \in Nat  BY <1>1, <1>9 DEF VolOK
    <2>2. LeadsTo(w, f.dir, x.at, r, x.at, n)
      <3> HIDE DEF n, r, f
      <3> QED BY <1>8, <1>9, <2>1, LeadsStraight, Zenon
    <2> QED BY <1>6, <2>2
  <1>11. Slot(w, f.dir, f.entry) = x.head
    <2>1. f.entry \in Int /\ 0 \in 0 .. n - 1  BY <1>5, <1>9
    <2>2. Slot(w, f.dir, f.entry + 0) = View(w, r)[x.at + 0]
      <3> HIDE DEF n, r, f
      <3> QED BY <1>10, <2>1, ReadVia
    <2>3. f.entry + 0 = f.entry /\ x.at + 0 = x.at  BY <1>5, <1>9
    <2> QED BY <1>9, <2>2, <2>3
  <1> DEFINE y == Told(x, f, a.flags)
  <1>12. f.size \in Nat
    <2>1. f.size = Len(T[c])  BY <1>2, OpenedIs
    <2> QED BY <1>1, <2>1, LenProperties DEF TableOK
  <1>13. /\ y.head \in Heads /\ y.head.name = x.head.name /\ y = EntryAt(x.dir, x.at, y.head)
         /\ y.head = [x.head EXCEPT !.size = f.size + 1, !.flags = a.flags]
    <2>1. y.head \in Heads /\ y.head.name = x.head.name
          /\ y.head = [x.head EXCEPT !.size = f.size + 1, !.flags = a.flags]
      <3> DEFINE k == a.flags
      <3>1. k \in {1, 3} /\ x.head \in Heads  BY <1>1, <1>9
      <3> HIDE DEF f, k
      <3>2. Told(x, f, k).head \in Heads /\ Told(x, f, k).head.name = x.head.name
        BY ONLY <1>12, <3>1, ToldIs
      <3>3. Told(x, f, k).head = [x.head EXCEPT !.size = f.size + 1, !.flags = k]
        BY DEF Told, EntryAt
      <3> QED BY <3>2, <3>3 DEF k
    <2>2. y = EntryAt(x.dir, x.at, y.head)  BY DEF Told, EntryAt
    <2> QED BY <2>1, <2>2
  <1>14. g.v = PutSlots(w, f.dir, f.entry, <<y.head>>)
    <2>1. g.v = PutSlots(w, f.dir, f.entry,
                   <<[Slot(w, f.dir, f.entry) EXCEPT !.size = f.size + 1, !.flags = a.flags]>>)
      <3>1. ChainOf(ino[d]).dir = c  BY DEF ChainOf, Chain
      <3> QED BY <1>7, <3>1 DEF GrowsFrom, GrownBy
    <2> QED BY <1>11, <1>13, <2>1
  <1>15. Rewritten(w, g.v, T2, x.dir, x.at, {y})
    <2>1. RootClu \in DOMAIN T2 /\ T2[RootClu] = r  BY <1>1, <1>7, <1>8
    <2> DEFINE b == RootClu
               h == y.head
    <2>2. /\ VolOK(w) /\ TableOK(w, T2) /\ Ordered(w, T2) /\ b \in DOMAIN T2 /\ f.entry \in Int
          /\ LeadsTo(w, f.dir, f.entry, T2[b], x.at, n) /\ x.at \in HeadsAt(View(w, T2[b]))
          /\ n = NameLen[View(w, T2[b])[x.at].name] /\ h \in Heads /\ n = NameLen[h.name]
      BY <1>1, <1>5, <1>9, <1>10, <1>13, <2>1
    <2>3. y = EntryAt(b, x.at, h) /\ x.dir = b  BY <1>6, <1>13
    <2> HIDE DEF b, h, y, n, f, r
    <2>4. Rewritten(w, PutSlots(w, f.dir, f.entry, <<h>>), T2, b, x.at, {EntryAt(b, x.at, h)})
      BY <2>2, WriteHead, Zenon
    <2>5. g.v = PutSlots(w, f.dir, f.entry, <<h>>)  BY <1>14 DEF h
    <2> QED BY <2>3, <2>4, <2>5
  <1>16. g.v.hint = w.hint  BY <1>1, <1>14, PutSlotsKeeps
  <1> HIDE DEF n
  <1> QED BY <1>4, <1>6, <1>9, <1>15, <1>16, Zenon DEF T2

LEMMA GrownInodes ==
  ASSUME NEW v, NEW ino, NEW pnd, NEW T, NEW d, NEW a, NEW w, NEW g,
         GrowsFrom(v, ino, pnd, T, d, a, w, g)
  PROVE  LET jno == g.ino
         IN /\ \A j \in Inodes : j # d => jno[j] = ino[j]
            /\ jno[d].st = "linked" /\ jno[d].type = "dir" /\ jno[d].name = ino[d].name
            /\ jno[d].parent = ino[d].parent /\ jno[d].dir = ino[d].dir /\ jno[d].entry = ino[d].entry
            /\ jno[d].start = ino[d].start /\ jno[d].size = ino[d].size + 1 /\ jno[d].flags = a.flags
            /\ jno[d].dirty = ino[d].dirty /\ (ino[d].flags = 1 => jno[d].flags = 1)
            /\ Dirs(jno, pnd)
            /\ \A i \in Inodes : IsDirectory(ino[i]) =>
                  /\ IsDirectory(jno[i]) /\ jno[i].start = ino[i].start
                  /\ ino[i].flags = 1 => jno[i].flags = 1
  <1> DEFINE f == ino[d]
             jno == g.ino
  <1>1. /\ d \in Inodes /\ IsDirectory(f) /\ OnlyGrows(ino, jno, d)
        /\ jno = [ino EXCEPT ![d].size = @ + 1, ![d].flags = a.flags]
        /\ Good(v, ino) /\ Dirs(ino, pnd)
    BY GrowsFacts, Zenon DEF GrowsFrom, GrownBy
  <1>2. DOMAIN ino = Inodes /\ InodeOK(f) /\ f # Free  BY <1>1 DEF Good, IsDirectory, Free
  <1>3. DOMAIN f = {"st", "type", "name", "parent", "dir", "entry", "flags", "start",
                    "size", "hoff", "hclu", "dirty"}
    BY <1>2 DEF InodeOK
  <1> DEFINE h == [[f EXCEPT !.size = f.size + 1] EXCEPT !.flags = a.flags]
  <1>4. jno[d] = h
    <2> HIDE DEF jno
    <2> DEFINE k == [ino EXCEPT ![d].size = @ + 1]
    <2>1. jno = [k EXCEPT ![d].flags = a.flags]  BY <1>1
    <2>2. DOMAIN k = Inodes /\ k[d] = [f EXCEPT !.size = f.size + 1]  BY <1>1, <1>2
    <2> HIDE DEF k
    <2>3. jno[d] = [k[d] EXCEPT !.flags = a.flags]  BY <1>1, <2>1, <2>2
    <2> QED BY <2>2, <2>3
  <1> HIDE DEF jno
  <1>5. /\ h.st = f.st /\ h.type = f.type /\ h.name = f.name /\ h.parent = f.parent
        /\ h.dir = f.dir /\ h.entry = f.entry /\ h.start = f.start /\ h.dirty = f.dirty
        /\ h.size = f.size + 1 /\ h.flags = a.flags
    BY <1>3
  <1> HIDE DEF h
  <1>6. Dirs(jno, pnd)  BY <1>1, GrowsDirs
  <1>7. \A j \in Inodes : j # d => jno[j] = ino[j]  BY <1>1, Zenon DEF OnlyGrows
  <1>8. f.flags = 1 => jno[d].flags = 1  BY <1>1 DEF OnlyGrows
  <1>9. \A i \in Inodes : IsDirectory(ino[i]) =>
            /\ IsDirectory(jno[i]) /\ jno[i].start = ino[i].start
            /\ ino[i].flags = 1 => jno[i].flags = 1
    <2> TAKE i \in Inodes
    <2>1. CASE i = d  BY <1>1, <1>4, <1>5, <1>8, <2>1 DEF IsDirectory
    <2>2. CASE i # d  BY <1>7, <2>2
    <2> QED BY <2>1, <2>2
  <1> QED BY <1>1, <1>4, <1>5, <1>6, <1>7, <1>8, <1>9, Zenon DEF jno, IsDirectory

\* The root directory has no entry that could tell of it.
LEMMA GrownRoot ==
  ASSUME NEW v, NEW ino, NEW pnd, NEW T, NEW d, NEW a, NEW w, NEW g,
         GrowsFrom(v, ino, pnd, T, d, a, w, g), d = Root
  PROVE  LET T2 == Lengthened(T, ino[d].start, a.clu)
         IN NamesStep(Entries(v, T), v, ino, pnd, T, None, {}, {}, g.ino, pnd, T2)
  <1> DEFINE E == Entries(v, T)
             jno == g.ino
             T2 == Lengthened(T, ino[d].start, a.clu)
  <1>1. /\ \A j \in Inodes : j # d => jno[j] = ino[j]
        /\ jno[d].st = "linked" /\ jno[d].type = "dir" /\ jno[d].start = ino[d].start
        /\ Dirs(jno, pnd)
        /\ \A i \in Inodes : IsDirectory(ino[i]) =>
              /\ IsDirectory(jno[i]) /\ jno[i].start = ino[i].start
              /\ ino[i].flags = 1 => jno[i].flags = 1
    BY GrownInodes
  <1>2. /\ DOMAIN T2 = DOMAIN T /\ Good(v, ino) /\ Good(g.v, jno) /\ Dirs(ino, pnd)
        /\ NamesTrue(E, ino, pnd, T)
    BY GrowsFacts
  <1> HIDE DEF T2, jno
  <1>3. None \notin Inodes /\ None # Root  BY NoneAssumption, VolumeAssumption
  <1>4. InodesStep(v, ino, pnd, None, jno, pnd)
    <2>0. ino[d].st = "linked" /\ ino[d].type = "dir"  BY DEF GrowsFrom, IsDirectory
    <2>1. NamesStay(ino, jno, None)  BY <1>1, <2>0 DEF NamesStay
    <2>2. DirsStay(ino, jno, None)  BY <1>1 DEF DirsStay
    <2> QED BY <1>1, <1>2, <1>3, <2>1, <2>2 DEF InodesStep, Good
  <1>5. EntriesStep(E, ino, None, {}, {}, jno, T2)
    <2>1. ~Named(jno, None)  BY <1>3 DEF Named
    <2> QED BY <2>1 DEF EntriesStep
  <1>6. TableStep(E, T, {}, {}, T2)  BY <1>2 DEF TableStep, NamesTrue, DirsTrue
  <1>7. MissingStep({}, pnd, jno, pnd)  BY DEF MissingStep
  <1> QED BY <1>4, <1>5, <1>6, <1>7 DEF NamesStep, jno, T2

LEMMA GrownNames ==
  ASSUME NEW v, NEW ino, NEW pnd, NEW T, NEW d, NEW a, NEW w, NEW g,
         GrowsFrom(v, ino, pnd, T, d, a, w, g), d # Root, NEW x \in Entries(v, T),
         Home(Entries(v, T), ino, d, x), Has(ino, d, x), x.dir = RootClu, x.head \in Heads
  PROVE  LET T2 == Lengthened(T, ino[d].start, a.clu)
             E == Entries(v, T)
             y == Told(x, ino[d], a.flags)
         IN NamesStep(E, v, ino, pnd, T, d, {x}, {y}, g.ino, pnd, T2) /\ {y} \cap (E \ {x}) = {}
  <1> DEFINE E == Entries(v, T)
             f == ino[d]
             jno == g.ino
             y == Told(x, ino[d], a.flags)
             T2 == Lengthened(T, ino[d].start, a.clu)
  <1>1. /\ \A j \in Inodes : j # d => jno[j] = ino[j]
        /\ jno[d].st = "linked" /\ jno[d].type = "dir" /\ jno[d].name = f.name
        /\ jno[d].parent = f.parent /\ jno[d].dir = f.dir /\ jno[d].entry = f.entry
        /\ jno[d].start = f.start /\ jno[d].size = f.size + 1 /\ jno[d].flags = a.flags
        /\ Dirs(jno, pnd)
        /\ \A i \in Inodes : IsDirectory(ino[i]) =>
              /\ IsDirectory(jno[i]) /\ jno[i].start = ino[i].start
              /\ ino[i].flags = 1 => jno[i].flags = 1
    BY GrownInodes
  <1>2. /\ DOMAIN T2 = DOMAIN T /\ Good(v, ino) /\ Good(g.v, jno) /\ Dirs(ino, pnd)
        /\ NamesTrue(E, ino, pnd, T) /\ a.flags \in {1, 3} /\ f.start \in DOMAIN T
    BY GrowsFacts
  <1> HIDE DEF T2, jno
  <1>3. /\ d \in Inodes \ {Root} /\ f.st = "linked" /\ f.type = "dir" /\ IsDirectory(f)
        /\ Consistent(v, ino, pnd, T)
    BY DEF GrowsFrom, IsDirectory
  <1>4. f.size \in Nat
    <2>1. f.size = Len(T[f.start]) /\ TableOK(v, T)
      BY <1>3, OpenedIs, GrowsFacts
    <2> QED BY <1>2, <2>1, LenProperties DEF TableOK
  <1>5. /\ y.head \in Heads /\ y.head.name = x.head.name /\ y.head.type = x.head.type
        /\ y.head.clu = x.head.clu /\ y.head.size = f.size + 1 /\ y.head.flags = a.flags
        /\ y.dir = x.dir /\ y.at = x.at
    <2> DEFINE k == a.flags
    <2>1. k \in {1, 3}  BY <1>2
    <2> HIDE DEF f, k
    <2>2. /\ Told(x, f, k).head \in Heads /\ Told(x, f, k).head.name = x.head.name
          /\ Told(x, f, k).head.type = x.head.type
          /\ Told(x, f, k).head.clu = x.head.clu /\ Told(x, f, k).head.size = f.size + 1
          /\ Told(x, f, k).head.flags = k /\ Told(x, f, k).dir = x.dir /\ Told(x, f, k).at = x.at
      BY ONLY <1>4, <2>1, x.head \in Heads, ToldIs
    <2> QED BY <2>2 DEF f, k
  <1> HIDE DEF y
  <1>6. /\ f.parent = Root /\ f.dir.flags = 1 /\ f.entry \in Nat /\ Knows(ino, f)
        /\ ino[Root].start = RootClu /\ IsDirectory(ino[Root]) /\ Root \in Inodes
        /\ \A j \in Inodes \ {Root} : j # d /\ Named(ino, j) /\ ino[j].parent = Root
                                      => ino[j].name # f.name
    <2>1. /\ f.parent = Root /\ f.dir.flags = 1 /\ f.entry \in Nat /\ Knows(ino, f)
          /\ \A j \in Inodes \ {Root} : j # d /\ Named(ino, j) /\ ino[j].parent = f.parent
                                        => ino[j].name # f.name
      BY <1>2, <1>3 DEF NamesTrue, HomesTrue, Named, Knows
    <2>2. ino[Root].start = RootClu /\ IsDirectory(ino[Root])
      BY <1>2 DEF Dirs, IsDirectory
    <2> QED BY <2>1, <2>2, VolumeAssumption
  <1>7. InodesStep(v, ino, pnd, d, jno, pnd)
    <2>1. NamesStay(ino, jno, d)  BY <1>1 DEF NamesStay
    <2>2. DirsStay(ino, jno, d)  BY <1>1 DEF DirsStay
    <2> QED BY <1>1, <1>2, <1>3, <2>1, <2>2 DEF InodesStep, Good
  <1>8. \A z \in E \ {x} : ~(z.dir = y.dir /\ z.head.name = y.head.name)
    BY <1>2, <1>5 DEF NamesTrue, EntriesTrue
  <1>9. EntriesStep(E, ino, d, {x}, {y}, jno, T2)
    <2>1. y.dir \in DOMAIN T2  BY <1>2, <1>5 DEF NamesTrue, DirsTrue
    <2>2. y.dir = jno[jno[d].parent].start  BY <1>1, <1>5, <1>6
    <2>3. Named(jno, d) /\ Named(ino, d)  BY <1>1, <1>3 DEF Named
    <2>4. Knows(jno, jno[d])  BY <1>1, <1>6 DEF Knows
    <2>5. Placed(ino, jno, d)  BY <1>1, <1>6, <2>4 DEF Placed
    <2>6. Agrees(f, x.head) /\ x.at = f.entry  BY <1>3 DEF Home
    <2>7. Agrees(jno[d], y.head)
      <3>1. f.start # EOC
        <4>1. Owns(f)  BY <1>2, <1>3, DirOwns DEF Good
        <4> QED BY <4>1 DEF Owns
      <3> QED BY <1>1, <1>3, <1>5, <2>6, <3>1 DEF Agrees
    <2>8. y.at = jno[d].entry  BY <1>1, <1>5, <2>6
    <2> QED BY <1>5, <1>8, <2>1, <2>2, <2>3, <2>5, <2>7, <2>8 DEF EntriesStep
  <1>10. TableStep(E, T, {x}, {y}, T2)
    <2>1. RootClu \in DOMAIN T  BY <1>2 DEF NamesTrue, DirsTrue
    <2>2. ASSUME x.head.type = "dir"
          PROVE  /\ x.dir = RootClu /\ x.head.clu \in DOMAIN T \ {RootClu}
                 /\ \A z \in E : z.head.type = "dir" /\ z.head.clu = x.head.clu => z = x
      BY <1>2, <2>2 DEF NamesTrue, DirsTrue
    <2> QED BY <1>2, <1>5, <2>1, <2>2 DEF TableStep
  <1>11. MissingStep({y}, pnd, jno, pnd)
    <2>1. ASSUME NEW b \in Inodes, pnd[b] # None, y.dir = jno[b].start PROVE y.head.name # pnd[b]
      <3>1. IsDirectory(ino[b])  BY <1>2, <2>1 DEF Dirs, IsDirectory
      <3>2. x.dir = ino[b].start  BY <1>1, <1>5, <2>1, <3>1
      <3> QED BY <1>2, <1>5, <2>1, <3>2 DEF NamesTrue, NamesMissing
    <2> QED BY <2>1 DEF MissingStep
  <1>12. {y} \cap (E \ {x}) = {}  BY <1>8
  <1> QED BY <1>7, <1>9, <1>10, <1>11, <1>12 DEF NamesStep, jno, T2, y
\* The clusters of the directory that has grown, and of all others.
LEMMA GrownData ==
  ASSUME NEW v, NEW ino, NEW pnd, NEW T, NEW d, NEW a, NEW w, NEW g,
         GrowsFrom(v, ino, pnd, T, d, a, w, g)
  PROVE  LET T2 == Lengthened(T, ino[d].start, a.clu)
         IN DataSteps(v, ino, g.v, g.ino, d) /\ TableSteps(v, ino, T, g.v, g.ino, T2, d)
  <1> DEFINE f == ino[d]
             jno == g.ino
             c == f.start
             q == T[c]
             r == Append(q, a.clu)
             T2 == Lengthened(T, c, a.clu)
  <1>1. /\ \A j \in Inodes : j # d => jno[j] = ino[j]
        /\ jno[d].st = "linked" /\ jno[d].type = "dir" /\ jno[d].start = f.start
        /\ jno[d].size = f.size + 1 /\ jno[d].flags = a.flags
    BY GrownInodes
  <1>2. /\ c \in DOMAIN T /\ a.clu \in Clusters \ v.bitmap /\ T2[c] = r
        /\ \A b \in DOMAIN T \ {c} : T2[b] = T[b]
        /\ Good(v, ino) /\ Good(g.v, jno) /\ VolOK(g.v) /\ TableOK(v, T)
    BY GrowsFacts
  <1>3. /\ Consistent(v, ino, pnd, T) /\ d \in Inodes /\ IsDirectory(f)
        /\ StrangersStay(v, ino, g.v, jno) /\ OthersStay(v, g.v, Of(q))
    BY DEF GrowsFrom, Keeps
  <1>4. /\ g.p = Chain(c, f.size + 1, a.flags) /\ Through(g.v, g.p, r) /\ Of(r) = Of(q) \cup {a.clu}
        /\ g.v.bitmap = v.bitmap \cup {a.clu}
    BY DEF GrowsFrom, GrownBy, ChainOf, Chain
  <1>5. q = Clus(v, f) /\ Owns(f) /\ f.size = Len(q) /\ Whole(v, f, q)  BY <1>3, OpenedIs
  <1>6. UsedBy(v, f) = Of(q)  BY <1>5 DEF UsedBy
  <1>7. Clus(g.v, jno[d]) = r
    <2>1. ChainOf(jno[d]) = g.p  BY <1>1, <1>4 DEF ChainOf
    <2>2. FatOK(g.v)  BY <1>2 DEF VolOK
    <2>3. ChainSeq(g.v, g.p) = r
      <3> HIDE DEF r
      <3> QED BY <1>4, <2>2, ChainIs
    <2> QED BY <2>1, <2>3 DEF Clus
  <1>8. Owns(jno[d])  BY <1>1, <1>5 DEF Owns
  <1>9. UsedBy(g.v, jno[d]) = Of(q) \cup {a.clu}  BY <1>4, <1>7, <1>8 DEF UsedBy
  <1>10. Len(r) = Len(q) + 1 /\ Len(q) \in Nat /\ q \in Seq(Clusters) /\ Len(q) > 0
    <2>1. q \in Seq(Clusters) /\ Len(q) > 0  BY <1>2 DEF TableOK
    <2> QED BY <1>2, <2>1, AppendProperties, LenProperties
  <1>11. \A j \in Inodes : j # d => SameOwner(ino[j], jno[j])  BY <1>1 DEF SameOwner
  <1>12. \A b \in DOMAIN T : b \notin Of(q) \cup {a.clu} => T2[b] = T[b]
    <2>1. c \in Of(q)
      <3>1. q[1] = c /\ 1 \in 1 .. Len(q)  BY <1>2, <1>10 DEF TableOK
      <3> QED BY <3>1 DEF Of
    <2> QED BY <1>2, <2>1
  <1> HIDE DEF jno, T2, q, r, f, c
  <1>13. DataSteps(v, ino, g.v, jno, d)
    BY <1>2, <1>3, <1>4, <1>6, <1>9, <1>11 DEF DataSteps, f
  <1>14. TableSteps(v, ino, T, g.v, jno, T2, d)
    BY <1>1, <1>2, <1>5, <1>6, <1>7, <1>9, <1>10, <1>12 DEF TableSteps, f, c
  <1> QED BY <1>13, <1>14 DEF jno, T2, f, c

LEMMA ToldNames ==
  ASSUME NEW x, x.head \in Heads, NEW f, NEW k
  PROVE  /\ Told(x, f, k).dir = x.dir /\ Told(x, f, k).at = x.at
         /\ Told(x, f, k).head.name = x.head.name
  <1>1. DOMAIN x.head = {"type", "name", "flags", "clu", "size"}  BY DEF Heads
  <1> DEFINE h == [x.head EXCEPT !.size = f.size + 1, !.flags = k]
  <1>2. h.name = x.head.name  BY <1>1
  <1> QED BY <1>2, Zenon DEF Told, EntryAt

\* What is in the directories afterwards: only the entry of d itself has changed.
GrownEntries(E, ino, d, E2) ==
    /\ \A x \in E : ~(d # Root /\ Has(ino, d, x)) => x \in E2
    /\ \A y \in E2 : \E x \in E :
          /\ y.dir = x.dir /\ y.at = x.at /\ y.head.name = x.head.name
          /\ y = x \/ (d # Root /\ Has(ino, d, x))
LEMMA GrownCatalogue ==
  ASSUME NEW v, NEW ino, NEW pnd, NEW T, NEW d, NEW a, NEW w, NEW g,
         GrowsFrom(v, ino, pnd, T, d, a, w, g)
  PROVE  LET T2 == Lengthened(T, ino[d].start, a.clu)
             E == Entries(v, T)
             E2 == Entries(g.v, T2)
         IN /\ Catalogue(E2, g.v, g.ino, pnd, T2) /\ Ordered(g.v, T2) /\ GrownEntries(E, ino, d, E2)
            /\ g.v.hint = w.hint
            /\ \A b \in DOMAIN T2 : \A j \in Nat :
                  j \in DOMAIN View(w, T2[b]) /\ View(g.v, T2[b])[j] = Unused
                  => View(w, T2[b])[j] = Unused
  <1> DEFINE c == ino[d].start
             T2 == Lengthened(T, c, a.clu)
             E == Entries(v, T)
             E2 == Entries(g.v, T2)
  <1>1. /\ Ordered(w, T2) /\ Entries(w, T2) = E /\ VolOK(g.v) /\ TableOK(v, T)  BY GrowsFacts
  <1>2. DataSteps(v, ino, g.v, g.ino, d) /\ TableSteps(v, ino, T, g.v, g.ino, T2, d)  BY GrownData
  <1>3. Catalogue(E, v, ino, pnd, T) /\ d \in Inodes  BY DEF GrowsFrom, Consistent
  <1>4. CASE d = Root
    <2>1. NamesStep(E, v, ino, pnd, T, None, {}, {}, g.ino, pnd, T2)  BY <1>4, GrownRoot
    <2>2. ~Named(ino, None)  BY NoneAssumption DEF Named
    <2>3. Catalogue((E \ {}) \cup {}, g.v, g.ino, pnd, T2)
      <3> DEFINE X == {}
                 Y == {}
                 t == None
      <3>1. /\ \A z \in E : Named(ino, t) /\ Has(ino, t, z) => z \in X
            /\ Y \cap (E \ X) = {} /\ NamesStep(E, v, ino, pnd, T, t, X, Y, g.ino, pnd, T2)
        BY <2>1, <2>2
      <3> HIDE DEF X, Y, t, E, T2
      <3>2. Catalogue((E \ X) \cup Y, g.v, g.ino, pnd, T2)  BY <1>2, <1>3, <3>1, CatalogueStep
      <3> QED BY <3>2 DEF X, Y
    <2>4. g.v = w
      <3>1. ChainOf(ino[d]).dir = RootClu
        <4>1. Dirs(ino, pnd)  BY GrowsFacts
        <4> QED BY <1>4, <4>1 DEF Dirs, ChainOf, Chain
      <3> QED BY <3>1 DEF GrowsFrom, GrownBy
    <2>5. E2 = E  BY <1>1, <2>4
    <2>6. (E \ {}) \cup {} = E2  BY <2>5
    <2>7. GrownEntries(E, ino, d, E2)  BY <2>5 DEF GrownEntries
    <2> QED BY <1>1, <2>3, <2>4, <2>6, <2>7
  <1>5. CASE d # Root
    <2>1. PICK x \in E : /\ Home(E, ino, d, x) /\ Has(ino, d, x) /\ x.dir = RootClu /\ x.head \in Heads
                         /\ \A z \in E : Has(ino, d, z) => z = x
                         /\ Rewritten(w, g.v, T2, x.dir, x.at, {Told(x, ino[d], a.flags)})
                         /\ g.v.hint = w.hint
      BY <1>5, GrownHead
    <2> DEFINE y == Told(x, ino[d], a.flags)
    <2>2. NamesStep(E, v, ino, pnd, T, d, {x}, {y}, g.ino, pnd, T2) /\ {y} \cap (E \ {x}) = {}
      BY <1>5, <2>1, GrownNames
    <2>3. y.dir = x.dir /\ y.at = x.at /\ y.head.name = x.head.name
      BY <2>1, ToldNames
    <2> HIDE DEF y
    <2>4. Catalogue((E \ {x}) \cup {y}, g.v, g.ino, pnd, T2)
      <3> DEFINE X == {x}
                 Y == {y}
      <3>1. /\ \A z \in E : Named(ino, d) /\ Has(ino, d, z) => z \in X
            /\ Y \cap (E \ X) = {} /\ NamesStep(E, v, ino, pnd, T, d, X, Y, g.ino, pnd, T2)
        BY <2>1, <2>2
      <3> HIDE DEF X, Y, E, T2
      <3>2. Catalogue((E \ X) \cup Y, g.v, g.ino, pnd, T2)  BY <1>2, <1>3, <3>1, CatalogueStep
      <3> QED BY <3>2 DEF X, Y
    <2>5. Rewritten(w, g.v, T2, x.dir, x.at, {y})  BY <2>1 DEF y
    <2>6. E2 = (E \ {x}) \cup {y}
      <3> DEFINE Y == {y}
      <3>1. Rewritten(w, g.v, T2, x.dir, x.at, Y) /\ x \in Entries(w, T2)  BY <1>1, <2>5
      <3> HIDE DEF Y, E, E2, T2
      <3>2. Entries(g.v, T2) = (Entries(w, T2) \ {x}) \cup Y  BY <3>1, RewrittenEntries
      <3>3. E2 = (E \ {x}) \cup Y  BY <1>1, <3>2 DEF E2
      <3> QED BY <3>3 DEF Y
    <2>7. GrownEntries(E, ino, d, E2)
      <3> HIDE DEF E, E2
      <3>1. \A z \in E : ~(d # Root /\ Has(ino, d, z)) => z \in E2  BY <1>5, <2>1, <2>6
      <3>2. ASSUME NEW z \in E2
            PROVE  \E u \in E : /\ z.dir = u.dir /\ z.at = u.at /\ z.head.name = u.head.name
                                /\ z = u \/ (d # Root /\ Has(ino, d, u))
        <4>1. CASE z = y  BY <1>5, <2>1, <2>3, <4>1
        <4>2. CASE z # y  BY <2>6, <4>2
        <4> QED BY <4>1, <4>2
      <3> QED BY <3>1, <3>2 DEF GrownEntries
    <2>8. \A b \in DOMAIN T2 : \A j \in Nat :
             j \in DOMAIN View(w, T2[b]) /\ View(g.v, T2[b])[j] = Unused => View(w, T2[b])[j] = Unused
      BY <2>5 DEF Rewritten
    <2>9. Ordered(g.v, T2)  BY <2>5 DEF Rewritten
    <2>10. Catalogue(E2, g.v, g.ino, pnd, T2)  BY <2>4, <2>6
    <2> HIDE DEF E, E2, T2
    <2> QED BY <2>1, <2>7, <2>8, <2>9, <2>10 DEF E, E2, T2
  <1> QED BY <1>4, <1>5
\* Its entry says whether it is a run or a chain.
LEMMA GrownFlags ==
  ASSUME NEW v, NEW ino, NEW pnd, NEW T, NEW d, NEW a, NEW w, NEW g,
         GrowsFrom(v, ino, pnd, T, d, a, w, g)
  PROVE  LET T2 == Lengthened(T, ino[d].start, a.clu)
         IN \A x \in Entries(g.v, T2) : x.head.type = "dir" /\ x.head.clu = ino[d].start
                                        => x.head.flags = a.flags
  <1> DEFINE c == ino[d].start
             T2 == Lengthened(T, c, a.clu)
             E2 == Entries(g.v, T2)
             jno == g.ino
  <1>1. Catalogue(E2, g.v, jno, pnd, T2)  BY GrownCatalogue
  <1>2. /\ jno[d].st = "linked" /\ jno[d].type = "dir" /\ jno[d].start = c /\ jno[d].flags = a.flags
    BY GrownInodes
  <1>3. d \in Inodes  BY DEF GrowsFrom
  <1>4. a.clu \in Clusters \ v.bitmap /\ Good(g.v, jno)  BY GrowsFacts
  <1> HIDE DEF jno, E2, T2, c
  <1>5. NamesTrue(E2, jno, pnd, T2) /\ DirsTrue(E2, jno, T2)  BY <1>1 DEF Catalogue, NamesTrue
  <1>6. c # EOC
    <2>1. Owns(jno[d])  BY <1>2, <1>3, <1>4, DirOwns DEF Good
    <2> QED BY <1>2, <2>1 DEF Owns
  <1> SUFFICES ASSUME NEW x \in E2, x.head.type = "dir", x.head.clu = c PROVE x.head.flags = a.flags
    BY DEF E2, T2, c
  <1>7. CASE d = Root
    <2>1. c = RootClu  BY <1>1, <1>2, <1>7 DEF Catalogue, Dirs
    <2> QED BY <1>5, <2>1 DEF DirsTrue
  <1>8. CASE d # Root
    <2>1. PICK y \in E2 : Home(E2, jno, d, y)  BY <1>2, <1>3, <1>5, <1>8 DEF NamesTrue, HomesTrue
    <2>2. y.head.type = "dir" /\ y.head.clu = c /\ y.head.flags = a.flags
      BY <1>2, <1>6, <2>1 DEF Home, Agrees
    <2>3. x = y  BY <1>5, <2>2 DEF DirsTrue
    <2> QED BY <2>2, <2>3
  <1> QED BY <1>7, <1>8

\* What hint_uentry says of the directory that has grown.
LEMMA HintGrows ==
  ASSUME NEW v, NEW ino, NEW pnd, NEW T, NEW d, NEW a, NEW w, NEW g,
         GrowsFrom(v, ino, pnd, T, d, a, w, g),
         IF v.hint.entry = -1 THEN \A j \in DOMAIN View(v, T[ino[d].start]) :
                                      View(v, T[ino[d].start])[j] # Unused
         ELSE v.hint.dir = ino[d].start
  PROVE  LET T2 == Lengthened(T, ino[d].start, a.clu)
         IN HintTrue(Entries(g.v, T2), g.v, T2) /\ g.v.hint.entry # -1
  <1> DEFINE c == ino[d].start
             f == ino[d]
             q == T[c]
             r == Append(q, a.clu)
             T2 == Lengthened(T, c, a.clu)
             E == Entries(v, T)
             E2 == Entries(g.v, T2)
             p == ChainOf(f)
             n == Len(q)
             h == g.v.hint
             k == h.entry \div SlotsPerClu
  <1>1. /\ c \in DOMAIN T /\ T2[c] = r /\ DOMAIN T2 = DOMAIN T /\ TableOK(v, T)
        /\ \A j \in DOMAIN View(v, q) : j \in DOMAIN View(w, r) /\ View(w, r)[j] = View(v, q)[j]
        /\ HintTrue(E, v, T) /\ NamesTrue(E, ino, pnd, T) /\ Good(v, ino)
    <2>1. /\ c \in DOMAIN T /\ T2[c] = r /\ DOMAIN T2 = DOMAIN T /\ TableOK(v, T)
          /\ \A b \in DOMAIN T : \A j \in DOMAIN View(v, T[b]) :
                j \in DOMAIN View(w, T2[b]) /\ View(w, T2[b])[j] = View(v, T[b])[j]
          /\ HintTrue(E, v, T) /\ NamesTrue(E, ino, pnd, T) /\ Good(v, ino)
      BY GrowsFacts
    <2> HIDE DEF T2, r, E, c
    <2> QED BY <2>1
  <1>2. /\ Consistent(v, ino, pnd, T) /\ d \in Inodes /\ IsDirectory(f)
        /\ GrownBy(v, ino, d, p, q, a, w, g)
    BY DEF GrowsFrom
  <1>3. /\ g.p = Chain(c, f.size + 1, a.flags) /\ Through(g.v, g.p, r) /\ Grown(v, p, a, w)
        /\ a.clu \in Clusters /\ a.flags \in {1, 3} /\ (f.flags = 1 => a.flags = 1)
        /\ p.dir = c /\ p.size = f.size /\ p.flags = f.flags
    BY <1>2 DEF GrownBy, ChainOf, Chain
  <1>4. /\ f.size = n /\ f.flags \in {1, 3} /\ (c = RootClu => d = Root /\ f.flags = 1)
        /\ \A x \in E : x.head.type = "dir" /\ x.head.clu = c => x.head.flags = f.flags
    BY <1>2, OpenedIs
  <1>5. /\ n \in Nat /\ Len(r) = n + 1 /\ r[n + 1] = a.clu /\ \A j \in 1 .. n : r[j] = q[j]
    <2>1. q \in Seq(Clusters)  BY <1>1 DEF TableOK
    <2> QED BY <1>3, <2>1, AppendProperties, LenProperties
  <1>6. /\ h = w.hint
        /\ \A j \in Nat : j \in DOMAIN View(w, r) /\ View(g.v, r)[j] = Unused => View(w, r)[j] = Unused
    <2>1. /\ g.v.hint = w.hint
          /\ \A b \in DOMAIN T2 : \A j \in Nat :
                j \in DOMAIN View(w, T2[b]) /\ View(g.v, T2[b])[j] = Unused => View(w, T2[b])[j] = Unused
      BY GrownCatalogue
    <2> HIDE DEF T2, r
    <2> QED BY <1>1, <2>1
  <1>7. HintType(h)  BY <1>3, <1>6 DEF Grown
  <1>8. \A x \in E2 : x.head.type = "dir" /\ x.head.clu = c => x.head.flags = a.flags  BY GrownFlags
  <1>9. c = RootClu => a.flags = 1  BY <1>3, <1>4
  <1>10. \A j \in DOMAIN View(v, q) : j \in Nat /\ (View(g.v, r)[j] = Unused => View(v, q)[j] = Unused)
    <2>1. DOMAIN View(v, q) \subseteq Nat  BY <1>1, ViewDomain
    <2> HIDE DEF q, r
    <2> QED BY <1>1, <1>6, <2>1
  <1>11. DOMAIN View(v, q) = 0 .. n * SlotsPerClu - 1 /\ n * SlotsPerClu \in Nat
    BY <1>1, ViewDomain
  <1>12. SlotsPerClu \in Nat /\ SlotsPerClu > 0  BY VolumeAssumption
  <1>13. /\ h.dir = c /\ h.entry \in Nat /\ k \in Nat /\ k < n + 1 /\ h.clu.flags = a.flags
         /\ h.clu.dir = r[k + 1] /\ (a.flags = 3 => h.clu.size = n + 1 - k)
         /\ \A j \in 0 .. h.entry - 1 : View(g.v, r)[j] # Unused
    <2>1. CASE v.hint.entry = -1
      <3>1. h = [dir |-> c, entry |-> n * SlotsPerClu, clu |-> Chain(a.clu, 1, a.flags)]
        BY <1>3, <1>4, <1>6, <2>1 DEF Grown
      <3>2. h.dir = c /\ h.entry = n * SlotsPerClu /\ h.clu = Chain(a.clu, 1, a.flags)
        <4> HIDE DEF h
        <4> QED BY <3>1
      <3>3. k = n
        <4>1. 0 \in Nat /\ n * SlotsPerClu + 0 = n * SlotsPerClu /\ 0 \div SlotsPerClu = 0
          BY <1>11, <1>12
        <4>2. (n * SlotsPerClu + 0) \div SlotsPerClu = n + 0 \div SlotsPerClu
          <5> HIDE DEF n
          <5> QED BY <1>5, DivModPlus
        <4> QED BY <1>5, <3>2, <4>1, <4>2
      <3>4. h.clu.flags = a.flags /\ h.clu.dir = a.clu /\ h.clu.size = 1  BY <3>2 DEF Chain
      <3>5. \A j \in 0 .. h.entry - 1 : View(g.v, r)[j] # Unused
        BY <1>10, <1>11, <2>1, <3>2
      <3> HIDE DEF h, k, n, r
      <3> QED BY <1>5, <1>11, <3>2, <3>3, <3>4, <3>5
    <2>2. CASE v.hint.entry # -1
      <3> DEFINE b == v.hint
      <3>1. b.dir = c  BY <2>2
      <3>2. /\ h.dir = c /\ h.entry = b.entry /\ h.clu.dir = b.clu.dir
            /\ h.clu.size = b.clu.size + 1
            /\ h.clu.flags = IF a.flags # f.flags THEN 1 ELSE b.clu.flags
        BY <1>3, <1>6, <2>2, <3>1 DEF Grown
      <3>3. /\ b.entry \in Nat /\ k < n /\ Through(v, b.clu, SubSeq(q, k + 1, n))
            /\ \A j \in 0 .. b.entry - 1 : View(v, q)[j] # Unused
            /\ c = RootClu => b.clu.flags = 1
            /\ \A x \in E : x.head.type = "dir" /\ x.head.clu = c => x.head.flags = b.clu.flags
        <4>1. b.entry \in Nat \cup {-1}  BY <1>1 DEF HintTrue, HintType
        <4> HIDE DEF E, h
        <4> QED BY <1>1, <2>2, <3>1, <3>2, <4>1, Zenon DEF HintTrue
      <3> HIDE DEF b
      <3>4. k \in Nat /\ k + 1 \in 1 .. n
        <4>1. k \in Nat  BY <3>2, <3>3, DivMod, Zenon
        <4> QED BY <1>5, <3>3, <4>1
      <3>5. b.clu.flags = f.flags
        <4>1. CASE d = Root
          <5>1. c = RootClu
            <6>1. Dirs(ino, pnd)  BY GrowsFacts
            <6> QED BY <4>1, <6>1 DEF Dirs
          <5> QED BY <1>4, <3>3, <5>1
        <4>2. CASE d # Root
          <5>1. ino[d].st = "linked" /\ ino[d].type = "dir"  BY <1>2 DEF IsDirectory
          <5>2. PICK x \in E : Home(E, ino, d, x)
            BY <1>1, <1>2, <4>2, <5>1 DEF NamesTrue, HomesTrue
          <5>3. c # EOC
            <6>1. Owns(f)  BY <1>2, OpenedIs
            <6> QED BY <6>1 DEF Owns
          <5>4. x.head.type = "dir" /\ x.head.clu = c  BY <5>1, <5>2, <5>3 DEF Home, Agrees
          <5> QED BY <1>4, <3>3, <5>4
        <4> QED BY <4>1, <4>2
      <3>6. h.clu.flags = a.flags  BY <1>3, <1>4, <3>2, <3>5
      <3>7. b.clu.dir = q[k + 1] /\ (b.clu.flags = 3 => b.clu.size = n - k)
        <4> DEFINE z == k + 1
        <4>1. z \in 1 .. n /\ n \in 1 .. n /\ z <= n /\ q \in Seq(Clusters)
          BY <1>1, <1>5, <3>4 DEF TableOK
        <4>2. n - z + 1 = n - k  BY <1>5, <3>4
        <4> HIDE DEF z
        <4>3. /\ Len(SubSeq(q, z, n)) = n - z + 1
              /\ \A y \in 1 .. Len(SubSeq(q, z, n)) : SubSeq(q, z, n)[y] = q[z + y - 1]
          BY <4>1, PartIs
        <4>4. SubSeq(q, z, n)[1] = q[z]
          <5>1. 1 \in 1 .. Len(SubSeq(q, z, n)) /\ z + 1 - 1 = z  BY <1>5, <4>1, <4>3
          <5> QED BY <4>3, <5>1, Zenon
        <4>5. Through(v, b.clu, SubSeq(q, z, n))  BY <3>3 DEF z
        <4> QED BY <4>2, <4>3, <4>4, <4>5, Zenon DEF Through, z
      <3>8. \A j \in 0 .. h.entry - 1 : View(g.v, r)[j] # Unused
        <4>1. \A j \in 0 .. b.entry - 1 : j \in DOMAIN View(v, q)
          <5>1. b.entry < n * SlotsPerClu
            <6>1. b.entry >= n * SlotsPerClu => b.entry \div SlotsPerClu >= n  BY <1>5, <3>3, DivMod, Zenon
            <6> QED BY <1>11, <3>2, <3>3, <3>4, <6>1
          <5> QED BY <1>11, <3>3, <5>1
        <4> HIDE DEF h, r, q
        <4> QED BY <1>10, <3>2, <3>3, <4>1
      <3>9. h.clu.dir = r[k + 1]  BY <1>5, <3>2, <3>4, <3>7
      <3>10. a.flags = 3 => h.clu.size = n + 1 - k
        <4>1. a.flags = 3 => b.clu.flags = 3  BY <1>3, <1>4, <3>5
        <4>2. (n - k) + 1 = n + 1 - k  BY <1>5, <3>4
        <4> HIDE DEF h, k, n
        <4> QED BY <3>2, <3>7, <4>1, <4>2
      <3> HIDE DEF h, k, n, r
      <3> QED BY <1>5, <3>2, <3>3, <3>4, <3>6, <3>8, <3>9, <3>10
    <2> QED BY <2>1, <2>2, Zenon
  <1>14. Through(g.v, h.clu, SubSeq(r, k + 1, Len(r)))
    <2> DEFINE z == k + 1
               p2 == h.clu
    <2>1. /\ z \in 1 .. Len(r) /\ p2.dir = r[z] /\ p2.flags = g.p.flags
          /\ g.p.flags = 3 => p2.size = Len(r) - z + 1
      <3>1. g.p.flags = a.flags  BY <1>3 DEF Chain
      <3> HIDE DEF h, k, n, r
      <3>2. Len(r) - (k + 1) + 1 = n + 1 - k  BY <1>5, <1>13, SMTT(60)
      <3> QED BY <1>5, <1>13, <3>1, <3>2
    <2> HIDE DEF z, p2, r
    <2>2. Through(g.v, p2, SubSeq(r, z, Len(r)))  BY <1>3, <2>1, RestIsThrough
    <2> QED BY <2>2 DEF z, p2
  <1>15. k < Len(r)  BY <1>5, <1>13
  <1> HIDE DEF r, k, E2, T2, c
  <1>16. HintTrue(E2, g.v, T2)
    BY <1>1, <1>7, <1>8, <1>9, <1>13, <1>14, <1>15 DEF HintTrue, k
  <1>17. g.v.hint.entry # -1  BY <1>13
  <1> QED BY <1>16, <1>17 DEF E2, T2, c
\* What comes of looking for room in the directory d, which may have grown.
InodeGrows(ino, jno, d) ==
    /\ \A j \in Inodes : j # d => jno[j] = ino[j]
    /\ SameName(ino[d], jno[d]) /\ jno[d].start = ino[d].start /\ jno[d].dirty = ino[d].dirty
    /\ ino[d].flags = 1 => jno[d].flags = 1
Made(v, ino, pnd, T, d, w, jno, T2) ==
    /\ Consistent(w, jno, pnd, T2) /\ Keeps(v, ino, w, jno) /\ InodeGrows(ino, jno, d)
    /\ OthersStay(v, w, Of(T[ino[d].start])) /\ DOMAIN T2 = DOMAIN T
    /\ \A b \in DOMAIN T : \/ T2[b] = T[b]
                           \/ b = ino[d].start /\ \E x \in Clusters : T2[b] = Append(T[b], x)
    /\ GrownEntries(Entries(v, T), ino, d, Entries(w, T2))
LEMMA GrowMade ==
  ASSUME NEW v, NEW ino, NEW pnd, NEW T, Consistent(v, ino, pnd, T), NEW d \in Inodes,
         IsDirectory(ino[d]),
         IF v.hint.entry = -1 THEN \A j \in DOMAIN View(v, T[ino[d].start]) :
                                      View(v, T[ino[d].start])[j] # Unused
         ELSE v.hint.dir = ino[d].start
  PROVE  LET g == Grow(v, ino, d, ChainOf(ino[d]))
         IN /\ g.p = ChainOf(g.ino[d]) /\ g.ok \in BOOLEAN
            /\ \E T2 : Made(v, ino, pnd, T, d, g.v, g.ino, T2)
            /\ g.ok => g.v.hint.entry # -1
  <1> DEFINE p == ChainOf(ino[d])
             g == Grow(v, ino, d, p)
             c == ino[d].start
             q == T[c]
             E == Entries(v, T)
  <1>1. /\ c \in DOMAIN T /\ Whole(v, ino[d], q) /\ Owns(ino[d]) /\ Through(v, p, q)
        /\ ino[d].size = Len(q) /\ q = Clus(v, ino[d])
    BY OpenedIs
  <1>2. /\ Catalogue(E, v, ino, pnd, T) /\ Good(v, ino) /\ VolOK(v) /\ Counted(v) /\ HintTrue(E, v, T)
        /\ TableOK(v, T) /\ HintType(v.hint) /\ Dirs(ino, pnd) /\ NamesMissing(E, ino, pnd)
    BY TableIs DEF Consistent, Catalogue, Good, HintTrue, NamesTrue
  <1>3. p.size = ino[d].size /\ p.size \in Nat /\ p.dir = c /\ Of(q) \subseteq v.bitmap
    <2>1. p.size = ino[d].size /\ p.dir = c  BY DEF ChainOf, Chain
    <2>2. Len(q) \in Nat  BY <1>1, <1>2, LenProperties DEF TableOK
    <2> QED BY <1>1, <2>1, <2>2 DEF Whole
  <1>4. Keeps(v, ino, g.v, g.ino) /\ OnlyGrows(ino, g.ino, d)  BY <1>1, <1>2, GrowKeeps
  <1>5. /\ g.ok => \E a, w : GrownBy(v, ino, d, p, q, a, w, g)
        /\ ~g.ok => /\ SameClusters(v, g.v) /\ g.ino = ino /\ g.p = p
                    /\ g.v.slots = v.slots /\ g.v.hint = v.hint
        /\ g.ok \in BOOLEAN /\ VolOK(g.v) /\ Counted(g.v) /\ OthersStay(v, g.v, Of(q))
    <2> HIDE DEF q, p
    <2>1. LET h == Grow(v, ino, d, p)
          IN /\ h.ok => \E a, w : GrownBy(v, ino, d, p, q, a, w, h)
             /\ ~h.ok => /\ SameClusters(v, h.v) /\ h.ino = ino /\ h.p = p
                         /\ h.v.slots = v.slots /\ h.v.hint = v.hint
             /\ h.ok \in BOOLEAN /\ VolOK(h.v) /\ Counted(h.v) /\ OthersStay(v, h.v, Of(q))
      BY <1>1, <1>2, <1>3, GrowSlots
    <2> QED BY <2>1
  <1> HIDE DEF g
  <1>6. CASE ~g.ok
    <2>1. ChainsSame(v, g.v)  BY <1>5, <1>6 DEF ChainsSame, SameClusters
    <2>2. HintTrue(E, g.v, T)  BY <1>2, <1>5, <1>6, <2>1, HintSame
    <2>3. QuietStep(v, ino, pnd, T, None, g.v, ino, pnd)
      <3>1. None \notin Inodes /\ None # Root  BY NoneAssumption, VolumeAssumption
      <3>2. Good(g.v, ino)  BY <1>4, <1>5, <1>6 DEF Keeps
      <3> QED BY <1>2, <1>5, <1>6, <2>1, <2>2, <3>1, <3>2 DEF QuietStep
    <2>4. Consistent(g.v, ino, pnd, T)  BY <2>3, QuietKeeps
    <2>5. Entries(g.v, T) = E  BY <1>5, <1>6, SlotsSame
    <2>6. Made(v, ino, pnd, T, d, g.v, g.ino, T)
      <3>1. GrownEntries(E, ino, d, Entries(g.v, T))  BY <2>5 DEF GrownEntries
      <3>2. InodeGrows(ino, ino, d)  BY DEF InodeGrows, SameName
      <3> QED BY <1>4, <1>5, <1>6, <2>4, <3>1, <3>2 DEF Made
    <2> QED BY <1>5, <1>6, <2>6 DEF g
  <1>7. CASE g.ok
    <2>1. PICK a, w : GrownBy(v, ino, d, p, q, a, w, g)  BY <1>5, <1>7
    <2>2. GrowsFrom(v, ino, pnd, T, d, a, w, g)  BY <1>4, <1>5, <2>1 DEF GrowsFrom
    <2> DEFINE T2 == Lengthened(T, c, a.clu)
               E2 == Entries(g.v, T2)
    <2>3. /\ Catalogue(E2, g.v, g.ino, pnd, T2) /\ Ordered(g.v, T2) /\ GrownEntries(E, ino, d, E2)
      BY <2>2, GrownCatalogue
    <2>4. HintTrue(E2, g.v, T2) /\ g.v.hint.entry # -1  BY <2>2, HintGrows
    <2>5. /\ DOMAIN T2 = DOMAIN T /\ T2[c] = Append(q, a.clu) /\ a.clu \in Clusters
          /\ \A b \in DOMAIN T \ {c} : T2[b] = T[b]
      BY <2>2, GrowsFacts
    <2>6. /\ \A j \in Inodes : j # d => g.ino[j] = ino[j]
          /\ g.ino[d].st = "linked" /\ g.ino[d].type = "dir" /\ g.ino[d].name = ino[d].name
          /\ g.ino[d].parent = ino[d].parent /\ g.ino[d].dir = ino[d].dir
          /\ g.ino[d].entry = ino[d].entry
          /\ g.ino[d].start = ino[d].start /\ g.ino[d].size = ino[d].size + 1
          /\ g.ino[d].flags = a.flags
          /\ g.ino[d].dirty = ino[d].dirty /\ (ino[d].flags = 1 => g.ino[d].flags = 1)
      BY <2>2, GrownInodes
    <2>7. g.p = ChainOf(g.ino[d])
      BY <1>3, <2>1, <2>6 DEF GrownBy, ChainOf
    <2> HIDE DEF T2, E, q, p
    <2>8. Consistent(g.v, g.ino, pnd, T2)  BY <2>3, <2>4 DEF Consistent
    <2>9. InodeGrows(ino, g.ino, d)
      BY <2>6 DEF InodeGrows, SameName, IsDirectory
    <2>10. OthersStay(v, g.v, Of(T[ino[d].start]))  BY <1>5 DEF q
    <2>11. Made(v, ino, pnd, T, d, g.v, g.ino, T2)
      BY <1>4, <2>3, <2>5, <2>8, <2>9, <2>10 DEF Made, E, q
    <2> QED BY <1>5, <2>4, <2>7, <2>11 DEF g, p
  <1> QED BY <1>5, <1>6, <1>7
LEMMA MadeThenSearched ==
  ASSUME NEW v, NEW ino, NEW pnd, NEW T, NEW d, NEW w, NEW jno, NEW T2,
         Made(v, ino, pnd, T, d, w, jno, T2),
         NEW z, SameFat(w, z), z.slots = w.slots, HintTrue(Entries(w, T2), z, T2)
  PROVE  Made(v, ino, pnd, T, d, z, jno, T2)
  <1>1. Consistent(z, jno, pnd, T2) /\ StrangersStay(w, jno, z, jno)
    <2>1. Consistent(w, jno, pnd, T2)  BY DEF Made
    <2> QED BY <2>1, HintChanges
  <1>2. Good(z, jno)  BY <1>1 DEF Consistent, Catalogue
  <1>3. Entries(z, T2) = Entries(w, T2)  BY SlotsSame
  <1>4. StrangersStay(v, ino, z, jno)  BY <1>1 DEF Made, Keeps, StrangersStay
  <1>5. OthersStay(v, z, Of(T[ino[d].start]))
    <2>1. VolOK(w) /\ OthersStay(v, w, Of(T[ino[d].start]))  BY DEF Made, Keeps, Good
    <2>2. \A p, q : Through(w, p, q) => Through(z, p, q)  BY <2>1, SameFatIs
    <2>3. z.bitmap = w.bitmap  BY DEF SameFat, SameClusters
    <2> QED BY <2>1, <2>2, <2>3 DEF OthersStay
  <1> QED BY <1>1, <1>2, <1>3, <1>4, <1>5 DEF Made, Keeps

LEMMA SearchedThenMade ==
  ASSUME NEW v, VolOK(v), NEW ino, NEW pnd, NEW T, NEW d, NEW s, SameFat(v, s), s.slots = v.slots,
         StrangersStay(v, ino, s, ino), NEW w, NEW jno, NEW T2, Made(s, ino, pnd, T, d, w, jno, T2)
  PROVE  Made(v, ino, pnd, T, d, w, jno, T2)
  <1>1. Entries(s, T) = Entries(v, T)  BY SlotsSame
  <1>2. StrangersStay(v, ino, w, jno)  BY DEF Made, Keeps, StrangersStay
  <1>3. OthersStay(v, w, Of(T[ino[d].start]))
    <2>1. OthersStay(s, w, Of(T[ino[d].start]))  BY DEF Made
    <2>2. \A p, q : Through(v, p, q) => Through(s, p, q)  BY SameFatIs
    <2>3. s.bitmap = v.bitmap  BY DEF SameFat, SameClusters
    <2> QED BY <2>1, <2>2, <2>3 DEF OthersStay
  <1> QED BY <1>1, <1>2, <1>3 DEF Made, Keeps

\* find_empty_entry
RoomMade(e, d, n, T2) ==
    LET s == View(e.v, T2[e.ino[d].start])
    IN /\ e.p = ChainOf(e.ino[d]) /\ e.entry \in Nat \cup {-1}
       /\ e.entry \in Nat => /\ e.v.hint = NoHint /\ Spot(s, e.entry, n)
                             /\ \A m \in 0 .. n - 1 : IsEmpty(s[e.entry + m])
LEMMA FindEmptyMade ==
  ASSUME NEW v, NEW ino, NEW pnd, NEW T, Consistent(v, ino, pnd, T), NEW d \in Inodes,
         IsDirectory(ino[d]), Lies(v, ChainOf(ino[d])) = {}, NEW n \in 1 .. SlotsPerClu
  PROVE  LET e == FindEmpty(v, ino, d, ChainOf(ino[d]), n)
         IN \E T2 : Made(v, ino, pnd, T, d, e.v, e.ino, T2) /\ RoomMade(e, d, n, T2)
  <1> DEFINE p == ChainOf(ino[d])
             e == FindEmpty(v, ino, d, p, n)
             s == SearchEmpty(v, p, n)
             g == Grow(s.v, ino, d, p)
             s2 == SearchEmpty(g.v, g.p, n)
             c == ino[d].start
  <1>1. /\ SameFat(v, s.v) /\ s.v.slots = v.slots /\ HintTrue(Entries(v, T), s.v, T)
        /\ RoomFor(v, View(v, T[c]), n, c, s)
    BY SearchEmptyIs
  <1>2. Consistent(s.v, ino, pnd, T) /\ StrangersStay(v, ino, s.v, ino)  BY <1>1, HintChanges
  <1>3. VolOK(v) /\ Good(v, ino)  BY DEF Consistent, Catalogue, Good
  <1>4. View(s.v, T[c]) = View(v, T[c])  BY <1>1, SlotsSame
  <1>5. e = IF s.entry >= 0 THEN [entry |-> s.entry, v |-> s.v, ino |-> ino, p |-> p]
            ELSE IF g.ok THEN [entry |-> s2.entry, v |-> s2.v, ino |-> g.ino, p |-> g.p]
            ELSE [entry |-> -1, v |-> g.v, ino |-> g.ino, p |-> g.p]
    BY DEF FindEmpty
  <1> HIDE DEF s
  <1>6. CASE s.entry \in Nat
    <2>1. e = [entry |-> s.entry, v |-> s.v, ino |-> ino, p |-> p]  BY <1>5, <1>6
    <2>2. e.entry = s.entry /\ e.v = s.v /\ e.ino = ino /\ e.p = p
      <3> HIDE DEF e, p
      <3> QED BY <2>1
    <2> HIDE DEF e
    <2>3. Made(v, ino, pnd, T, d, v, ino, T)
      <3>1. Keeps(v, ino, v, ino)  BY <1>3 DEF Keeps, StrangersStay
      <3>2. InodeGrows(ino, ino, d)  BY DEF InodeGrows, SameName
      <3>3. OthersStay(v, v, Of(T[ino[d].start]))  BY DEF OthersStay
      <3>4. GrownEntries(Entries(v, T), ino, d, Entries(v, T))  BY DEF GrownEntries
      <3> QED BY <3>1, <3>2, <3>3, <3>4 DEF Made
    <2>4. Made(v, ino, pnd, T, d, s.v, ino, T)  BY <1>1, <2>3, MadeThenSearched
    <2>5. /\ s.v.hint = NoHint /\ Spot(View(v, T[c]), s.entry, n)
          /\ \A m \in 0 .. n - 1 : IsEmpty(View(v, T[c])[s.entry + m])
      BY <1>1, <1>6 DEF RoomFor
    <2>6. RoomMade(e, d, n, T)  BY <1>4, <1>6, <2>2, <2>5 DEF RoomMade
    <2> QED BY <2>2, <2>4, <2>6 DEF e
  <1>7. CASE s.entry = -1
    <2>1. \/ s.v.hint.entry = -1 /\ \A j \in DOMAIN View(v, T[c]) : View(v, T[c])[j] # Unused
          \/ s.v.hint.entry # -1 /\ s.v.hint.dir = c
      BY <1>1, <1>7 DEF RoomFor
    <2>2. IF s.v.hint.entry = -1
          THEN \A j \in DOMAIN View(s.v, T[c]) : View(s.v, T[c])[j] # Unused
          ELSE s.v.hint.dir = c
      BY <1>4, <2>1
    <2>3. /\ g.p = ChainOf(g.ino[d]) /\ g.ok \in BOOLEAN
          /\ \E T2 : Made(s.v, ino, pnd, T, d, g.v, g.ino, T2)
          /\ g.ok => g.v.hint.entry # -1
      BY <1>2, <2>2, GrowMade
    <2> HIDE DEF g
    <2>4. PICK T2 : Made(s.v, ino, pnd, T, d, g.v, g.ino, T2)  BY <2>3
    <2>5. Made(v, ino, pnd, T, d, g.v, g.ino, T2)  BY <1>1, <1>2, <1>3, <2>4, SearchedThenMade
    <2>6. CASE ~g.ok
      <3>1. e = [entry |-> -1, v |-> g.v, ino |-> g.ino, p |-> g.p]  BY <1>5, <1>7, <2>6
      <3>2. e.entry = -1 /\ e.v = g.v /\ e.ino = g.ino /\ e.p = g.p
        <4> HIDE DEF e
        <4> QED BY <3>1
      <3> HIDE DEF e
      <3>3. RoomMade(e, d, n, T2)  BY <2>3, <3>2 DEF RoomMade
      <3> QED BY <2>5, <3>2, <3>3 DEF e
    <2>7. CASE g.ok
      <3>1. e = [entry |-> s2.entry, v |-> s2.v, ino |-> g.ino, p |-> g.p]  BY <1>5, <1>7, <2>7
      <3>2. e.entry = s2.entry /\ e.v = s2.v /\ e.ino = g.ino /\ e.p = g.p
        <4> HIDE DEF e, s2
        <4> QED BY <3>1
      <3>3. Consistent(g.v, g.ino, pnd, T2)  BY <2>5 DEF Made
      <3>4. IsDirectory(g.ino[d])  BY <2>5 DEF Made, InodeGrows, SameName, IsDirectory
      <3>5. Lies(g.v, ChainOf(g.ino[d])) = {}  BY <2>3, <2>7, Zenon DEF Lies
      <3> DEFINE k == g.ino[d].start
      <3>6. /\ SameFat(g.v, s2.v) /\ s2.v.slots = g.v.slots /\ HintTrue(Entries(g.v, T2), s2.v, T2)
            /\ RoomFor(g.v, View(g.v, T2[k]), n, k, s2)
        <4>1. LET r == SearchEmpty(g.v, ChainOf(g.ino[d]), n)
              IN /\ SameFat(g.v, r.v) /\ r.v.slots = g.v.slots
                 /\ HintTrue(Entries(g.v, T2), r.v, T2)
                 /\ RoomFor(g.v, View(g.v, T2[g.ino[d].start]), n, g.ino[d].start, r)
          BY <3>3, <3>4, <3>5, SearchEmptyIs
        <4>2. s2 = SearchEmpty(g.v, ChainOf(g.ino[d]), n)  BY <2>3
        <4> QED BY <4>1, <4>2
      <3>7. View(s2.v, T2[k]) = View(g.v, T2[k])  BY <3>6, SlotsSame
      <3> HIDE DEF e, s2
      <3>8. Made(v, ino, pnd, T, d, s2.v, g.ino, T2)  BY <2>5, <3>6, MadeThenSearched
      <3>9. RoomMade(e, d, n, T2)  BY <2>3, <3>2, <3>6, <3>7, SMTT(60) DEF RoomMade, RoomFor
      <3> QED BY <3>2, <3>8, <3>9 DEF e
    <2> QED BY <2>3, <2>6, <2>7
  <1>8. s.entry \in Nat \/ s.entry = -1  BY <1>1 DEF RoomFor
  <1> QED BY <1>6, <1>7, <1>8
=============================================================================
