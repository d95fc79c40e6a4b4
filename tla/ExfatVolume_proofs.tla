------------------------- MODULE ExfatVolume_proofs -------------------------
(***************************************************************************)
(* Theorems about the clusters of ExfatAlloc and ExfatVolume, for volumes  *)
(* of every size: what allocating, converting, cutting and freeing do to   *)
(* the bitmap, to the count of used clusters, to the chain at hand and to  *)
(* all the other chains; and from these, operation by operation, that no   *)
(* inode ever loses or shares a cluster (Inv, FilesStayApart).  Then the   *)
(* lemmas about directories: what writing slots does to the entries in     *)
(* them, and what the catalogue of a volume is: its entries, its inodes    *)
(* and its clusters, which tell the same of each other.                    *)
(***************************************************************************)
EXTENDS ExfatVolume, FiniteSetTheorems, SequenceTheorems, TLAPS

-----------------------------------------------------------------------------
(* Natural numbers: a set of them has a least member; what holds of 0 and  *)
(* of a successor holds of all (as a statement about a set, which needs no *)
(* theorem with an operator as its parameter).                             *)

LEMMA LeastNat ==
  ASSUME NEW S \in SUBSET Nat, S # {}
  PROVE  \E n \in S : \A m \in S : n <= m
  <1>1. PICK n \in S : \A m \in S : ~(<<m, n>> \in OpToRel(<, Nat))
    BY NatLessThanWellFounded, WFMin, Zenon
  <1>2. \A m \in S : ~(m < n)  BY <1>1, Zenon DEF OpToRel
  <1>3. \A m \in S : n <= m  BY <1>2
  <1> QED BY <1>3

LEMMA AllNat ==
  ASSUME NEW S, 0 \in S, \A n \in Nat : n \in S => n + 1 \in S
  PROVE  Nat \subseteq S
  <1> SUFFICES ASSUME Nat \ S # {} PROVE FALSE
    OBVIOUS
  <1>1. PICK n \in Nat \ S : \A m \in Nat \ S : n <= m
    BY LeastNat, Zenon
  <1>2. n # 0  OBVIOUS
  <1>3. n - 1 \in Nat /\ n - 1 < n /\ (n - 1) + 1 = n  BY <1>2
  <1>4. n - 1 \in S  BY <1>1, <1>3
  <1> QED BY <1>3, <1>4

(* The walk from a through g: the recursive function of NthCluster exists. *)
IsWalk(w, g, a) == w = [n \in Nat |-> IF n = 0 THEN a ELSE g[w[n - 1]]]

LEMMA WalkExists ==
  ASSUME NEW T, NEW g \in [T -> T], NEW a \in T
  PROVE  \E w \in [Nat -> T] : IsWalk(w, g, a)
  <1> DEFINE Part(n) == {w \in [0 .. n -> T] :
                           \A k \in 0 .. n : w[k] = IF k = 0 THEN a ELSE g[w[k - 1]]}
             S == {n \in Nat : Part(n) # {}}
  <1>1. 0 \in S
    <2>1. [k \in 0 .. 0 |-> a] \in Part(0)  OBVIOUS
    <2> QED BY <2>1
  <1>2. ASSUME NEW n \in Nat, n \in S PROVE n + 1 \in S
    <2>1. PICK w \in Part(n) : TRUE  BY <1>2
    <2> DEFINE v == [k \in 0 .. n + 1 |-> IF k = n + 1 THEN g[w[n]] ELSE w[k]]
    <2>2. w \in [0 .. n -> T] /\ n \in 0 .. n  BY <2>1
    <2>3. v \in [0 .. n + 1 -> T]  BY <2>2
    <2>4. ASSUME NEW k \in 0 .. n + 1
          PROVE  v[k] = IF k = 0 THEN a ELSE g[v[k - 1]]
      <3>1. CASE k = n + 1
        <4>1. k # 0 /\ k - 1 = n /\ n # n + 1 /\ n \in 0 .. n + 1  BY <3>1
        <4>2. v[n] = w[n]  BY <4>1
        <4> QED BY <3>1, <4>1, <4>2
      <3>2. CASE k # n + 1
        <4>1. k \in 0 .. n /\ v[k] = w[k]  BY <3>2
        <4>2. w[k] = IF k = 0 THEN a ELSE g[w[k - 1]]  BY <2>1, <4>1
        <4>3. k # 0 => k - 1 \in 0 .. n + 1 /\ k - 1 # n + 1  BY <4>1
        <4>4. k # 0 => v[k - 1] = w[k - 1]  BY <4>3
        <4> QED BY <4>1, <4>2, <4>4
      <3> QED BY <3>1, <3>2
    <2>5. v \in Part(n + 1)  BY <2>3, <2>4
    <2>6. n + 1 \in Nat  OBVIOUS
    <2> HIDE DEF Part, v
    <2> QED BY <2>5, <2>6
  <1>3. \A n \in Nat : Part(n) # {}
    <2> HIDE DEF Part
    <2>1. Nat \subseteq S  BY <1>1, <1>2, AllNat, Zenon
    <2> QED BY <2>1
  <1>4. ASSUME NEW m \in Nat, NEW n \in Nat, NEW v \in Part(m), NEW w \in Part(n)
        PROVE  \A k \in 0 .. m : k \in 0 .. n => v[k] = w[k]
    <2> DEFINE D == {k \in Nat : k <= m /\ k <= n => v[k] = w[k]}
    <2>1. 0 \in D  OBVIOUS
    <2>2. ASSUME NEW k \in Nat, k \in D PROVE k + 1 \in D
      <3> SUFFICES ASSUME k + 1 <= m, k + 1 <= n PROVE v[k + 1] = w[k + 1]
        OBVIOUS
      <3>1. v[k] = w[k]  BY <2>2
      <3>2. k + 1 \in 0 .. m /\ k + 1 \in 0 .. n /\ k + 1 # 0 /\ (k + 1) - 1 = k
        OBVIOUS
      <3>3. v[k + 1] = g[v[k]]  BY <3>2
      <3>4. w[k + 1] = g[w[k]]  BY <3>2
      <3> QED BY <3>1, <3>3, <3>4
    <2>3. Nat \subseteq D
      <3> HIDE DEF D
      <3> QED BY <2>1, <2>2, AllNat, Zenon
    <2> QED BY <2>3
  <1> DEFINE W == [n \in Nat |-> (CHOOSE w \in Part(n) : TRUE)[n]]
  <1>5. \A n \in Nat : (CHOOSE w \in Part(n) : TRUE) \in Part(n)
    <2> HIDE DEF Part
    <2> QED BY <1>3
  <1>6. W \in [Nat -> T]
    <2>1. ASSUME NEW n \in Nat PROVE W[n] \in T
      <3>1. PICK w \in Part(n) : W[n] = w[n]
        <4> HIDE DEF Part
        <4> QED BY <1>5, Zenon
      <3> QED BY <3>1
    <2> QED BY <2>1
  <1>7. ASSUME NEW n \in Nat PROVE W[n] = IF n = 0 THEN a ELSE g[W[n - 1]]
    <2>1. PICK w \in Part(n) : W[n] = w[n]
      <3> HIDE DEF Part
      <3> QED BY <1>5, Zenon
    <2>2. w[n] = IF n = 0 THEN a ELSE g[w[n - 1]]  BY <2>1
    <2>3. CASE n = 0  BY <2>1, <2>2, <2>3
    <2>4. CASE n # 0
      <3>1. n - 1 \in Nat  BY <2>4
      <3>2. PICK v \in Part(n - 1) : W[n - 1] = v[n - 1]
        <4> HIDE DEF Part
        <4> QED BY <1>5, <3>1, Zenon
      <3>3. n - 1 \in 0 .. n - 1 /\ n - 1 \in 0 .. n  BY <3>1
      <3>4. v[n - 1] = w[n - 1]
        <4> HIDE DEF Part
        <4> QED BY <1>4, <3>1, <3>3
      <3> QED BY <2>1, <2>2, <2>4, <3>2, <3>4
    <2> QED BY <2>3, <2>4
  <1>8. IsWalk(W, g, a)
    <2>1. W = [n \in Nat |-> W[n]]  OBVIOUS
    <2> HIDE DEF W
    <2> QED BY <1>7, <2>1, Zenon DEF IsWalk
  <1> HIDE DEF W
  <1> QED BY <1>6, <1>8

-----------------------------------------------------------------------------
(* Clusters and what NthCluster, ChainLen and the like see of a chain.     *)

FatOK(v) ==
    /\ v.bitmap \subseteq Clusters
    /\ v.fat \in [Clusters -> Clusters \cup {Nil, EOC}]

Numbers == Clusters \cup {Nil, EOC, Bad}

LEMMA ClusterFacts ==
  /\ NumClusters \in Nat /\ NumClusters > 2 /\ Clusters \subseteq Nat
  /\ \A c \in Clusters : c \in Nat /\ 2 <= c /\ c < NumClusters
  /\ Nil \notin Clusters /\ EOC \notin Clusters /\ Bad \notin Clusters
  /\ Nil # EOC /\ Nil # Bad /\ EOC # Bad
  BY AllocAssumption DEF Clusters, Nil, EOC, Bad

LEMMA FiniteClusters == IsFiniteSet(Clusters) /\ Cardinality(Clusters) = NumClusters - 2
  <1>1. IsFiniteSet(2 .. NumClusters - 1)
        /\ Cardinality(2 .. NumClusters - 1) = IF 2 > NumClusters - 1 THEN 0 ELSE (NumClusters - 1) - 2 + 1
    BY ClusterFacts, FS_Interval
  <1> QED BY <1>1, ClusterFacts DEF Clusters

LEMMA ReadFatIs ==
  ASSUME NEW v, FatOK(v)
  PROVE  /\ ReadFat(v) \in [Numbers -> Numbers]
         /\ \A c \in Clusters : ReadFat(v)[c] = v.fat[c]
         /\ ReadFat(v)[EOC] = Bad /\ ReadFat(v)[Bad] = Bad
  <1>2. ReadFat(v) = [c \in Numbers |-> IF c \in Clusters THEN v.fat[c] ELSE Bad]
    BY DEF ReadFat, Numbers
  <1> QED BY <1>2, ClusterFacts, Zenon DEF FatOK, Numbers

(* What NthCluster reads through the FAT.                                  *)
LEMMA NthIsWalk ==
  ASSUME NEW v, FatOK(v), NEW p, p.flags # 3, p.dir \in Numbers
  PROVE  \E w \in [Nat -> Numbers] :
           /\ w[0] = p.dir
           /\ \A n \in Nat : w[n + 1] = ReadFat(v)[w[n]]
           /\ \A k \in Nat : NthCluster(v, p, k) =
                               IF w[k] \in Clusters \cup {EOC} THEN w[k] ELSE Bad
  <1> DEFINE g == ReadFat(v)
             walk == CHOOSE w : IsWalk(w, g, p.dir)
  <1>1. \A k \in Nat : NthCluster(v, p, k) =
          IF walk[k] \in Clusters \cup {EOC} THEN walk[k] ELSE Bad
    BY DEF NthCluster, IsWalk
  <1>2. g \in [Numbers -> Numbers]  BY ReadFatIs
  <1> HIDE DEF g
  <1>3. \E w : IsWalk(w, g, p.dir)
    BY <1>2, WalkExists
  <1>4. IsWalk(walk, g, p.dir)  BY <1>3
  <1> HIDE DEF walk
  <1>5. walk[0] = p.dir /\ \A n \in Nat : walk[n + 1] = g[walk[n]]
    <2>1. walk[0] = p.dir  BY <1>4 DEF IsWalk
    <2>2. ASSUME NEW n \in Nat PROVE walk[n + 1] = g[walk[n]]
      <3>1. n + 1 \in Nat /\ n + 1 # 0 /\ (n + 1) - 1 = n  OBVIOUS
      <3>2. \A m \in Nat : walk[m] = IF m = 0 THEN p.dir ELSE g[walk[m - 1]]
        BY <1>4 DEF IsWalk
      <3>3. walk[n + 1] = IF n + 1 = 0 THEN p.dir ELSE g[walk[(n + 1) - 1]]
        BY <3>1, <3>2
      <3> QED BY <3>1, <3>3
    <2> QED BY <2>1, <2>2
  <1> DEFINE D == {n \in Nat : walk[n] \in Numbers}
  <1>6. Nat \subseteq D
    <2>1. 0 \in D  BY <1>5
    <2>2. \A n \in Nat : n \in D => n + 1 \in D  BY <1>2, <1>5
    <2> HIDE DEF D
    <2> QED BY <2>1, <2>2, AllNat
  <1>7. walk \in [Nat -> Numbers]
    <2>1. walk = [n \in Nat |-> IF n = 0 THEN p.dir ELSE g[walk[n - 1]]]
      BY <1>4 DEF IsWalk
    <2>2. walk = [n \in Nat |-> walk[n]]  BY <2>1
    <2> QED BY <1>6, <2>2
  <1> QED BY <1>1, <1>5, <1>7 DEF g

LEMMA SeqFacts ==
  ASSUME NEW q \in Seq(Clusters), Len(q) > 0
  PROVE  /\ Len(q) \in Nat /\ 1 \in 1 .. Len(q) /\ Len(q) \in 1 .. Len(q)
         /\ DOMAIN q = 1 .. Len(q) /\ Of(q) \subseteq Clusters
         /\ \A k \in 1 .. Len(q) : q[k] \in Clusters
  <1>1. Len(q) \in Nat /\ DOMAIN q = 1 .. Len(q)  BY LenProperties
  <1>2. \A k \in 1 .. Len(q) : q[k] \in Clusters  BY ElementOfSeq
  <1> QED BY <1>1, <1>2 DEF Of

(* No more clusters than the volume has.                                   *)
LEMMA ShortEnough ==
  ASSUME NEW q \in Seq(Clusters), Len(q) > 0,
         \A j, k \in 1 .. Len(q) : q[j] = q[k] => j = k
  PROVE  Len(q) <= NumClusters - 2
  <1>1. Len(q) \in Nat /\ q \in [1 .. Len(q) -> Clusters]
    BY LenProperties
  <1>2. IsFiniteSet(1 .. Len(q)) /\ Cardinality(1 .. Len(q)) = Len(q)
    <2>1. IsFiniteSet(1 .. Len(q))
          /\ Cardinality(1 .. Len(q)) = IF 1 > Len(q) THEN 0 ELSE Len(q) - 1 + 1
      BY <1>1, FS_Interval
    <2> QED BY <1>1, <2>1
  <1>3. q \in Injection(1 .. Len(q), Clusters)
    BY <1>1 DEF Injection, IsInjective
  <1>4. Cardinality(1 .. Len(q)) <= Cardinality(Clusters)
    BY <1>3, FiniteClusters, FS_Injection
  <1> QED BY <1>2, <1>4, FiniteClusters

LEMMA NthThrough ==
  ASSUME NEW v, FatOK(v), NEW p, NEW q, Through(v, p, q)
  PROVE  /\ \A k \in 0 .. Len(q) - 1 : NthCluster(v, p, k) = q[k + 1]
         /\ p.flags = 1 => /\ NthCluster(v, p, Len(q)) = EOC
                           /\ \A k \in Nat : k >= Len(q) => NthCluster(v, p, k) \notin Clusters
  <1>0. /\ q \in Seq(Clusters) /\ Len(q) > 0 /\ p.dir = q[1] /\ p.flags \in {1, 3}
        /\ Len(q) \in Nat
    BY LenProperties DEF Through
  <1>1. CASE p.flags = 3
    <2>1. ASSUME NEW k \in 0 .. Len(q) - 1 PROVE NthCluster(v, p, k) = q[k + 1]
      <3>1. k + 1 \in 1 .. Len(q) /\ (k + 1) - 1 = k  BY <1>0
      <3>2. q[k + 1] = p.dir + k  BY <1>1, <3>1 DEF Through
      <3>3. q[k + 1] \in Clusters  BY <1>0, <3>1, SeqFacts
      <3> QED BY <1>1, <3>2, <3>3 DEF NthCluster
    <2> QED BY <1>1, <2>1
  <1>2. CASE p.flags = 1
    <2>1. p.dir \in Numbers
      <3>1. q[1] \in Clusters  BY <1>0, SeqFacts
      <3> QED BY <1>0, <3>1 DEF Numbers
    <2>2. PICK w \in [Nat -> Numbers] :
            /\ w[0] = p.dir
            /\ \A n \in Nat : w[n + 1] = ReadFat(v)[w[n]]
            /\ \A k \in Nat : NthCluster(v, p, k) =
                                IF w[k] \in Clusters \cup {EOC} THEN w[k] ELSE Bad
      BY <1>2, <2>1, NthIsWalk
    <2>3. /\ \A k \in 1 .. Len(q) - 1 : v.fat[q[k]] = q[k + 1]
          /\ v.fat[q[Len(q)]] = EOC
      BY <1>2 DEF Through
    <2> DEFINE D == {n \in Nat : n < Len(q) => w[n] = q[n + 1]}
    <2>4. Nat \subseteq D
      <3>1. 0 \in D  BY <1>0, <2>2
      <3>2. ASSUME NEW n \in Nat, n \in D PROVE n + 1 \in D
        <4> SUFFICES ASSUME n + 1 < Len(q) PROVE w[n + 1] = q[(n + 1) + 1]
          OBVIOUS
        <4>1. w[n] = q[n + 1]  BY <1>0, <3>2
        <4>2. n + 1 \in 1 .. Len(q) - 1 /\ n + 1 \in 1 .. Len(q)  BY <1>0
        <4>3. q[n + 1] \in Clusters  BY <1>0, <4>2, SeqFacts
        <4>4. ReadFat(v)[q[n + 1]] = v.fat[q[n + 1]]  BY <4>3, ReadFatIs
        <4> QED BY <2>2, <2>3, <4>1, <4>2, <4>4, Zenon
      <3> HIDE DEF D
      <3> QED BY <3>1, <3>2, AllNat
    <2>5. ASSUME NEW k \in 0 .. Len(q) - 1 PROVE w[k] = q[k + 1] /\ q[k + 1] \in Clusters
      <3>1. k \in Nat /\ k < Len(q) /\ k + 1 \in 1 .. Len(q)  BY <1>0
      <3> QED BY <1>0, <2>4, <3>1, SeqFacts
    <2>6. w[Len(q)] = EOC
      <3>1. Len(q) - 1 \in 0 .. Len(q) - 1 /\ (Len(q) - 1) + 1 = Len(q) /\ Len(q) - 1 \in Nat
        BY <1>0
      <3>2. w[Len(q) - 1] = q[Len(q)] /\ q[Len(q)] \in Clusters  BY <2>5, <3>1, Zenon
      <3>3. w[(Len(q) - 1) + 1] = ReadFat(v)[w[Len(q) - 1]]  BY <2>2, <3>1, Zenon
      <3>4. ReadFat(v)[q[Len(q)]] = EOC  BY <2>3, <3>2, ReadFatIs
      <3> QED BY <3>1, <3>2, <3>3, <3>4
    <2> DEFINE E == {n \in Nat : n >= Len(q) => w[n] \in {EOC, Bad}}
    <2>7. Nat \subseteq E
      <3>1. 0 \in E  BY <1>0
      <3>2. ASSUME NEW n \in Nat, n \in E PROVE n + 1 \in E
        <4> SUFFICES ASSUME n + 1 >= Len(q) PROVE w[n + 1] \in {EOC, Bad}
          OBVIOUS
        <4>1. CASE n + 1 = Len(q)  BY <2>6, <4>1
        <4>2. CASE n + 1 # Len(q)
          <5>1. n >= Len(q)  BY <1>0, <4>2
          <5>2. w[n] \in {EOC, Bad}  BY <3>2, <5>1
          <5>3. ReadFat(v)[w[n]] = Bad  BY <5>2, ReadFatIs
          <5> QED BY <2>2, <5>3, Zenon
        <4> QED BY <4>1, <4>2
      <3> HIDE DEF E
      <3> QED BY <3>1, <3>2, AllNat
    <2>8. \A k \in 0 .. Len(q) - 1 : NthCluster(v, p, k) = q[k + 1]
      <3> TAKE k \in 0 .. Len(q) - 1
      <3>1. k \in Nat  BY <1>0
      <3> QED BY <2>2, <2>5, <3>1, Zenon
    <2>9. NthCluster(v, p, Len(q)) = EOC  BY <1>0, <2>2, <2>6
    <2>10. \A k \in Nat : k >= Len(q) => NthCluster(v, p, k) \notin Clusters
      BY <2>2, <2>7, ClusterFacts, ZenonT(60)
    <2> QED BY <2>8, <2>9, <2>10
  <1> QED BY <1>0, <1>1, <1>2

(* What the loops of the driver make of a chain.                           *)
LEMMA ChainIs ==
  ASSUME NEW v, FatOK(v), NEW p, NEW q, Through(v, p, q)
  PROVE  /\ ChainLen(v, p) = Len(q) /\ ChainSeq(v, p) = q /\ ChainSet(v, p) = Of(q)
         /\ LastCluster(v, p) = q[Len(q)]
  <1>0. /\ q \in Seq(Clusters) /\ Len(q) > 0 /\ p.dir = q[1] /\ p.flags \in {1, 3}
        /\ Len(q) \in Nat
    BY LenProperties DEF Through
  <1>1. ChainLen(v, p) = Len(q)
    <2>1. CASE p.flags = 3  BY <1>0, <2>1 DEF ChainLen, Through
    <2>2. CASE p.flags = 1
      <3>1. Len(q) <= NumClusters - 2  BY <1>0, ShortEnough DEF Through
      <3>2. ASSUME NEW n \in 0 .. NumClusters - 1
            PROVE  NthCluster(v, p, n) \in Clusters <=> n \in 0 .. Len(q) - 1
        <4>1. CASE n \in 0 .. Len(q) - 1
          <5>1. NthCluster(v, p, n) = q[n + 1] /\ n + 1 \in 1 .. Len(q)
            BY <1>0, <4>1, NthThrough
          <5> QED BY <1>0, <4>1, <5>1, SeqFacts
        <4>2. CASE n \notin 0 .. Len(q) - 1
          <5>1. n \in Nat /\ n >= Len(q)  BY <1>0, <4>2, ClusterFacts
          <5> QED BY <2>2, <4>2, <5>1, NthThrough
        <4> QED BY <4>1, <4>2
      <3> DEFINE Ends(n) == /\ n = NumClusters \/ NthCluster(v, p, n) \notin Clusters
                            /\ \A m \in 0 .. n - 1 : NthCluster(v, p, m) \in Clusters
      <3>3. Len(q) \in 0 .. NumClusters /\ Ends(Len(q))
        <4>1. Len(q) \in 0 .. NumClusters - 1  BY <1>0, <3>1, ClusterFacts
        <4>2. \A m \in 0 .. Len(q) - 1 : m \in 0 .. NumClusters - 1
          BY <1>0, <3>1, ClusterFacts
        <4> QED BY <3>2, <4>1, <4>2, ClusterFacts
      <3>4. ASSUME NEW n \in 0 .. NumClusters, Ends(n) PROVE n = Len(q)
        <4>1. CASE n < Len(q)
          <5>1. n \in 0 .. Len(q) - 1 /\ n \in 0 .. NumClusters - 1
            BY <1>0, <3>1, <4>1, ClusterFacts
          <5> QED BY <3>1, <3>2, <3>4, <5>1, ClusterFacts
        <4>2. CASE n > Len(q)
          <5>1. Len(q) \in 0 .. n - 1 /\ Len(q) \in 0 .. NumClusters - 1
                /\ Len(q) \notin 0 .. Len(q) - 1
            BY <1>0, <3>1, <4>2, ClusterFacts
          <5> QED BY <3>2, <3>4, <5>1
        <4> QED BY <1>0, <4>1, <4>2
      <3>5. ChainLen(v, p) = CHOOSE n \in 0 .. NumClusters : Ends(n)
        BY <2>2 DEF ChainLen
      <3> HIDE DEF Ends
      <3> QED BY <3>3, <3>4, <3>5
    <2> QED BY <1>0, <2>1, <2>2
  <1>2. ChainSeq(v, p) = q
    <2>1. ChainSeq(v, p) = [k \in 1 .. Len(q) |-> NthCluster(v, p, k - 1)]
      BY <1>1 DEF ChainSeq
    <2>2. ASSUME NEW k \in 1 .. Len(q) PROVE NthCluster(v, p, k - 1) = q[k]
      <3>1. k - 1 \in 0 .. Len(q) - 1 /\ (k - 1) + 1 = k  BY <1>0
      <3> QED BY <3>1, NthThrough
    <2>3. q = [k \in 1 .. Len(q) |-> q[k]]  BY <1>0
    <2> QED BY <2>1, <2>2, <2>3
  <1>3. ChainSet(v, p) = Of(q)
    <2>1. DOMAIN q = 1 .. Len(q) /\ Of(q) \subseteq Clusters  BY <1>0, SeqFacts
    <2> QED BY <1>2, <2>1 DEF ChainSet, Of
  <1>4. LastCluster(v, p) = q[Len(q)]
    <2>1. CASE p.flags = 3
      <3>1. p.size = Len(q) /\ q[Len(q)] = p.dir + (Len(q) - 1)
        BY <1>0, <2>1 DEF Through
      <3>2. p.dir \in Nat  BY <1>0, SeqFacts, ClusterFacts, Zenon
      <3> QED BY <1>0, <2>1, <3>1, <3>2 DEF LastCluster
    <2>2. CASE p.flags = 1
      <3>1. Len(q) - 1 \in 0 .. Len(q) - 1 /\ (Len(q) - 1) + 1 = Len(q)  BY <1>0
      <3>2. NthCluster(v, p, Len(q) - 1) = q[Len(q)]  BY <3>1, NthThrough
      <3> QED BY <1>1, <2>2, <3>2 DEF LastCluster
    <2> QED BY <1>0, <2>1, <2>2
  <1> QED BY <1>1, <1>2, <1>3, <1>4

-----------------------------------------------------------------------------
(* The search of the bitmap finds a free cluster.                          *)

LEMMA DivIsNat ==
  ASSUME NEW m \in Nat, NEW n \in Nat \ {0}
  PROVE  m \div n \in Nat
  OBVIOUS

LEMMA BytesAreNat ==
  /\ NumBytes \in Nat /\ NumBytes > 0
  /\ \A c \in Clusters : ByteOf(c) \in 0 .. NumBytes - 1
  <1>1. ASSUME NEW c \in Clusters PROVE ByteOf(c) \in Nat /\ ByteOf(c) <= ByteOf(NumClusters - 1)
    <2> DEFINE m == c - 2
               n == NumClusters - 3
               b == BitsPerByte
    <2>1. m \in Nat /\ n \in Nat /\ m <= n /\ b \in Nat \ {0}
      BY ClusterFacts, AllocAssumption
    <2>2. n = (NumClusters - 1) - 2  BY ClusterFacts
    <2> HIDE DEF m, n, b
    <2>3. m \div b \in Nat /\ m \div b <= n \div b
      BY <2>1
    <2> QED BY <2>2, <2>3 DEF ByteOf, m, b
  <1>2. 2 \in Clusters  BY ClusterFacts DEF Clusters
  <1>3. ByteOf(NumClusters - 1) \in Nat
    <2>1. NumClusters - 1 \in Clusters  BY ClusterFacts DEF Clusters
    <2> QED BY <1>1, <2>1
  <1> QED BY <1>1, <1>3 DEF NumBytes

LEMMA RoundIsNat ==
  ASSUME NEW c \in Clusters, NEW x \in Clusters
  PROVE  Round(c, x) \in Nat
  <1>1. /\ NumBytes \in Nat /\ NumBytes > 0 /\ ByteOf(c) \in 0 .. NumBytes - 1
        /\ ByteOf(x) \in 0 .. NumBytes - 1
    BY BytesAreNat
  <1>2. ASSUME NEW n \in Nat, n > 0, NEW a \in 0 .. n - 1, NEW b \in 0 .. n - 1
        PROVE  (b - a + n) % n \in Nat
    <2>1. b - a + n \in Nat  OBVIOUS
    <2> QED BY <2>1
  <1> QED BY <1>1, <1>2 DEF Round

LEMMA TestAllocIs ==
  ASSUME NEW v, NEW c \in Clusters
  PROVE  IF SearchSpace(v, c) = {} THEN TestAlloc(v, c) = EOC
         ELSE TestAlloc(v, c) \in SearchSpace(v, c)
  <1> DEFINE space == SearchSpace(v, c)
             First(x) == \A y \in space :
               Round(c, x) < Round(c, y) \/ (Round(c, x) = Round(c, y) /\ x <= y)
  <1>1. space \subseteq Clusters  BY DEF SearchSpace
  <1>2. TestAlloc(v, c) = IF space = {} THEN EOC ELSE CHOOSE x \in space : First(x)
    BY DEF TestAlloc
  <1> HIDE DEF space
  <1>3. ASSUME space # {} PROVE \E x \in space : First(x)
    <2>1. \A x \in space : Round(c, x) \in Nat /\ x \in Nat
      BY <1>1, RoundIsNat, ClusterFacts
    <2> DEFINE rounds == {Round(c, x) : x \in space}
    <2>2. rounds \in SUBSET Nat /\ rounds # {}  BY <1>3, <2>1
    <2>3. PICK r \in rounds : \A m \in rounds : r <= m
      <3> HIDE DEF rounds
      <3> QED BY <2>2, LeastNat
    <2> DEFINE near == {x \in space : Round(c, x) = r}
    <2>4. near \in SUBSET Nat /\ near # {}  BY <2>1, <2>3
    <2>5. PICK x \in near : \A y \in near : x <= y
      <3> HIDE DEF near, rounds
      <3> QED BY <2>4, LeastNat
    <2>6. x \in space /\ Round(c, x) = r  BY <2>5
    <2>7. ASSUME NEW y \in space
          PROVE  Round(c, x) < Round(c, y) \/ (Round(c, x) = Round(c, y) /\ x <= y)
      <3>1. r \in Nat /\ Round(c, y) \in Nat /\ r <= Round(c, y)
        BY <2>1, <2>2, <2>3
      <3>2. Round(c, y) = r => x <= y  BY <2>5
      <3> QED BY <2>6, <3>1, <3>2
    <2> QED BY <2>6, <2>7
  <1> HIDE DEF First
  <1> QED BY <1>2, <1>3 DEF space

(* A cluster that is free itself is the first that the search finds.       *)
LEMMA TestAllocStays ==
  ASSUME NEW v, NEW c \in Clusters \ v.bitmap
  PROVE  TestAlloc(v, c) = c
  <1> DEFINE space == SearchSpace(v, c)
  <1>1. space \subseteq Clusters /\ c \in space  BY ClusterFacts DEF SearchSpace
  <1>2. /\ NumBytes \in Nat /\ NumBytes > 0 /\ ByteOf(c) \in 0 .. NumBytes - 1
        /\ \A x \in Clusters : ByteOf(x) \in 0 .. NumBytes - 1
    BY BytesAreNat
  <1>3. Round(c, c) = 0
    <2>1. ASSUME NEW n \in Nat, n > 0, NEW a \in 0 .. n - 1 PROVE (a - a + n) % n = 0
      <3>1. a - a + n = n /\ n % n = 0  OBVIOUS
      <3> QED BY <3>1
    <2> QED BY <1>2, <2>1 DEF Round
  <1>4. ASSUME NEW y \in space, Round(c, y) = 0 PROVE c <= y
    <2>1. y \in Clusters /\ (ByteOf(y) = ByteOf(c) => y >= c)
      BY <1>1 DEF SearchSpace
    <2>2. ASSUME NEW n \in Nat, n > 0, NEW a \in 0 .. n - 1, NEW b \in 0 .. n - 1,
                 (b - a + n) % n = 0
          PROVE  a = b
      <3>1. CASE b >= a
        <4>1. b - a \in 0 .. n - 1  BY <3>1
        <4>2. (b - a + n) % n = (b - a) % n /\ (b - a) % n = b - a  BY <4>1
        <4> QED BY <2>2, <4>2
      <3>2. CASE b < a
        <4>1. b - a + n \in 1 .. n - 1  BY <3>2
        <4>2. (b - a + n) % n = b - a + n  BY <4>1
        <4> QED BY <2>2, <4>1, <4>2
      <3> QED BY <3>1, <3>2
    <2>3. ByteOf(c) = ByteOf(y)  BY <1>2, <1>4, <2>1, <2>2, Zenon DEF Round
    <2> QED BY <2>1, <2>3, ClusterFacts
  <1> DEFINE x == TestAlloc(v, c)
  <1>5. x \in space /\ (Round(c, x) < Round(c, c) \/ (Round(c, x) = Round(c, c) /\ x <= c))
    <2> DEFINE First(z) == \A y \in space :
                 Round(c, z) < Round(c, y) \/ (Round(c, z) = Round(c, y) /\ z <= y)
    <2>1. x = CHOOSE z \in space : First(z)
      BY <1>1 DEF TestAlloc
    <2>2. First(c)
      <3> SUFFICES ASSUME NEW y \in space
                   PROVE  Round(c, c) < Round(c, y) \/ (Round(c, c) = Round(c, y) /\ c <= y)
        OBVIOUS
      <3>1. Round(c, y) \in Nat  BY <1>1, RoundIsNat
      <3> QED BY <1>3, <1>4, <3>1
    <2>3. x \in space /\ First(x)
      <3> HIDE DEF First, space, x
      <3> QED BY <1>1, <2>1, <2>2
    <2> QED BY <1>1, <2>3
  <1> HIDE DEF x
  <1>6. Round(c, x) \in Nat /\ x \in Clusters  BY <1>1, <1>5, RoundIsNat
  <1>7. Round(c, x) = 0 /\ x <= c  BY <1>3, <1>5, <1>6
  <1>8. c <= x  BY <1>4, <1>5, <1>7
  <1>9. x = c  BY <1>6, <1>7, <1>8, ClusterFacts
  <1> QED BY <1>9 DEF x

-----------------------------------------------------------------------------
(* Allocating and freeing.                                                 *)

Fields == {"bitmap", "fat", "slots", "srch", "used", "hint"}

(* A volume, and the count of its used clusters if it is known.            *)
VolOK(v) == FatOK(v) /\ Fields \subseteq DOMAIN v /\ v.srch \in Clusters
Counted(v) == v.used \in {Unknown, Cardinality(v.bitmap)}

(* What differs from v to w is in none of the bitmap, FAT and count.       *)
SameClusters(v, w) ==
    /\ w.bitmap = v.bitmap /\ w.fat = v.fat /\ w.used = v.used

LEMMA UsedIsNoUnknown ==
  ASSUME NEW v, FatOK(v)
  PROVE  /\ IsFiniteSet(v.bitmap) /\ Cardinality(v.bitmap) \in Nat
         /\ Cardinality(v.bitmap) # Unknown
  <1>1. IsFiniteSet(v.bitmap)  BY FiniteClusters, FS_Subset DEF FatOK
  <1>2. Cardinality(v.bitmap) \in Nat  BY <1>1, FS_CardinalityType
  <1> QED BY <1>1, <1>2 DEF Unknown

(* exfat_alloc_cluster: it takes no cluster, or one that was free.         *)
Takes(v, want, flags, a) ==
    /\ a.clu \in Clusters \ v.bitmap /\ a.flags \in {1, 3}
    /\ flags = 1 => a.flags = 1
    /\ a.flags = 3 => want = EOC \/ a.clu = want
    /\ a.v.bitmap = v.bitmap \cup {a.clu}
    /\ \A c \in Clusters : c # a.clu => a.v.fat[c] = v.fat[c]
    /\ a.flags = 1 => a.v.fat[a.clu] = EOC
    /\ a.v.used = IF v.used = Unknown THEN Unknown ELSE v.used + 1
    /\ a.v.slots = v.slots /\ a.v.hint = v.hint /\ VolOK(a.v)

TakesNone(v, flags, a) ==
    /\ a.clu = EOC /\ a.flags = flags
    /\ SameClusters(v, a.v) /\ a.v.slots = v.slots /\ a.v.hint = v.hint /\ VolOK(a.v)

LEMMA AllocAtIs ==
  ASSUME NEW v, VolOK(v), NEW want \in Nat \cup {EOC}, NEW flags \in {1, 3},
         NEW hint \in Clusters, NEW new \in {EOC} \cup (Clusters \ v.bitmap),
         hint = want \/ (want = EOC /\ new = hint) \/ want >= NumClusters
  PROVE  LET a == AllocAt(v, want, flags, hint, new)
         IN Takes(v, want, flags, a) \/ TakesNone(v, flags, a)
  <1> DEFINE a == AllocAt(v, want, flags, hint, new)
             kind == IF want >= NumClusters \/ (new # hint /\ flags = 3) THEN 1 ELSE flags
  <1>1. CASE new = EOC
    <2> DEFINE w == [v EXCEPT !.srch = hint]
    <2>1. a = [clu |-> EOC, flags |-> flags, v |-> w]  BY <1>1, ClusterFacts DEF AllocAt
    <2>2. SameClusters(v, w) /\ w.slots = v.slots /\ w.hint = v.hint /\ VolOK(w)
      BY DEF SameClusters, VolOK, FatOK, Fields
    <2> HIDE DEF w
    <2> QED BY <2>1, <2>2 DEF TakesNone
  <1>2. CASE new # EOC
    <2> DEFINE w == [v EXCEPT !.bitmap = @ \cup {new},
                              !.fat[new] = IF kind = 1 THEN EOC ELSE @,
                              !.srch = hint,
                              !.used = IF @ = Unknown THEN @ ELSE @ + 1]
    <2>0. new \in Clusters \ v.bitmap /\ hint \in Clusters  BY <1>2
    <2>1. a = [clu |-> new, flags |-> kind, v |-> w]  BY <1>2, ClusterFacts DEF AllocAt
    <2>2. kind \in {1, 3} /\ (flags = 1 => kind = 1)  OBVIOUS
    <2>3. kind = 3 => want = EOC \/ new = want
      <3>1. kind = 3 => ~(want >= NumClusters) /\ new = hint /\ flags = 3  OBVIOUS
      <3> QED BY <3>1
    <2> HIDE DEF kind
    <2>4. /\ w.bitmap = v.bitmap \cup {new} /\ w.srch = hint
          /\ w.fat = [v.fat EXCEPT ![new] = IF kind = 1 THEN EOC ELSE @]
          /\ w.used = IF v.used = Unknown THEN Unknown ELSE v.used + 1
          /\ w.slots = v.slots /\ w.hint = v.hint /\ DOMAIN w = DOMAIN v
      BY DEF VolOK, Fields
    <2> HIDE DEF w
    <2>5. /\ w.fat \in [Clusters -> Clusters \cup {Nil, EOC}]
          /\ \A c \in Clusters : c # new => w.fat[c] = v.fat[c]
          /\ kind = 1 => w.fat[new] = EOC
      BY <2>0, <2>4 DEF VolOK, FatOK
    <2>6. VolOK(w)  BY <2>0, <2>4, <2>5 DEF VolOK, FatOK
    <2>7. Takes(v, want, flags, [clu |-> new, flags |-> kind, v |-> w])
      BY <2>0, <2>2, <2>3, <2>4, <2>5, <2>6 DEF Takes
    <2> QED BY <2>1, <2>7
  <1> QED BY <1>1, <1>2

LEMMA AllocIs ==
  ASSUME NEW v, VolOK(v), NEW want \in Nat \cup {EOC}, want = EOC \/ want >= 2,
         NEW flags \in {1, 3}
  PROVE  LET a == AllocCluster(v, want, flags)
         IN Takes(v, want, flags, a) \/ TakesNone(v, flags, a)
  <1> DEFINE hint == IF want = EOC THEN TestAlloc(v, v.srch)
                     ELSE IF want >= NumClusters THEN 2 ELSE want
             new == TestAlloc(v, hint)
  <1>1. \A c \in Clusters : TestAlloc(v, c) \in {EOC} \cup (Clusters \ v.bitmap)
    BY TestAllocIs DEF SearchSpace
  <1>2. hint \in Clusters \cup {EOC}
    <2>1. v.srch \in Clusters  BY DEF VolOK
    <2>2. 2 \in Clusters  BY ClusterFacts DEF Clusters
    <2>3. want # EOC /\ ~(want >= NumClusters) => want \in Clusters
      BY ClusterFacts DEF Clusters
    <2> QED BY <1>1, <2>1, <2>2, <2>3
  <1>3. hint # EOC => hint = want \/ (want = EOC /\ new = hint) \/ want >= NumClusters
    <2>1. CASE want = EOC
      <3>1. hint \in {EOC} \cup (Clusters \ v.bitmap)  BY <1>1, <2>1 DEF VolOK
      <3>2. hint # EOC => TestAlloc(v, hint) = hint  BY <3>1, TestAllocStays
      <3> QED BY <2>1, <3>2
    <2>2. CASE want # EOC  BY <2>2
    <2> QED BY <2>1, <2>2
  <1>4. AllocCluster(v, want, flags) = AllocAt(v, want, flags, hint, new)
    BY DEF AllocCluster
  <1>5. hint # EOC => new \in {EOC} \cup (Clusters \ v.bitmap)  BY <1>1, <1>2
  <1>6. CASE hint = EOC
    <2>1. AllocCluster(v, want, flags) = [clu |-> EOC, flags |-> flags, v |-> v]
      BY <1>4, <1>6 DEF AllocAt
    <2> QED BY <2>1 DEF TakesNone, SameClusters
  <1>7. CASE hint # EOC
    <2> HIDE DEF hint, new
    <2> QED BY <1>2, <1>3, <1>4, <1>5, <1>7, AllocAtIs
  <1> QED BY <1>6, <1>7

LEMMA AllocCounts ==
  ASSUME NEW v, VolOK(v), NEW want, NEW flags, NEW a,
         Takes(v, want, flags, a) \/ TakesNone(v, flags, a), Counted(v)
  PROVE  Counted(a.v)
  <1>1. CASE TakesNone(v, flags, a)
    BY <1>1 DEF TakesNone, SameClusters, Counted
  <1>2. CASE Takes(v, want, flags, a)
    <2>1. /\ IsFiniteSet(v.bitmap) /\ Cardinality(v.bitmap) \in Nat
          /\ Cardinality(v.bitmap) # Unknown
      BY UsedIsNoUnknown DEF VolOK
    <2>2. a.clu \notin v.bitmap /\ a.v.bitmap = v.bitmap \cup {a.clu}
          /\ a.v.used = IF v.used = Unknown THEN Unknown ELSE v.used + 1
      BY <1>2 DEF Takes
    <2>3. Cardinality(v.bitmap \cup {a.clu}) = Cardinality(v.bitmap) + 1
      BY <2>1, <2>2, FS_AddElement, Zenon
    <2> QED BY <2>1, <2>2, <2>3 DEF Counted
  <1> QED BY <1>1, <1>2

(* exfat_free_cluster, of a chain that is marked in the bitmap.            *)
LEMMA FreeIs ==
  ASSUME NEW v, VolOK(v), NEW p, NEW q, Through(v, p, q), p.size > 0, p.size \in Nat,
         Of(q) \subseteq v.bitmap
  PROVE  LET w == FreeCluster(v, p)
         IN /\ w.bitmap = v.bitmap \ Of(q) /\ w.fat = v.fat
            /\ w.slots = v.slots /\ w.hint = v.hint /\ VolOK(w)
            /\ Counted(v) => Counted(w)
  <1> DEFINE w == FreeCluster(v, p)
  <1>1. p.dir \in Clusters
    BY SeqFacts DEF Through
  <1>2. ChainSet(v, p) = Of(q)  BY ChainIs DEF VolOK
  <1>3. w = [v EXCEPT !.bitmap = @ \ Of(q),
                      !.used = IF @ = Unknown THEN @ ELSE @ - Cardinality(Of(q))]
    BY <1>1, <1>2, ClusterFacts DEF FreeCluster
  <1> HIDE DEF w
  <1>4. /\ w.bitmap = v.bitmap \ Of(q) /\ w.fat = v.fat /\ w.srch = v.srch
        /\ w.slots = v.slots /\ w.hint = v.hint /\ DOMAIN w = DOMAIN v
        /\ w.used = IF v.used = Unknown THEN Unknown ELSE v.used - Cardinality(Of(q))
    BY <1>3 DEF VolOK, Fields
  <1>5. VolOK(w)  BY <1>4 DEF VolOK, FatOK
  <1>6. ASSUME Counted(v) PROVE Counted(w)
    <2>1. IsFiniteSet(v.bitmap)  BY UsedIsNoUnknown DEF VolOK
    <2>2. v.bitmap \cap Of(q) = Of(q)  OBVIOUS
    <2>3. Cardinality(v.bitmap \ Of(q)) = Cardinality(v.bitmap) - Cardinality(Of(q))
      BY <2>1, <2>2, FS_Difference, Zenon
    <2> QED BY <1>4, <1>6, <2>3 DEF Counted
  <1> QED BY <1>4, <1>5, <1>6 DEF w

-----------------------------------------------------------------------------
(* Chains that grow and chains that are left alone.                        *)

LEMMA ThroughStays ==
  ASSUME NEW v, NEW w, NEW p, NEW q, Through(v, p, q), Len(q) \in Nat,
         \A c \in Of(q) : w.fat[c] = v.fat[c]
  PROVE  Through(w, p, q)
  <1>1. \A k \in 1 .. Len(q) : q[k] \in Of(q)  BY DEF Of
  <1>2. p.flags = 1 => /\ \A k \in 1 .. Len(q) - 1 : w.fat[q[k]] = q[k + 1]
                       /\ w.fat[q[Len(q)]] = EOC
    <2> SUFFICES ASSUME p.flags = 1
                 PROVE  /\ \A k \in 1 .. Len(q) - 1 : w.fat[q[k]] = q[k + 1]
                        /\ w.fat[q[Len(q)]] = EOC
      OBVIOUS
    <2>1. /\ \A k \in 1 .. Len(q) - 1 : v.fat[q[k]] = q[k + 1]
          /\ v.fat[q[Len(q)]] = EOC /\ Len(q) > 0
      BY DEF Through
    <2>2. \A k \in 1 .. Len(q) - 1 : k \in 1 .. Len(q)  OBVIOUS
    <2>3. Len(q) \in 1 .. Len(q)  BY <2>1
    <2> QED BY <1>1, <2>1, <2>2, <2>3, Zenon
  <1> QED BY <1>2 DEF Through

(* exfat_chain_cont_cluster: the FAT then says what the run meant.         *)
LEMMA ConvertIs ==
  ASSUME NEW v, VolOK(v), NEW p, NEW q, Through(v, p, q), p.flags = 3,
         NEW p2, p2.dir = p.dir, p2.flags = 1
  PROVE  LET w == ChainCont(v, p.dir, p.size)
         IN /\ Through(w, p2, q) /\ \A c \in Clusters \ Of(q) : w.fat[c] = v.fat[c]
            /\ w.bitmap = v.bitmap /\ w.used = v.used
            /\ w.slots = v.slots /\ w.hint = v.hint /\ VolOK(w)
  <1> DEFINE n == Len(q)
             first == p.dir
             w == ChainCont(v, first, n)
             links == [c \in first .. first + n - 1 |-> IF c < first + n - 1 THEN c + 1 ELSE EOC]
  <1>1. /\ q \in Seq(Clusters) /\ n \in Nat /\ n > 0 /\ p.size = n
        /\ \A k \in 1 .. n : q[k] = first + (k - 1) /\ q[k] \in Clusters
        /\ first = q[1] /\ first \in Clusters /\ first \in Nat
    BY SeqFacts, ClusterFacts, Zenon DEF Through
  <1>2. w = [v EXCEPT !.fat = Over(links, @)]
    BY <1>1 DEF ChainCont
  <1> HIDE DEF w, n, first
  <1>3. \A c \in first .. first + n - 1 : /\ c - first + 1 \in 1 .. n
                                          /\ q[c - first + 1] = c /\ c \in Clusters
    <2> TAKE c \in first .. first + n - 1
    <2>1. c - first + 1 \in 1 .. n /\ first + ((c - first + 1) - 1) = c  BY <1>1
    <2> QED BY <1>1, <2>1, Zenon
  <1>4. \A k \in 1 .. n : q[k] \in first .. first + n - 1
    BY <1>1
  <1>5. Of(q) = first .. first + n - 1
    <2>1. ASSUME NEW c \in first .. first + n - 1  PROVE  c \in Of(q)
      BY <1>3, ZenonT(60) DEF Of, n
    <2>2. ASSUME NEW c \in Of(q)  PROVE  c \in first .. first + n - 1
      BY <1>4, ZenonT(60) DEF Of, n
    <2> QED BY <2>1, <2>2, ZenonT(60)
  <1>6. /\ w.fat = Over(links, v.fat) /\ w.bitmap = v.bitmap /\ w.used = v.used
        /\ w.slots = v.slots /\ w.hint = v.hint /\ w.srch = v.srch /\ DOMAIN w = DOMAIN v
    BY <1>2 DEF VolOK, Fields
  <1>7. DOMAIN v.fat = Clusters /\ \A c \in Clusters : v.fat[c] \in Clusters \cup {Nil, EOC}
    BY DEF VolOK, FatOK
  <1>8. w.fat = [c \in Clusters |-> IF c \in first .. first + n - 1 THEN links[c] ELSE v.fat[c]]
    <2>1. (first .. first + n - 1) \cup Clusters = Clusters  BY <1>3
    <2> QED BY <1>6, <1>7, <2>1, Zenon DEF Over
  <1>9. \A c \in first .. first + n - 1 :
          links[c] = IF c < first + n - 1 THEN c + 1 ELSE EOC
    OBVIOUS
  <1> HIDE DEF links
  <1>10. \A c \in first .. first + n - 1 : links[c] \in Clusters \cup {EOC}
    <2> TAKE c \in first .. first + n - 1
    <2>1. c < first + n - 1 => c + 1 \in first .. first + n - 1  BY <1>1
    <2> QED BY <1>3, <1>9, <2>1
  <1>11. w.fat \in [Clusters -> Clusters \cup {Nil, EOC}]
    BY <1>7, <1>8, <1>10
  <1>12. VolOK(w)  BY <1>6, <1>11 DEF VolOK, FatOK
  <1>13. \A c \in Clusters \ Of(q) : w.fat[c] = v.fat[c]  BY <1>5, <1>8
  <1>14. \A k \in 1 .. n - 1 : w.fat[q[k]] = q[k + 1]
    <2> TAKE k \in 1 .. n - 1
    <2>1. /\ k \in 1 .. n /\ k + 1 \in 1 .. n /\ (k + 1) - 1 = k
          /\ k \in Nat /\ k + 1 <= n /\ first \in Nat
      BY <1>1
    <2>2. q[k] = first + (k - 1) /\ q[k] \in Clusters /\ q[k + 1] = first + k
      BY <1>1, <2>1
    <2>3. q[k] \in first .. first + n - 1  BY <1>4, <2>1
    <2>4. q[k] < first + n - 1 /\ q[k] + 1 = first + k
      <3>1. first + (k - 1) < first + n - 1 /\ (first + (k - 1)) + 1 = first + k
        BY <1>1, <2>1
      <3> QED BY <2>2, <3>1
    <2>5. links[q[k]] = q[k] + 1  BY <1>9, <2>3, <2>4
    <2>6. w.fat[q[k]] = links[q[k]]  BY <1>8, <2>2, <2>3
    <2> QED BY <2>2, <2>4, <2>5, <2>6
  <1>15. w.fat[q[n]] = EOC
    <2>1. n \in 1 .. n /\ q[n] = first + n - 1  BY <1>1
    <2>2. q[n] \in first .. first + n - 1 /\ q[n] \in Clusters  BY <1>1, <1>4, <2>1
    <2> QED BY <1>1, <1>8, <1>9, <2>1, <2>2
  <1>16. Through(w, p2, q)
    <2>1. \A j, k \in 1 .. Len(q) : q[j] = q[k] => j = k  BY DEF Through
    <2> QED BY <1>1, <1>14, <1>15, <2>1 DEF Through, n, first
  <1>17. p.size = n /\ p.dir = first  BY <1>1 DEF first
  <1> QED BY <1>6, <1>12, <1>13, <1>16, <1>17 DEF w

(* A chain, and the cluster that comes to its end.                         *)
Joins(v, w, p, q, new, p2) ==
    /\ VolOK(v) /\ Through(v, p, q) /\ new \in Clusters \ Of(q)
    /\ p2.dir = p.dir /\ p2.flags = p.flags
    /\ p.flags = 3 => p2.size = p.size + 1 /\ new = q[Len(q)] + 1
    /\ p.flags = 1 => /\ \A c \in Of(q) : c # q[Len(q)] => w.fat[c] = v.fat[c]
                      /\ w.fat[q[Len(q)]] = new /\ w.fat[new] = EOC

LEMMA JoinIs ==
  ASSUME NEW v, NEW w, NEW p, NEW q, NEW new, NEW p2, Joins(v, w, p, q, new, p2)
  PROVE  Through(w, p2, Append(q, new)) /\ Of(Append(q, new)) = Of(q) \cup {new}
  <1> USE DEF Joins
  <1> DEFINE n == Len(q)
             r == Append(q, new)
  <1>1. /\ q \in Seq(Clusters) /\ n \in Nat /\ n > 0 /\ p.dir = q[1] /\ p.flags \in {1, 3}
        /\ \A k \in 1 .. n : q[k] \in Clusters /\ q[k] \in Nat /\ q[k] \in Of(q)
        /\ \A j, k \in 1 .. n : q[j] = q[k] => j = k
    BY SeqFacts, ClusterFacts, Zenon DEF Through, Of
  <1>2. /\ r \in Seq(Clusters) /\ Len(r) = n + 1 /\ r[n + 1] = new
        /\ \A k \in 1 .. n : r[k] = q[k]
    BY <1>1, AppendProperties
  <1>3. p.flags = 3 => p.size = n /\ \A k \in 1 .. n : q[k] = p.dir + (k - 1)
    BY DEF Through
  <1>4. p.flags = 1 => \A k \in 1 .. n - 1 : v.fat[q[k]] = q[k + 1]
    BY DEF Through
  <1> HIDE DEF n, r
  <1>5. \A k \in 1 .. n + 1 : k \in 1 .. n \/ k = n + 1  BY <1>1
  <1>6. \A j, k \in 1 .. n + 1 : r[j] = r[k] => j = k
    <2> TAKE j, k \in 1 .. n + 1
    <2>1. CASE j \in 1 .. n /\ k \in 1 .. n  BY <1>1, <1>2, <2>1
    <2>2. CASE j = n + 1 /\ k \in 1 .. n  BY <1>1, <1>2, <2>2
    <2>3. CASE j \in 1 .. n /\ k = n + 1  BY <1>1, <1>2, <2>3
    <2> QED BY <1>5, <2>1, <2>2, <2>3
  <1>7. Of(r) = Of(q) \cup {new}
    <2>1. Of(r) = {r[k] : k \in 1 .. n + 1} /\ Of(q) = {q[k] : k \in 1 .. n}
      BY <1>2 DEF Of, n
    <2>2. n + 1 \in 1 .. n + 1 /\ \A k \in 1 .. n : k \in 1 .. n + 1  BY <1>1
    <2> QED BY <1>2, <1>5, <2>1, <2>2
  <1>8. r[1] = p2.dir  BY <1>1, <1>2
  <1>9. ASSUME p.flags = 3
        PROVE  p2.size = n + 1 /\ \A k \in 1 .. n + 1 : r[k] = p2.dir + (k - 1)
    <2>1. p2.size = n + 1  BY <1>1, <1>3, <1>9
    <2>2. n \in 1 .. n /\ new = q[n] + 1  BY <1>1, <1>9 DEF n
    <2>3. p.dir \in Nat /\ \A k \in 1 .. n : q[k] = p.dir + (k - 1)
      <3>1. 1 \in 1 .. n  BY <1>1
      <3> QED BY <1>1, <1>3, <1>9, <3>1
    <2>4. new = p.dir + n
      <3>1. q[n] = p.dir + (n - 1)  BY <2>2, <2>3
      <3> QED BY <1>1, <2>2, <2>3, <3>1
    <2>5. ASSUME NEW k \in 1 .. n + 1 PROVE r[k] = p2.dir + (k - 1)
      <3>1. CASE k \in 1 .. n  BY <1>2, <2>3, <3>1
      <3>2. CASE k = n + 1
        <4>1. (n + 1) - 1 = n  BY <1>1
        <4> QED BY <1>2, <2>4, <3>2, <4>1
      <3> QED BY <1>5, <3>1, <3>2
    <2> QED BY <2>1, <2>5
  <1>10. ASSUME p.flags = 1
         PROVE  /\ \A k \in 1 .. (n + 1) - 1 : w.fat[r[k]] = r[k + 1]
                /\ w.fat[r[n + 1]] = EOC
    <2>1. w.fat[r[n + 1]] = EOC  BY <1>2, <1>10
    <2>2. ASSUME NEW k \in 1 .. (n + 1) - 1 PROVE w.fat[r[k]] = r[k + 1]
      <3>1. k \in 1 .. n /\ r[k] = q[k] /\ q[k] \in Of(q)  BY <1>1, <1>2
      <3>2. CASE k = n  BY <1>2, <1>10, <3>1, <3>2 DEF n
      <3>3. CASE k # n
        <4>1. k \in 1 .. n - 1 /\ k + 1 \in 1 .. n /\ n \in 1 .. n  BY <1>1, <3>1, <3>3
        <4>2. q[k] # q[n]  BY <1>1, <3>1, <3>3, <4>1
        <4>3. w.fat[q[k]] = v.fat[q[k]]  BY <1>10, <3>1, <4>2 DEF n
        <4> QED BY <1>2, <1>4, <1>10, <3>1, <4>1, <4>3
      <3> QED BY <3>2, <3>3
    <2> QED BY <2>1, <2>2
  <1>11. Through(w, p2, r)
    <2>1. p2.flags \in {1, 3} /\ (p2.flags = 3 <=> p.flags = 3) /\ (p2.flags = 1 <=> p.flags = 1)
      BY <1>1
    <2>2. n + 1 > 0  BY <1>1
    <2> QED BY <1>2, <1>6, <1>8, <1>9, <1>10, <2>1, <2>2 DEF Through
  <1> QED BY <1>7, <1>11 DEF r


-----------------------------------------------------------------------------
(* Parts of a chain.                                                       *)

LEMMA PartIs ==
  ASSUME NEW q \in Seq(Clusters), NEW i \in 1 .. Len(q), NEW j \in 1 .. Len(q), i <= j
  PROVE  LET r == SubSeq(q, i, j)
         IN /\ r \in Seq(Clusters) /\ Len(r) = j - i + 1 /\ Len(r) \in Nat
            /\ \A k \in 1 .. Len(r) : r[k] = q[i + k - 1] /\ i + k - 1 \in i .. j
            /\ Of(r) = {q[k] : k \in i .. j} /\ Of(r) \subseteq Of(q)
  <1> DEFINE r == SubSeq(q, i, j)
             m == j - i + 1
  <1>1. Len(q) \in Nat /\ i \in Nat /\ j \in Nat /\ m \in Nat /\ m > 0
    BY LenProperties
  <1>2. \A k \in i .. j : q[k] \in Clusters
    <2> TAKE k \in i .. j
    <2>1. k \in 1 .. Len(q)  BY <1>1
    <2> QED BY <2>1, ElementOfSeq
  <1>3. /\ r \in Seq(Clusters) /\ Len(r) = m
        /\ \A k \in 1 .. m : r[k] = q[i + k - 1]
    BY <1>1, <1>2, SubSeqProperties
  <1> HIDE DEF r
  <1>4. \A k \in 1 .. m : i + k - 1 \in i .. j  BY <1>1
  <1>5. \A k \in i .. j : k - i + 1 \in 1 .. m /\ i + (k - i + 1) - 1 = k  BY <1>1
  <1>6. Of(r) = {q[k] : k \in i .. j}
    <2>1. Of(r) = {r[k] : k \in 1 .. m}  BY <1>3 DEF Of
    <2> HIDE DEF m
    <2>2. \A k \in i .. j : r[k - i + 1] = q[k] /\ k - i + 1 \in 1 .. m  BY <1>3, <1>5, Zenon
    <2>3. \A k \in 1 .. m : r[k] = q[i + k - 1] /\ i + k - 1 \in i .. j  BY <1>3, <1>4
    <2>4. ASSUME NEW x \in Of(r) PROVE x \in {q[k] : k \in i .. j}
      <3>1. PICK k \in 1 .. m : x = r[k]  BY <2>1
      <3> QED BY <2>3, <3>1
    <2>5. ASSUME NEW x \in {q[k] : k \in i .. j} PROVE x \in Of(r)
      <3>1. PICK k \in i .. j : x = q[k]  OBVIOUS
      <3> QED BY <2>1, <2>2, <3>1
    <2> QED BY <2>4, <2>5
  <1>7. Of(r) \subseteq Of(q)
    <2>1. \A k \in i .. j : k \in 1 .. Len(q)  BY <1>1
    <2> QED BY <1>6, <2>1 DEF Of
  <1> QED BY <1>1, <1>3, <1>4, <1>6, <1>7 DEF r

LEMMA PartsDiffer ==
  ASSUME NEW q \in Seq(Clusters), NEW k \in 1 .. Len(q) - 1,
         \A i, j \in 1 .. Len(q) : q[i] = q[j] => i = j
  PROVE  LET a == SubSeq(q, 1, k)
             b == SubSeq(q, k + 1, Len(q))
         IN Of(a) \cap Of(b) = {} /\ Of(a) \cup Of(b) = Of(q)
  <1> DEFINE n == Len(q)
  <1>1. n \in Nat /\ k \in 1 .. n /\ k + 1 \in 1 .. n /\ 1 \in 1 .. n /\ n \in 1 .. n
    BY LenProperties
  <1>2. Of(SubSeq(q, 1, k)) = {q[i] : i \in 1 .. k}  BY <1>1, PartIs
  <1>3. Of(SubSeq(q, k + 1, n)) = {q[i] : i \in k + 1 .. n}  BY <1>1, PartIs
  <1>4. \A i \in 1 .. k, j \in k + 1 .. n : i \in 1 .. n /\ j \in 1 .. n /\ i # j
    BY <1>1
  <1>5. \A i \in 1 .. n : i \in 1 .. k \/ i \in k + 1 .. n  BY <1>1
  <1>6. Of(q) = {q[i] : i \in 1 .. n}  BY DEF Of
  <1>7. {q[i] : i \in 1 .. k} \cap {q[i] : i \in k + 1 .. n} = {}
    <2> SUFFICES ASSUME NEW i \in 1 .. k, NEW j \in k + 1 .. n, q[i] = q[j] PROVE FALSE
      OBVIOUS
    <2> QED BY <1>4
  <1>8. {q[i] : i \in 1 .. k} \cup {q[i] : i \in k + 1 .. n} = {q[i] : i \in 1 .. n}
    BY <1>4, <1>5, <1>1
  <1> QED BY <1>2, <1>3, <1>6, <1>7, <1>8

(* The rest of a chain from its cluster k on.                              *)
LEMMA RestIsThrough ==
  ASSUME NEW v, NEW p, NEW q, Through(v, p, q), NEW k \in 1 .. Len(q), NEW p2,
         p2.dir = q[k], p2.flags = p.flags, p.flags = 3 => p2.size = Len(q) - k + 1
  PROVE  Through(v, p2, SubSeq(q, k, Len(q)))
  <1> DEFINE n == Len(q)
             m == n - k + 1
             r == SubSeq(q, k, n)
  <1>1. /\ q \in Seq(Clusters) /\ n \in Nat /\ n \in 1 .. n
        /\ \A i, j \in 1 .. n : q[i] = q[j] => i = j
        /\ p.flags \in {1, 3} /\ p.dir = q[1]
    BY SeqFacts DEF Through
  <1>2. n \in Nat /\ k \in Nat /\ k >= 1 /\ k <= n /\ m \in Nat /\ m > 0 /\ m - 1 \in Nat  BY <1>1
  <1>3. /\ r \in Seq(Clusters) /\ Len(r) = m
        /\ \A i \in 1 .. m : r[i] = q[k + i - 1] /\ k + i - 1 \in k .. n
    BY <1>1, <1>2, PartIs
  <1> HIDE DEF r, n
  <1>4. \A i, j \in 1 .. m : r[i] = r[j] => i = j
    <2> TAKE i, j \in 1 .. m
    <2>1. k + i - 1 \in 1 .. n /\ k + j - 1 \in 1 .. n /\ (k + i - 1 = k + j - 1 => i = j)
      BY <1>2
    <2> QED BY <1>1, <1>3, <2>1
  <1>5. p2.dir = r[1]
    <2>1. 1 \in 1 .. m /\ k + 1 - 1 = k  BY <1>2
    <2> QED BY <1>3, <2>1
  <1>6. ASSUME p.flags = 3 PROVE \A i \in 1 .. m : r[i] = p2.dir + (i - 1)
    <2>1. \A i \in 1 .. n : q[i] = p.dir + (i - 1)  BY <1>6 DEF Through, n
    <2>2. p.dir \in Nat
      <3>1. q[1] \in Clusters  BY <1>1, <1>2, SeqFacts DEF n
      <3> QED BY <1>1, <3>1, ClusterFacts, Zenon
    <2> TAKE i \in 1 .. m
    <2>3. k + i - 1 \in 1 .. n  BY <1>2
    <2>4. q[k + i - 1] = p.dir + ((k + i - 1) - 1) /\ p2.dir = p.dir + (k - 1)
      BY <2>1, <2>3, <1>2
    <2>5. p.dir + ((k + i - 1) - 1) = (p.dir + (k - 1)) + (i - 1)  BY <1>2, <2>2
    <2> QED BY <1>3, <2>4, <2>5
  <1>7. ASSUME p.flags = 1
        PROVE  (\A i \in 1 .. m - 1 : v.fat[r[i]] = r[i + 1]) /\ v.fat[r[m]] = EOC
    <2>1. (\A i \in 1 .. n - 1 : v.fat[q[i]] = q[i + 1]) /\ v.fat[q[n]] = EOC
      BY <1>7 DEF Through, n
    <2>2. ASSUME NEW i \in 1 .. m - 1 PROVE v.fat[r[i]] = r[i + 1]
      <3>1. /\ i \in 1 .. m /\ i + 1 \in 1 .. m /\ k + i - 1 \in 1 .. n - 1
            /\ (k + i - 1) + 1 = k + (i + 1) - 1
        BY <1>2
      <3> QED BY <1>3, <2>1, <3>1, Zenon
    <2>3. m \in 1 .. m /\ k + m - 1 = n  BY <1>1, <1>2
    <2>4. r[m] = q[n]  BY <1>3, <2>3
    <2> QED BY <2>1, <2>2, <2>4
  <1>8. p.flags = 3 => p2.size = m  BY DEF n
  <1> HIDE DEF m
  <1> QED BY <1>1, <1>2, <1>3, <1>4, <1>5, <1>6, <1>7, <1>8, Zenon DEF Through, r, n

(* The first k clusters of a chain, when the FAT ends it there.            *)
CutsAt(v, w, p, q, k, p2) ==
    /\ Through(v, p, q) /\ k \in 1 .. Len(q)
    /\ p2.dir = p.dir /\ p2.flags = p.flags
    /\ p.flags = 3 => p2.size = k
    /\ p.flags = 1 => /\ w.fat[q[k]] = EOC
                      /\ \A c \in Of(q) \ {q[k]} : w.fat[c] = v.fat[c]

LEMMA CutIsThrough ==
  ASSUME NEW v, NEW w, NEW p, NEW q, NEW k, NEW p2, CutsAt(v, w, p, q, k, p2)
  PROVE  Through(w, p2, SubSeq(q, 1, k))
  <1> USE DEF CutsAt
  <1> DEFINE n == Len(q)
             r == SubSeq(q, 1, k)
  <1>1. /\ q \in Seq(Clusters) /\ n \in Nat /\ 1 \in 1 .. n /\ k \in Nat /\ k > 0 /\ k <= n
        /\ \A i, j \in 1 .. n : q[i] = q[j] => i = j
        /\ p.flags \in {1, 3} /\ p.dir = q[1]
    BY SeqFacts DEF Through
  <1>2. /\ r \in Seq(Clusters) /\ Len(r) = k /\ \A i \in 1 .. k : r[i] = q[i]
    <2>1. /\ r \in Seq(Clusters) /\ Len(r) = k - 1 + 1
          /\ \A i \in 1 .. Len(r) : r[i] = q[1 + i - 1]
      BY <1>1, PartIs
    <2>2. k - 1 + 1 = k /\ \A i \in 1 .. k : 1 + i - 1 = i  BY <1>1
    <2> QED BY <2>1, <2>2
  <1> HIDE DEF r, n
  <1>3. \A i \in 1 .. k : i \in 1 .. n  BY <1>1
  <1>4. \A i, j \in 1 .. k : r[i] = r[j] => i = j  BY <1>1, <1>2, <1>3
  <1>5. p2.dir = r[1]
    <2>1. 1 \in 1 .. k  BY <1>1
    <2> QED BY <1>1, <1>2, <2>1
  <1>6. ASSUME p.flags = 3 PROVE \A i \in 1 .. k : r[i] = p2.dir + (i - 1)
    <2>1. \A i \in 1 .. n : q[i] = p.dir + (i - 1)  BY <1>6 DEF Through, n
    <2> QED BY <1>2, <1>3, <2>1, Zenon
  <1>7. ASSUME p.flags = 1
        PROVE  (\A i \in 1 .. k - 1 : w.fat[r[i]] = r[i + 1]) /\ w.fat[r[k]] = EOC
    <2>1. \A i \in 1 .. n - 1 : v.fat[q[i]] = q[i + 1]  BY <1>7 DEF Through, n
    <2>2. ASSUME NEW i \in 1 .. k - 1 PROVE w.fat[r[i]] = r[i + 1]
      <3>1. i \in 1 .. k /\ i + 1 \in 1 .. k /\ i \in 1 .. n - 1 /\ i # k /\ k \in 1 .. n
        BY <1>1
      <3>2. q[i] # q[k] /\ i \in 1 .. n  BY <1>1, <1>3, <3>1
      <3>3. q[i] \in Of(q) \ {q[k]}  BY <3>2 DEF Of, n
      <3>4. w.fat[q[i]] = v.fat[q[i]]  BY <1>7, <3>3
      <3> QED BY <1>2, <2>1, <3>1, <3>4
    <2>3. k \in 1 .. k  BY <1>1
    <2> QED BY <1>2, <1>7, <2>2, <2>3
  <1> QED BY <1>1, <1>2, <1>4, <1>5, <1>6, <1>7, Zenon DEF Through, r

-----------------------------------------------------------------------------
(* What one operation leaves of the chains that it is not about.           *)

\* Every chain through marked clusters, none of them in used, is still one.
OthersStay(v, w, used) ==
    \A p, q : Through(v, p, q) /\ Of(q) \subseteq v.bitmap \ used
              => Through(w, p, q) /\ Of(q) \subseteq w.bitmap

\* Only slots and hint may differ.
SameFat(v, w) == SameClusters(v, w) /\ w.srch = v.srch /\ DOMAIN w = DOMAIN v

LEMMA SameFatIs ==
  ASSUME NEW v, VolOK(v), NEW w, SameFat(v, w)
  PROVE  VolOK(w) /\ (Counted(v) => Counted(w)) /\ \A p, q : Through(v, p, q) => Through(w, p, q)
  <1>1. VolOK(w) /\ (Counted(v) => Counted(w))
    BY DEF SameFat, SameClusters, VolOK, FatOK, Counted
  <1>2. ASSUME NEW p, NEW q, Through(v, p, q) PROVE Through(w, p, q)
    <2>1. w.fat = v.fat  BY DEF SameFat, SameClusters
    <2> QED BY <1>2, <2>1 DEF Through
  <1> QED BY <1>1, <1>2

LEMMA OthersKept ==
  ASSUME NEW v, NEW w, NEW used, v.bitmap \ used \subseteq w.bitmap,
         \A c \in v.bitmap \ used : w.fat[c] = v.fat[c]
  PROVE  OthersStay(v, w, used)
  <1> SUFFICES ASSUME NEW p, NEW q, Through(v, p, q), Of(q) \subseteq v.bitmap \ used
               PROVE  Through(w, p, q) /\ Of(q) \subseteq w.bitmap
    BY DEF OthersStay
  <1>1. Len(q) \in Nat  BY LenProperties DEF Through
  <1>2. \A c \in Of(q) : w.fat[c] = v.fat[c]  OBVIOUS
  <1>3. Through(w, p, q)  BY <1>1, <1>2, ThroughStays
  <1> QED BY <1>3

LEMMA PutSlotsIs ==
  ASSUME NEW v, VolOK(v), NEW p, NEW e, NEW seq
  PROVE  SameFat(v, PutSlots(v, p, e, seq)) /\ VolOK(PutSlots(v, p, e, seq))
  <1>1. PICK s : PutSlots(v, p, e, seq) = [v EXCEPT !.slots = s]  BY Zenon DEF PutSlots
  <1>2. SameFat(v, [v EXCEPT !.slots = s])
    BY DEF VolOK, Fields, SameFat, SameClusters
  <1> QED BY <1>1, <1>2, SameFatIs

-----------------------------------------------------------------------------
(* Allocation.                                                             *)

(* exfat_alloc_cluster takes one cluster that was free, with its count, or *)
(* none; a cluster that may go on with a run is the one behind it; and no  *)
(* chain of a file or directory is touched.  It may fail on a volume that  *)
(* is not full, but only when all that is free lies in the one byte of the *)
(* bitmap where the search begins, below the bit it begins with, which     *)
(* test_alloc_bitmap masks out and does not come back to.                  *)
THEOREM AllocTakesAFreeCluster ==
  ASSUME NEW v, VolOK(v), NEW want \in Nat \cup {EOC}, want = EOC \/ want >= 2,
         NEW flags \in {1, 3}
  PROVE  LET a == AllocCluster(v, want, flags)
             from == IF want = EOC THEN v.srch ELSE IF want >= NumClusters THEN 2 ELSE want
         IN /\ Takes(v, want, flags, a) \/ TakesNone(v, flags, a)
            /\ Counted(v) => Counted(a.v)
            /\ OthersStay(v, a.v, {})
            /\ TakesNone(v, flags, a) =>
                 \A x \in Clusters \ v.bitmap : ByteOf(x) = ByteOf(from) /\ x < from
  <1> DEFINE a == AllocCluster(v, want, flags)
             from == IF want = EOC THEN v.srch ELSE IF want >= NumClusters THEN 2 ELSE want
             hint == IF want = EOC THEN TestAlloc(v, v.srch)
                     ELSE IF want >= NumClusters THEN 2 ELSE want
             new == TestAlloc(v, hint)
  <1>1. Takes(v, want, flags, a) \/ TakesNone(v, flags, a)  BY AllocIs
  <1>2. Counted(v) => Counted(a.v)  BY <1>1, AllocCounts
  <1>3. OthersStay(v, a.v, {})
    <2>1. CASE Takes(v, want, flags, a)
      <3>1. /\ v.bitmap \subseteq a.v.bitmap /\ a.clu \notin v.bitmap
            /\ \A c \in Clusters : c # a.clu => a.v.fat[c] = v.fat[c]
            /\ v.bitmap \subseteq Clusters
        BY <2>1 DEF Takes, VolOK, FatOK
      <3> HIDE DEF a
      <3> QED BY <3>1, OthersKept
    <2>2. CASE TakesNone(v, flags, a)
      <3>1. a.v.bitmap = v.bitmap /\ a.v.fat = v.fat  BY <2>2 DEF TakesNone, SameClusters
      <3> HIDE DEF a
      <3> QED BY <3>1, OthersKept
    <2> QED BY <1>1, <2>1, <2>2
  <1>4. ASSUME TakesNone(v, flags, a), NEW x \in Clusters \ v.bitmap
        PROVE  ByteOf(x) = ByteOf(from) /\ x < from
    <2>1. a.clu = EOC  BY <1>4 DEF TakesNone
    <2>2. from \in Clusters
      <3>1. 2 \in Clusters  BY ClusterFacts DEF Clusters
      <3>2. want # EOC /\ ~(want >= NumClusters) => want \in Clusters
        BY ClusterFacts DEF Clusters
      <3> QED BY <3>1, <3>2 DEF VolOK
    <2>3. TestAlloc(v, from) = EOC
      <3>1. a = AllocAt(v, want, flags, hint, new)  BY DEF AllocCluster
      <3>2. hint = EOC \/ new = EOC
        <4>1. hint # EOC /\ new # EOC => a.clu = new
          <5> HIDE DEF hint, new, a
          <5> QED BY <3>1 DEF AllocAt
        <4> QED BY <2>1, <4>1
      <3>3. CASE want # EOC
        <4>1. hint = from  BY <3>3
        <4> QED BY <2>2, <3>2, <4>1, ClusterFacts
      <3>4. CASE want = EOC
        <4>1. hint = TestAlloc(v, from)  BY <3>4
        <4>2. hint # EOC => hint \in Clusters \ v.bitmap
          BY <2>2, <4>1, TestAllocIs DEF SearchSpace
        <4>3. hint # EOC => new = hint  BY <4>2, TestAllocStays
        <4> QED BY <3>2, <4>1, <4>3
      <3> QED BY <3>3, <3>4
    <2>4. SearchSpace(v, from) = {}
      <3>1. EOC \notin SearchSpace(v, from)  BY ClusterFacts DEF SearchSpace
      <3> QED BY <2>2, <2>3, <3>1, TestAllocIs
    <2>5. ~(ByteOf(x) = ByteOf(from) => x >= from)  BY <2>4 DEF SearchSpace
    <2>6. x \in Nat /\ from \in Nat  BY <2>2, ClusterFacts, Zenon
    <2> HIDE DEF from
    <2> QED BY <2>5, <2>6
  <1> HIDE DEF a, from
  <1>5. /\ Takes(v, want, flags, a) \/ TakesNone(v, flags, a)
        /\ Counted(v) => Counted(a.v)
        /\ OthersStay(v, a.v, {})
        /\ TakesNone(v, flags, a) =>
             \A x \in Clusters \ v.bitmap : ByteOf(x) = ByteOf(from) /\ x < from
    BY <1>1, <1>2, <1>3, <1>4
  <1> QED BY <1>5 DEF a, from

-----------------------------------------------------------------------------
(* Directories that grow.                                                  *)

LEMMA RunEnd ==
  ASSUME NEW v, NEW p, NEW q, Through(v, p, q)
  PROVE  /\ q[Len(q)] \in Clusters /\ q[Len(q)] \in Of(q) /\ Len(q) \in Nat /\ Len(q) > 0
         /\ Of(q) \subseteq Clusters /\ p.dir \in Clusters
         /\ q[Len(q)] + 1 \in Nat /\ q[Len(q)] + 1 >= 2
  <1>1. q \in Seq(Clusters) /\ Len(q) > 0 /\ p.dir = q[1]  BY DEF Through
  <1>2. /\ Len(q) \in Nat /\ q[Len(q)] \in Clusters /\ Of(q) \subseteq Clusters
        /\ q[1] \in Clusters /\ Len(q) \in 1 .. Len(q)
    BY <1>1, SeqFacts
  <1>3. q[Len(q)] \in Of(q)  BY <1>2 DEF Of
  <1>4. q[Len(q)] \in Nat /\ q[Len(q)] >= 2  BY <1>2, ClusterFacts, Zenon
  <1> QED BY <1>1, <1>2, <1>3, <1>4

(* The FAT after a cluster was allocated behind a chain, the chain turned  *)
(* from a run into a FAT chain if the cluster is elsewhere, and linked: by *)
(* find_empty_entry and by ffsMapCluster alike.                            *)
ConvertedFrom(v, p, a, w) ==
    IF a.flags # p.flags
    THEN \E x : SameFat(v, x) /\ SameFat(ChainCont(x, p.dir, p.size), w)
    ELSE SameFat(v, w)

LinkedFrom(w, last, a, z) ==
    IF a.flags = 1 THEN SameFat([w EXCEPT !.fat[last] = a.clu], z) ELSE SameFat(w, z)

Grows(v, p, q, a, w, z, p2) ==
    /\ VolOK(v) /\ Through(v, p, q) /\ Of(q) \subseteq v.bitmap
    /\ Takes(v, q[Len(q)] + 1, p.flags, a) /\ Counted(a.v)
    /\ ConvertedFrom(a.v, p, a, w) /\ LinkedFrom(w, q[Len(q)], a, z)
    /\ p2.dir = p.dir /\ p2.flags = a.flags
    /\ a.flags = 3 => p2.size = p.size + 1

LEMMA GrownIs ==
  ASSUME NEW v, NEW p, NEW q, NEW a, NEW w, NEW z, NEW p2, Grows(v, p, q, a, w, z, p2)
  PROVE  /\ Through(z, p2, Append(q, a.clu)) /\ Of(Append(q, a.clu)) = Of(q) \cup {a.clu}
         /\ z.bitmap = v.bitmap \cup {a.clu} /\ VolOK(z) /\ Counted(z)
         /\ OthersStay(v, z, Of(q))
  <1> USE DEF Grows
  <1> DEFINE last == q[Len(q)]
             new == a.clu
  <1>1. /\ new \in Clusters \ v.bitmap /\ a.flags \in {1, 3} /\ p.flags \in {1, 3}
        /\ p.flags = 1 => a.flags = 1
        /\ a.v.bitmap = v.bitmap \cup {new} /\ VolOK(a.v)
        /\ \A c \in Clusters : c # new => a.v.fat[c] = v.fat[c]
        /\ a.flags = 1 => a.v.fat[new] = EOC
    BY DEF Takes, Through
  <1>2. /\ last \in Clusters /\ last \in Of(q) /\ Len(q) \in Nat /\ last + 1 # EOC
        /\ Of(q) \subseteq Clusters /\ new \notin Of(q)
    <2>1. last + 1 \in Nat  BY RunEnd
    <2> QED BY <1>1, <2>1, RunEnd DEF EOC
  <1>3. a.flags = 3 => new = last + 1  BY <1>2 DEF Takes
  <1> HIDE DEF last, new
  <1>4. Through(a.v, p, q)
    <2>1. \A c \in Of(q) : a.v.fat[c] = v.fat[c]  BY <1>1, <1>2
    <2> QED BY <1>2, <2>1, ThroughStays
  <1> DEFINE pm == [dir |-> p.dir, size |-> p.size, flags |-> a.flags]
  <1>5. /\ Through(w, pm, q) /\ VolOK(w) /\ Counted(w) /\ w.bitmap = a.v.bitmap
        /\ \A c \in Clusters \ Of(q) : w.fat[c] = a.v.fat[c]
    <2>1. CASE a.flags # p.flags
      <3>1. PICK x : SameFat(a.v, x) /\ SameFat(ChainCont(x, p.dir, p.size), w)
        BY <2>1 DEF ConvertedFrom
      <3>2. VolOK(x) /\ Through(x, p, q) /\ x.bitmap = a.v.bitmap /\ x.fat = a.v.fat
            /\ x.used = a.v.used
        <4>1. VolOK(x) /\ Through(x, p, q)  BY <1>1, <1>4, <3>1, SameFatIs
        <4> QED BY <3>1, <4>1 DEF SameFat, SameClusters
      <3>3. p.flags = 3 /\ a.flags = 1  BY <1>1, <2>1
      <3> DEFINE y == ChainCont(x, p.dir, p.size)
      <3>4. pm.dir = p.dir /\ pm.flags = 1  BY <3>3
      <3> HIDE DEF pm
      <3>5. /\ Through(y, pm, q) /\ \A c \in Clusters \ Of(q) : y.fat[c] = x.fat[c]
            /\ y.bitmap = x.bitmap /\ y.used = x.used /\ VolOK(y)
        BY <3>2, <3>3, <3>4, ConvertIs
      <3>6. SameFat(y, w)  BY <3>1
      <3> HIDE DEF y
      <3>7. VolOK(w) /\ Through(w, pm, q)  BY <3>5, <3>6, SameFatIs
      <3>8. w.bitmap = y.bitmap /\ w.fat = y.fat /\ w.used = y.used
        BY <3>6 DEF SameFat, SameClusters
      <3>9. Counted(w)  BY <3>2, <3>5, <3>8 DEF Counted
      <3> QED BY <3>2, <3>5, <3>7, <3>8, <3>9
    <2>2. CASE a.flags = p.flags
      <3>1. SameFat(a.v, w)  BY <2>2 DEF ConvertedFrom
      <3>2. VolOK(w) /\ Counted(w) /\ Through(w, p, q)  BY <1>1, <1>4, <3>1, SameFatIs
      <3>3. w.bitmap = a.v.bitmap /\ w.fat = a.v.fat  BY <3>1 DEF SameFat, SameClusters
      <3>4. pm.dir = p.dir /\ pm.size = p.size /\ pm.flags = p.flags  BY <2>2
      <3> HIDE DEF pm
      <3>5. Through(w, pm, q)  BY <3>2, <3>4 DEF Through
      <3> QED BY <3>2, <3>3, <3>5
    <2> QED BY <2>1, <2>2
  <1>6. /\ VolOK(z) /\ Counted(z) /\ z.bitmap = w.bitmap
        /\ \A c \in Clusters : c # last => z.fat[c] = w.fat[c]
        /\ a.flags = 1 => z.fat[last] = new
        /\ a.flags = 3 => z.fat = w.fat
    <2>1. CASE a.flags = 1
      <3> DEFINE y == [w EXCEPT !.fat[last] = new]
      <3>1. SameFat(y, z)  BY <2>1 DEF LinkedFrom, last, new
      <3>2. /\ y.fat = [w.fat EXCEPT ![last] = new] /\ y.bitmap = w.bitmap /\ y.used = w.used
            /\ y.srch = w.srch /\ DOMAIN y = DOMAIN w
        BY <1>5 DEF VolOK, Fields
      <3> HIDE DEF y
      <3>3. y.fat \in [Clusters -> Clusters \cup {Nil, EOC}] /\ y.fat[last] = new
            /\ \A c \in Clusters : c # last => y.fat[c] = w.fat[c]
        BY <1>1, <1>2, <1>5, <3>2 DEF VolOK, FatOK
      <3>4. VolOK(y) /\ Counted(y)  BY <1>5, <3>2, <3>3 DEF VolOK, FatOK, Counted
      <3>5. VolOK(z) /\ Counted(z)  BY <3>1, <3>4, SameFatIs
      <3>6. z.bitmap = y.bitmap /\ z.fat = y.fat  BY <3>1 DEF SameFat, SameClusters
      <3> QED BY <2>1, <3>2, <3>3, <3>5, <3>6
    <2>2. CASE a.flags = 3
      <3>1. SameFat(w, z)  BY <2>2 DEF LinkedFrom
      <3>2. VolOK(z) /\ Counted(z)  BY <1>5, <3>1, SameFatIs
      <3>3. z.bitmap = w.bitmap /\ z.fat = w.fat  BY <3>1 DEF SameFat, SameClusters
      <3> QED BY <2>2, <3>2, <3>3
    <2> QED BY <1>1, <2>1, <2>2
  <1>7. Through(z, p2, Append(q, new)) /\ Of(Append(q, new)) = Of(q) \cup {new}
    <2>1. p2.dir = pm.dir /\ p2.flags = pm.flags /\ pm.flags = a.flags /\ pm.size = p.size
      OBVIOUS
    <2> HIDE DEF pm
    <2>2. pm.flags = 3 => p2.size = pm.size + 1 /\ new = last + 1  BY <1>3, <2>1
    <2>3. ASSUME pm.flags = 1
          PROVE  /\ \A c \in Of(q) : c # last => z.fat[c] = w.fat[c]
                 /\ z.fat[last] = new /\ z.fat[new] = EOC
      <3>1. new \in Clusters \ Of(q) /\ new # last  BY <1>1, <1>2
      <3>2. z.fat[new] = EOC  BY <1>1, <1>5, <1>6, <2>1, <2>3, <3>1
      <3> QED BY <1>2, <1>6, <2>1, <2>3, <3>2
    <2>4. new \in Clusters \ Of(q)  BY <1>1, <1>2
    <2>5. p2.dir = pm.dir /\ p2.flags = pm.flags /\ VolOK(w) /\ Through(w, pm, q)
      BY <1>5, <2>1
    <2>6. pm.flags = 3 => p2.size = pm.size + 1 /\ new = q[Len(q)] + 1
      BY <2>2 DEF last
    <2>7. pm.flags = 1 => /\ \A c \in Of(q) : c # q[Len(q)] => z.fat[c] = w.fat[c]
                          /\ z.fat[q[Len(q)]] = new /\ z.fat[new] = EOC
      BY <2>3 DEF last
    <2>8. Joins(w, z, pm, q, new, p2)  BY <1>5, <2>4, <2>5, <2>6, <2>7 DEF Joins
    <2> QED BY <2>8, JoinIs
  <1>8. OthersStay(v, z, Of(q))
    <2>1. v.bitmap \subseteq z.bitmap  BY <1>1, <1>5, <1>6
    <2>2. ASSUME NEW c \in v.bitmap \ Of(q) PROVE z.fat[c] = v.fat[c]
      <3>1. c \in Clusters /\ c # new /\ c # last  BY <1>1, <1>2 DEF VolOK, FatOK
      <3> QED BY <1>1, <1>5, <1>6, <3>1
    <2> QED BY <2>1, <2>2, OthersKept
  <1> QED BY <1>1, <1>5, <1>6, <1>7, <1>8 DEF new

LEMMA SameFatTrans ==
  ASSUME NEW v, NEW w, NEW x, SameFat(v, w), SameFat(w, x)
  PROVE  SameFat(v, x)
  BY DEF SameFat, SameClusters

LEMMA SlotsAndHint ==
  ASSUME NEW v, Fields \subseteq DOMAIN v, NEW s
  PROVE  /\ SameFat(v, [v EXCEPT !.slots = s]) /\ SameFat(v, [v EXCEPT !.hint = s])
         /\ SameFat(v, v)
  BY DEF Fields, SameFat, SameClusters

(* The growing branch of find_empty_entry: a directory whose chain goes    *)
(* through q goes through q and one more cluster afterwards, which was     *)
(* free, also when the cluster is not behind the last one and the run is   *)
(* written into the FAT for it (exfat_chain_cont_cluster); the other       *)
(* chains stay what they are, and the count of used clusters stays right.  *)
(* When nothing can be allocated nothing has changed.                      *)
THEOREM DirectoryGrowsByOne ==
  ASSUME NEW v, VolOK(v), Counted(v), NEW p, NEW q, Through(v, p, q),
         Of(q) \subseteq v.bitmap, NEW ino, NEW d
  PROVE  LET g == Grow(v, ino, d, p)
         IN /\ g.ok =>
                 /\ \E new \in Clusters \ v.bitmap :
                       /\ Through(g.v, g.p, Append(q, new))
                       /\ Of(Append(q, new)) = Of(q) \cup {new}
                       /\ g.v.bitmap = v.bitmap \cup {new}
                 /\ g.p.dir = p.dir /\ g.p.size = p.size + 1 /\ (p.flags = 1 => g.p.flags = 1)
                 /\ g.ino = [ino EXCEPT ![d].size = @ + 1, ![d].flags = g.p.flags]
            /\ ~g.ok => SameClusters(v, g.v) /\ g.ino = ino /\ g.p = p
            /\ g.ok \in BOOLEAN /\ VolOK(g.v) /\ Counted(g.v) /\ OthersStay(v, g.v, Of(q))
  <1> DEFINE last == LastCluster(v, p)
             a == AllocCluster(v, last + 1, p.flags)
             g == GrowBy(a, v, ino, d, p)
  <1>1. Grow(v, ino, d, p) = g  BY DEF Grow
  <1>2. last = q[Len(q)]  BY ChainIs DEF VolOK
  <1>3. /\ Takes(v, last + 1, p.flags, a) \/ TakesNone(v, p.flags, a)
        /\ Counted(a.v) /\ OthersStay(v, a.v, {})
    <2>0. q[Len(q)] + 1 \in Nat /\ q[Len(q)] + 1 >= 2  BY RunEnd
    <2> HIDE DEF last
    <2>1. last + 1 \in Nat /\ last + 1 >= 2 /\ p.flags \in {1, 3}
      BY <1>2, <2>0 DEF Through
    <2> QED BY <2>1, AllocTakesAFreeCluster
  <1> HIDE DEF a
  <1>4. CASE TakesNone(v, p.flags, a)
    <2>1. a.clu = EOC /\ SameClusters(v, a.v) /\ VolOK(a.v)  BY <1>4 DEF TakesNone
    <2>2. g = [ok |-> FALSE, v |-> a.v, ino |-> ino, p |-> p]  BY <2>1 DEF GrowBy
    <2>3. OthersStay(v, a.v, Of(q))  BY <1>3 DEF OthersStay
    <2>4. g.ok = FALSE /\ g.v = a.v /\ g.ino = ino /\ g.p = p  BY <2>2
    <2> HIDE DEF g
    <2> QED BY <1>1, <1>3, <2>1, <2>3, <2>4, Zenon
  <1>5. CASE Takes(v, last + 1, p.flags, a)
    <2>1. a.clu \in Clusters \ v.bitmap /\ VolOK(a.v) /\ a.flags \in {1, 3}
          /\ (p.flags = 1 => a.flags = 1) /\ p.flags \in {1, 3}
      BY <1>5 DEF Takes, Through
    <2> DEFINE r == Chain(p.dir, p.size + 1, a.flags)
               cleared == [a.v EXCEPT !.slots = Over(Block({a.clu}, Unused), @)]
               chained == IF a.flags # p.flags
                          THEN [ChainCont(cleared, p.dir, p.size) EXCEPT !.hint.clu.flags = 1]
                          ELSE cleared
               linked == IF a.flags = 1 THEN [chained EXCEPT !.fat[last] = a.clu] ELSE chained
               Longer(h) == IF h.entry = -1
                            THEN [dir |-> p.dir, entry |-> p.size * SlotsPerClu,
                                  clu |-> Chain(a.clu, 1, a.flags)]
                            ELSE [h EXCEPT !.clu.size = h.clu.size + 1]
               hinted == [linked EXCEPT !.hint = Longer(linked.hint)]
               f == ino[d]
               head == Slot(hinted, f.dir, f.entry)
               told == IF p.dir = RootClu THEN hinted
                       ELSE PutSlots(hinted, f.dir, f.entry,
                              <<[head EXCEPT !.size = f.size + 1, !.flags = r.flags]>>)
    <2>2. a.clu # EOC  BY <2>1, ClusterFacts
    <2>3. /\ g.ok = TRUE /\ g.p = r /\ g.v = told
          /\ g.ino = [ino EXCEPT ![d].size = @ + 1, ![d].flags = r.flags]
      BY <2>2 DEF GrowBy
    <2>4. r.dir = p.dir /\ r.size = p.size + 1 /\ r.flags = a.flags  BY DEF Chain
    <2> HIDE DEF g, r
    <2>5. SameFat(a.v, cleared)  BY <2>1, SlotsAndHint, Zenon DEF VolOK
    <2> HIDE DEF cleared
    <2>6. ConvertedFrom(a.v, p, a, chained) /\ Fields \subseteq DOMAIN chained
      <3>1. Fields \subseteq DOMAIN cleared  BY <2>1, <2>5 DEF VolOK, SameFat
      <3> DEFINE x == ChainCont(cleared, p.dir, p.size)
      <3>2. Fields \subseteq DOMAIN x
        <4>1. x = cleared \/ \E m : x = [cleared EXCEPT !.fat = m]  BY Zenon DEF ChainCont
        <4> QED BY <3>1, <4>1, Zenon
      <3>3. \E h : [x EXCEPT !.hint.clu.flags = 1] = [x EXCEPT !.hint = h]
        OBVIOUS
      <3> HIDE DEF x
      <3>4. SameFat(x, [x EXCEPT !.hint.clu.flags = 1])
        BY <3>2, <3>3, SlotsAndHint, Zenon
      <3>5. CASE a.flags # p.flags
        <4>1. chained = [x EXCEPT !.hint.clu.flags = 1]  BY <3>5 DEF x
        <4> HIDE DEF chained
        <4>2. SameFat(x, chained)  BY <3>4, <4>1
        <4>3. Fields \subseteq DOMAIN chained  BY <3>2, <4>2 DEF SameFat
        <4> QED BY <2>5, <3>5, <4>2, <4>3 DEF ConvertedFrom, x
      <3>6. CASE a.flags = p.flags
        <4>1. chained = cleared  BY <3>6
        <4> HIDE DEF chained
        <4> QED BY <2>5, <3>1, <3>6, <4>1 DEF ConvertedFrom
      <3> QED BY <3>5, <3>6
    <2> HIDE DEF chained
    <2>7. Fields \subseteq DOMAIN linked
      BY <2>6
    <2> DEFINE link == [chained EXCEPT !.fat[last] = a.clu]
    <2>8. linked = IF a.flags = 1 THEN link ELSE chained  OBVIOUS
    <2> HIDE DEF linked
    <2>9. SameFat(linked, hinted) /\ Fields \subseteq DOMAIN hinted
      <3>1. \E h : hinted = [linked EXCEPT !.hint = h]  BY Zenon
      <3> HIDE DEF hinted
      <3>2. SameFat(linked, hinted)  BY <2>7, <3>1, SlotsAndHint, ZenonT(60)
      <3> QED BY <2>7, <3>2 DEF SameFat
    <2> HIDE DEF hinted
    <2>10. SameFat(hinted, told)
      <3>1. told = hinted \/ \E s : told = [hinted EXCEPT !.slots = s]  BY Zenon DEF PutSlots
      <3> HIDE DEF told
      <3>2. CASE told = hinted  BY <2>9, <3>2, SlotsAndHint, Zenon
      <3>3. CASE told # hinted
        <4>1. PICK s : told = [hinted EXCEPT !.slots = s]  BY <3>1, <3>3
        <4>2. SameFat(hinted, [hinted EXCEPT !.slots = s])  BY <2>9, SlotsAndHint, Zenon
        <4> QED BY <4>1, <4>2
      <3> QED BY <3>2, <3>3
    <2> HIDE DEF told
    <2>11. SameFat(linked, told)  BY <2>9, <2>10, SameFatTrans
    <2>12. LinkedFrom(chained, last, a, told)  BY <2>8, <2>11 DEF LinkedFrom
    <2>13. /\ Through(told, r, Append(q, a.clu)) /\ Of(Append(q, a.clu)) = Of(q) \cup {a.clu}
           /\ told.bitmap = v.bitmap \cup {a.clu} /\ VolOK(told) /\ Counted(told)
           /\ OthersStay(v, told, Of(q))
      <3> HIDE DEF last
      <3>1. Takes(v, q[Len(q)] + 1, p.flags, a) /\ LinkedFrom(chained, q[Len(q)], a, told)
            /\ Counted(a.v) /\ ConvertedFrom(a.v, p, a, chained)
        BY <1>2, <1>3, <1>5, <2>6, <2>12
      <3>2. a.flags = 3 => r.size = p.size + 1  BY <2>4
      <3>3. Grows(v, p, q, a, chained, told, r)  BY <2>4, <3>1, <3>2 DEF Grows
      <3> QED BY <3>3, GrownIs
    <2> QED BY <1>1, <2>1, <2>3, <2>4, <2>13, Zenon
  <1> QED BY <1>3, <1>4, <1>5

-----------------------------------------------------------------------------
(* Files that are read and written.                                        *)

FileFields == {"flags", "start", "size", "hoff", "hclu"}
FileOK(f) == FileFields \subseteq DOMAIN f /\ f.hoff \in Int /\ f.size \in Nat

(* Walking the FAT from a cluster in the middle.                           *)
LEMMA NthFrom ==
  ASSUME NEW v, VolOK(v), NEW p, NEW q, Through(v, p, q), p.flags = 1,
         NEW h \in 0 .. Len(q) - 1, NEW p2, p2.dir = q[h + 1], p2.flags = 1
  PROVE  /\ \A k \in h .. Len(q) - 1 : NthCluster(v, p2, k - h) = q[k + 1]
         /\ NthCluster(v, p2, Len(q) - h) = EOC
  <1> DEFINE n == Len(q)
             r == SubSeq(q, h + 1, n)
  <1>1. /\ q \in Seq(Clusters) /\ n \in Nat /\ n \in 1 .. n /\ h \in Nat /\ h + 1 \in 1 .. n
        /\ n - h \in Nat
    BY SeqFacts DEF Through
  <1>2. Through(v, p2, r)
    <2>1. p2.flags = p.flags /\ p.flags # 3  OBVIOUS
    <2> QED BY <1>1, <2>1, RestIsThrough
  <1>3. /\ Len(r) = n - h
        /\ \A i \in 1 .. Len(r) : r[i] = q[h + 1 + i - 1]
    <2>1. /\ Len(r) = n - (h + 1) + 1 /\ \A i \in 1 .. Len(r) : r[i] = q[(h + 1) + i - 1]
      BY <1>1, PartIs
    <2> QED BY <1>1, <2>1
  <1> HIDE DEF r, n
  <1>4. /\ \A k \in 0 .. Len(r) - 1 : NthCluster(v, p2, k) = r[k + 1]
        /\ NthCluster(v, p2, Len(r)) = EOC
    BY <1>2, NthThrough DEF VolOK
  <1>5. ASSUME NEW k \in h .. n - 1 PROVE NthCluster(v, p2, k - h) = q[k + 1]
    <2>1. k - h \in 0 .. Len(r) - 1 /\ (k - h) + 1 \in 1 .. Len(r)
          /\ h + 1 + ((k - h) + 1) - 1 = k + 1
      BY <1>1, <1>3
    <2>2. NthCluster(v, p2, k - h) = r[(k - h) + 1]  BY <1>4, <2>1
    <2>3. r[(k - h) + 1] = q[k + 1]  BY <1>3, <2>1, SMTT(60)
    <2> QED BY <2>2, <2>3
  <1> QED BY <1>3, <1>4, <1>5 DEF n

(* The search of ffsMapCluster, with or without a hint.                    *)
MapHinted(f, off) == off > 0 /\ f.hoff > 0 /\ off >= f.hoff
MapFrom(f, off) == Chain(IF MapHinted(f, off) THEN f.hclu ELSE f.start, 0, 1)
MapSteps(f, off) == IF MapHinted(f, off) THEN off - f.hoff ELSE off
MapClu(v, f, off) ==
    IF f.start = EOC \/ (f.flags = 3 /\ off > 0 /\ off = f.size) THEN EOC
    ELSE IF f.flags = 3 THEN f.start + off
    ELSE NthCluster(v, MapFrom(f, off), MapSteps(f, off))
MapLast(v, f, off) ==
    IF f.start = EOC THEN EOC
    ELSE IF f.flags = 3 THEN f.start + off - 1
    ELSE NthCluster(v, MapFrom(f, off), MapSteps(f, off) - 1)

LEMMA MapClusterIs ==
  ASSUME NEW v, NEW f, NEW off
  PROVE  LET l == MapLast(v, f, off)
         IN MapCluster(v, f, off) =
              MapTo(MapClu(v, f, off), l,
                    AllocCluster(v, IF l = EOC THEN EOC ELSE l + 1, f.flags), v, f, off)
  BY DEF MapCluster, MapClu, MapLast, MapFrom, MapSteps, MapHinted

LEMMA MapSearch ==
  ASSUME NEW v, VolOK(v), NEW f, FileOK(f), NEW q, Through(v, ChainOf(f), q), HintOK(f, q),
         NEW off \in 0 .. Len(q)
  PROVE  /\ off < Len(q) => MapClu(v, f, off) = q[off + 1] /\ q[off + 1] \in Clusters
         /\ off = Len(q) => MapClu(v, f, off) = EOC /\ MapLast(v, f, off) = q[Len(q)]
  <1> DEFINE n == Len(q)
             p == ChainOf(f)
  <1>1. /\ p.dir = f.start /\ p.size = f.size /\ p.flags = f.flags
    BY DEF ChainOf, Chain
  <1> HIDE DEF p
  <1>2. /\ q \in Seq(Clusters) /\ n \in Nat /\ n > 0 /\ f.start = q[1] /\ f.flags \in {1, 3}
        /\ off \in Nat /\ off <= n /\ f.hoff \in Int /\ f.start \in Clusters /\ f.start # EOC
        /\ f.start \in Nat
    <2>1. q \in Seq(Clusters) /\ Len(q) > 0 /\ p.dir = q[1] /\ p.flags \in {1, 3}
      BY DEF Through, p
    <2>2. p.dir \in Clusters /\ Len(q) \in Nat  BY RunEnd DEF p
    <2>3. f.start \in Clusters /\ f.start # EOC /\ f.start \in Nat
      BY <1>1, <2>2, ClusterFacts, Zenon
    <2> QED BY <1>1, <2>1, <2>2, <2>3 DEF FileOK
  <1>3. off < n => q[off + 1] \in Clusters
    <2>1. off < n => off + 1 \in 1 .. n  BY <1>2
    <2> QED BY <1>2, <2>1, SeqFacts
  <1>4. CASE f.flags = 3
    <2>1. f.size = n /\ \A k \in 1 .. n : q[k] = f.start + (k - 1)
      BY <1>1, <1>4 DEF Through, p
    <2>2. ASSUME off < n PROVE MapClu(v, f, off) = q[off + 1]
      <3>1. off + 1 \in 1 .. n /\ (off + 1) - 1 = off  BY <1>2, <2>2
      <3>2. q[off + 1] = f.start + off  BY <2>1, <3>1
      <3>3. off # f.size  BY <1>2, <2>1, <2>2
      <3> QED BY <1>2, <1>4, <3>2, <3>3 DEF MapClu
    <2>3. ASSUME off = n PROVE MapClu(v, f, off) = EOC /\ MapLast(v, f, off) = q[n]
      <3>1. n \in 1 .. n  BY <1>2
      <3>2. q[n] = f.start + (n - 1)  BY <2>1, <3>1
      <3>3. f.start + (n - 1) = f.start + n - 1  BY <1>2
      <3> QED BY <1>2, <1>4, <2>1, <2>3, <3>2, <3>3 DEF MapClu, MapLast
    <2> QED BY <1>3, <2>2, <2>3 DEF n
  <1>5. CASE f.flags = 1
    <2> DEFINE h == IF MapHinted(f, off) THEN f.hoff ELSE 0
               p2 == MapFrom(f, off)
    <2>1. h \in 0 .. n - 1 /\ h <= off /\ MapSteps(f, off) = off - h
      BY <1>2 DEF MapHinted, MapSteps, HintOK, n
    <2>2. p2.dir = q[h + 1] /\ p2.flags = 1
      BY <1>2 DEF MapHinted, MapFrom, Chain, HintOK
    <2> HIDE DEF h, p2
    <2>3. /\ \A k \in h .. n - 1 : NthCluster(v, p2, k - h) = q[k + 1]
          /\ NthCluster(v, p2, n - h) = EOC
      BY <1>1, <1>5, <2>1, <2>2, NthFrom DEF n, p
    <2>4. /\ MapClu(v, f, off) = NthCluster(v, p2, off - h)
          /\ MapLast(v, f, off) = NthCluster(v, p2, (off - h) - 1)
      BY <1>2, <1>5, <2>1 DEF MapClu, MapLast, p2
    <2>5. ASSUME off < n PROVE MapClu(v, f, off) = q[off + 1]
      <3>1. off \in h .. n - 1  BY <1>2, <2>1, <2>5
      <3> QED BY <2>3, <2>4, <3>1
    <2>6. ASSUME off = n PROVE MapClu(v, f, off) = EOC /\ MapLast(v, f, off) = q[n]
      <3>1. n - 1 \in h .. n - 1 /\ (n - 1) - h = (n - h) - 1 /\ (n - 1) + 1 = n
        BY <1>2, <2>1
      <3>2. NthCluster(v, p2, (n - h) - 1) = q[n]  BY <2>3, <3>1
      <3> QED BY <2>3, <2>4, <2>6, <3>2
    <2> QED BY <1>3, <2>5, <2>6 DEF n
  <1> QED BY <1>2, <1>4, <1>5

(* ffsMapCluster behind the end of a file, or of a file without clusters:  *)
(* the part after the search.                                              *)
MapArgs(f, a) == FileOK(f) /\ a.clu # EOC /\ Fields \subseteq DOMAIN a.v

MapConv(f, a, last) == last # EOC /\ a.flags # f.flags
MapKind(f, a, last) ==
    IF MapConv(f, a, last) \/ (last = EOC /\ a.flags = 1) THEN 1 ELSE f.flags
MapStart(f, a, last) == IF last = EOC THEN a.clu ELSE f.start
MapRun(f, a, last) ==
    IF MapConv(f, a, last) THEN ChainCont(a.v, f.start, f.size) ELSE a.v
MapVol(f, a, last) ==
    IF last # EOC /\ a.flags = 1 THEN [MapRun(f, a, last) EXCEPT !.fat[last] = a.clu]
    ELSE MapRun(f, a, last)

LEMMA MapToIs ==
  ASSUME NEW v, NEW f, NEW a, NEW last, NEW off, MapArgs(f, a)
  PROVE  LET m == MapTo(EOC, last, a, v, f, off)
         IN /\ SameFat(MapVol(f, a, last), m.v) /\ m.f.start = MapStart(f, a, last)
            /\ m.f.flags = MapKind(f, a, last) /\ m.f.size = f.size
            /\ m.ok => m.f.hoff = off /\ m.f.hclu = a.clu
            /\ ~m.ok => m.f.hoff = f.hoff /\ m.f.hclu = f.hclu
            /\ m.ok \in BOOLEAN
  <1> USE DEF MapArgs
  <1> DEFINE m == MapTo(EOC, last, a, v, f, off)
             conv == last # EOC /\ a.flags # f.flags
             kind == IF conv \/ (last = EOC /\ a.flags = 1) THEN 1 ELSE f.flags
             first == IF last = EOC THEN a.clu ELSE f.start
             w1 == IF conv THEN ChainCont(a.v, f.start, f.size) ELSE a.v
             w2 == IF last # EOC /\ a.flags = 1 THEN [w1 EXCEPT !.fat[last] = a.clu] ELSE w1
             g == [f EXCEPT !.flags = kind, !.start = first]
             head == Slot(w2, f.dir, f.entry)
             w3 == IF last = EOC \/ conv
                   THEN PutSlots(w2, f.dir, f.entry,
                                 <<[head EXCEPT !.flags = g.flags, !.clu = g.start]>>)
                   ELSE w2
             h == [g EXCEPT !.hoff = off, !.hclu = a.clu]
  <1>1. m = IF ~EntrySet(w2, f.dir, f.entry)
            THEN [ok |-> FALSE, v |-> w2, f |-> g, wrote |-> FALSE]
            ELSE [ok |-> TRUE, v |-> w3, f |-> h, wrote |-> last = EOC \/ conv]
    BY DEF MapTo
  <1>2. Fields \subseteq DOMAIN w2
    <2>1. w1 = a.v \/ \E x : w1 = [a.v EXCEPT !.fat = x]  BY Zenon DEF ChainCont
    <2> HIDE DEF w1
    <2>2. Fields \subseteq DOMAIN w1  BY <2>1
    <2> QED BY <2>2
  <1> HIDE DEF w2
  <1>3. SameFat(w2, w2) /\ SameFat(w2, w3)
    <2>1. w3 = w2 \/ \E s : w3 = [w2 EXCEPT !.slots = s]  BY Zenon DEF PutSlots
    <2> HIDE DEF w3
    <2>2. CASE w3 = w2  BY <1>2, <2>2, SlotsAndHint, Zenon
    <2>3. CASE w3 # w2
      <3>1. PICK s : w3 = [w2 EXCEPT !.slots = s]  BY <2>1, <2>3
      <3>2. SameFat(w2, [w2 EXCEPT !.slots = s]) /\ SameFat(w2, w2)  BY <1>2, SlotsAndHint, Zenon
      <3> QED BY <3>1, <3>2
    <2> QED BY <2>2, <2>3
  <1> HIDE DEF w3, conv, kind, first
  <1>4. /\ g.flags = kind /\ g.start = first /\ g.size = f.size /\ g.hoff = f.hoff
        /\ g.hclu = f.hclu /\ DOMAIN g = DOMAIN f
    BY DEF FileOK, FileFields
  <1> HIDE DEF g
  <1>5. /\ h.flags = kind /\ h.start = first /\ h.size = f.size /\ h.hoff = off
        /\ h.hclu = a.clu
    BY <1>4 DEF FileOK, FileFields
  <1> HIDE DEF h
  <1>6. CASE ~EntrySet(w2, f.dir, f.entry)
    <2>1. m.ok = FALSE /\ m.v = w2 /\ m.f = g  BY <1>1, <1>6
    <2> HIDE DEF m
    <2> QED BY <1>3, <1>4, <2>1, Zenon DEF w2, w1, conv, kind, first, m,
                             MapConv, MapKind, MapStart, MapRun, MapVol
  <1>7. CASE EntrySet(w2, f.dir, f.entry)
    <2>1. m.ok = TRUE /\ m.v = w3 /\ m.f = h  BY <1>1, <1>7
    <2> HIDE DEF m
    <2> QED BY <1>3, <1>5, <2>1, Zenon DEF w2, w1, conv, kind, first, m,
                             MapConv, MapKind, MapStart, MapRun, MapVol
  <1> QED BY <1>6, <1>7

(* ffsMapCluster within a file finds the cluster at the offset, whatever   *)
(* the inode remembers of an earlier call (hint_last_off, hint_last_clu),  *)
(* and changes nothing.                                                    *)
THEOREM MapFindsTheCluster ==
  ASSUME NEW v, VolOK(v), NEW f, FileOK(f), NEW q, Through(v, ChainOf(f), q), HintOK(f, q),
         NEW off \in 0 .. Len(q) - 1
  PROVE  LET m == MapCluster(v, f, off)
         IN /\ m.ok /\ m.v = v /\ m.f.hclu = q[off + 1]
            /\ m.f.start = f.start /\ m.f.size = f.size /\ m.f.flags = f.flags
            /\ HintOK(m.f, q)
  <1> DEFINE m == MapCluster(v, f, off)
             l == MapLast(v, f, off)
             a == AllocCluster(v, IF l = EOC THEN EOC ELSE l + 1, f.flags)
             c == q[off + 1]
  <1>1. Len(q) \in Nat /\ off \in 0 .. Len(q) /\ off < Len(q)  BY RunEnd
  <1>2. MapClu(v, f, off) = c /\ c # EOC
    BY <1>1, MapSearch, ClusterFacts
  <1>3. m = MapTo(c, l, a, v, f, off)  BY <1>2, MapClusterIs
  <1> HIDE DEF a, l, c
  <1>4. m = [ok |-> TRUE, v |-> v, f |-> [f EXCEPT !.hoff = off, !.hclu = c], wrote |-> FALSE]
    BY <1>2, <1>3 DEF MapTo
  <1> DEFINE g == [f EXCEPT !.hoff = off, !.hclu = c]
  <1>5. /\ g.hoff = off /\ g.hclu = c /\ g.start = f.start /\ g.size = f.size
        /\ g.flags = f.flags
    BY DEF FileOK, FileFields
  <1>6. m.ok = TRUE /\ m.v = v /\ m.f = g  BY <1>4
  <1> HIDE DEF m, g
  <1>7. HintOK(m.f, q)  BY <1>1, <1>5, <1>6 DEF HintOK, c
  <1> QED BY <1>5, <1>6, <1>7 DEF m, c

(* ffsMapCluster at the end of a file gives it one cluster more, that was  *)
(* free, behind those it has, also when its run has to become a FAT chain; *)
(* or nothing changes.  So it is even when the file's entry is not found   *)
(* any more and the call fails after all: what it reports is then a file   *)
(* that is longer than its size, and still no chain of anybody is broken.  *)
THEOREM FileGrowsByOne ==
  ASSUME NEW v, VolOK(v), Counted(v), NEW f, FileOK(f), NEW q, Through(v, ChainOf(f), q),
         Of(q) \subseteq v.bitmap, HintOK(f, q)
  PROVE  LET m == MapCluster(v, f, Len(q))
         IN /\ \/ /\ ~m.ok /\ m.f = f /\ SameClusters(v, m.v)
               \/ \E new \in Clusters \ v.bitmap :
                    /\ Through(m.v, Chain(m.f.start, f.size + 1, m.f.flags), Append(q, new))
                    /\ Of(Append(q, new)) = Of(q) \cup {new}
                    /\ m.v.bitmap = v.bitmap \cup {new}
                    /\ m.f.start = f.start /\ m.f.size = f.size
                    /\ m.ok => m.f.hclu = new
                    /\ HintOK(m.f, Append(q, new))
            /\ VolOK(m.v) /\ Counted(m.v) /\ OthersStay(v, m.v, Of(q))
  <1> DEFINE n == Len(q)
             p == ChainOf(f)
             m == MapCluster(v, f, n)
             last == q[n]
             a == AllocCluster(v, last + 1, f.flags)
  <1>1. /\ p.dir = f.start /\ p.size = f.size /\ p.flags = f.flags
    BY DEF ChainOf, Chain
  <1>2. /\ n \in Nat /\ n > 0 /\ n \in 0 .. n /\ last \in Clusters /\ last # EOC
        /\ last + 1 \in Nat /\ last + 1 >= 2 /\ p.flags \in {1, 3} /\ f.start # EOC
    <2>1. p.flags \in {1, 3} /\ p.dir \in Clusters  BY RunEnd DEF Through
    <2>2. /\ n \in Nat /\ n > 0 /\ last \in Clusters /\ last + 1 \in Nat /\ last + 1 >= 2
      BY RunEnd
    <2> HIDE DEF n, last, p
    <2> QED BY <1>1, <2>1, <2>2, ClusterFacts
  <1>3. MapClu(v, f, n) = EOC /\ MapLast(v, f, n) = last
    BY <1>2, MapSearch
  <1>4. m = MapTo(EOC, last, a, v, f, n)
    BY <1>2, <1>3, MapClusterIs
  <1>5. /\ Takes(v, last + 1, p.flags, a) \/ TakesNone(v, p.flags, a)
        /\ Counted(a.v) /\ OthersStay(v, a.v, {})
    <2>1. f.flags \in {1, 3}  BY <1>1, <1>2
    <2> HIDE DEF last, n, p
    <2> QED BY <1>1, <1>2, <2>1, AllocTakesAFreeCluster
  <1> HIDE DEF a, p, last, n
  <1>6. CASE TakesNone(v, p.flags, a)
    <2>1. a.clu = EOC /\ SameClusters(v, a.v) /\ VolOK(a.v)  BY <1>6 DEF TakesNone
    <2>2. m = [ok |-> FALSE, v |-> a.v, f |-> f, wrote |-> FALSE]
      BY <1>4, <2>1 DEF MapTo
    <2>3. OthersStay(v, a.v, Of(q))  BY <1>5 DEF OthersStay
    <2>4. m.ok = FALSE /\ m.v = a.v /\ m.f = f  BY <2>2
    <2> HIDE DEF m
    <2> QED BY <1>5, <2>1, <2>3, <2>4 DEF m, n
  <1>7. CASE Takes(v, last + 1, p.flags, a)
    <2>1. a.clu \in Clusters \ v.bitmap /\ VolOK(a.v) /\ a.flags \in {1, 3}
          /\ (p.flags = 1 => a.flags = 1) /\ a.clu # EOC
      BY <1>7, ClusterFacts DEF Takes
    <2> DEFINE w1 == MapRun(f, a, last)
               w2 == MapVol(f, a, last)
    <2>2. /\ SameFat(w2, m.v) /\ m.f.start = f.start /\ m.f.flags = a.flags
          /\ m.f.size = f.size /\ m.ok \in BOOLEAN
          /\ m.ok => m.f.hoff = n /\ m.f.hclu = a.clu
          /\ ~m.ok => m.f.hoff = f.hoff /\ m.f.hclu = f.hclu
      <3>1. MapArgs(f, a)  BY <2>1 DEF VolOK, MapArgs
      <3>2. MapKind(f, a, last) = a.flags /\ MapStart(f, a, last) = f.start
        BY <1>1, <1>2, <2>1 DEF MapKind, MapStart, MapConv
      <3> HIDE DEF m
      <3> QED BY <1>4, <3>1, <3>2, MapToIs
    <2> HIDE DEF m
    <2>3. ConvertedFrom(a.v, p, a, w1) /\ Fields \subseteq DOMAIN w1
      <3>1. Fields \subseteq DOMAIN a.v  BY <2>1 DEF VolOK
      <3>2. SameFat(a.v, a.v)  BY <3>1, SlotsAndHint, Zenon
      <3>3. CASE MapConv(f, a, last)
        <4>1. w1 = ChainCont(a.v, p.dir, p.size)  BY <1>1, <3>3 DEF MapRun
        <4>2. Fields \subseteq DOMAIN w1
          <5>1. w1 = a.v \/ \E x : w1 = [a.v EXCEPT !.fat = x]  BY <4>1, Zenon DEF ChainCont
          <5> HIDE DEF w1
          <5> QED BY <3>1, <5>1
        <4> HIDE DEF w1
        <4>3. SameFat(w1, w1)  BY <4>2, SlotsAndHint, Zenon
        <4>4. SameFat(ChainCont(a.v, p.dir, p.size), w1)  BY <4>1, <4>3
        <4> QED BY <1>1, <3>2, <3>3, <4>2, <4>4 DEF ConvertedFrom, MapConv
      <3>4. CASE ~MapConv(f, a, last)
        <4>1. w1 = a.v /\ a.flags = p.flags  BY <1>1, <1>2, <3>4 DEF MapConv, MapRun
        <4> HIDE DEF w1
        <4> QED BY <3>1, <3>2, <4>1 DEF ConvertedFrom
      <3> QED BY <3>3, <3>4
    <2> DEFINE p2 == Chain(m.f.start, f.size + 1, m.f.flags)
    <2>4. p2.dir = p.dir /\ p2.flags = a.flags /\ p2.size = p.size + 1
      BY <1>1, <2>2 DEF Chain
    <2>5. LinkedFrom(w1, last, a, m.v)
      <3>1. SameFat(w2, m.v)  BY <2>2
      <3> QED BY <1>2, <3>1 DEF LinkedFrom, MapVol
    <2>6. Grows(v, p, q, a, w1, m.v, p2)
      <3> HIDE DEF w1, p2
      <3>1. Through(v, p, q)  BY DEF p
      <3> QED BY <1>5, <1>7, <2>3, <2>4, <2>5, <3>1 DEF Grows, last, n
    <2>7. /\ Through(m.v, p2, Append(q, a.clu)) /\ Of(Append(q, a.clu)) = Of(q) \cup {a.clu}
          /\ m.v.bitmap = v.bitmap \cup {a.clu} /\ VolOK(m.v) /\ Counted(m.v)
          /\ OthersStay(v, m.v, Of(q))
      <3> HIDE DEF p2, w1
      <3> QED BY <2>6, GrownIs
    <2>8. HintOK(m.f, Append(q, a.clu))
      <3>1. /\ Len(Append(q, a.clu)) = n + 1 /\ Append(q, a.clu)[n + 1] = a.clu
            /\ \A k \in 1 .. n : Append(q, a.clu)[k] = q[k]
        <4>1. q \in Seq(Clusters) /\ a.clu \in Clusters  BY <2>1 DEF Through
        <4> QED BY <4>1, AppendProperties DEF n
      <3>2. CASE m.ok  BY <1>2, <2>2, <3>1, <3>2 DEF HintOK
      <3>3. CASE ~m.ok
        <4> SUFFICES ASSUME f.hoff > 0
                     PROVE  f.hoff < n + 1 /\ f.hclu = Append(q, a.clu)[f.hoff + 1]
          BY <2>2, <3>1, <3>3, Zenon DEF HintOK
        <4>1. f.hoff < n /\ f.hclu = q[f.hoff + 1] /\ f.hoff \in Int
          BY DEF HintOK, n, FileOK
        <4>2. f.hoff + 1 \in 1 .. n  BY <1>2, <4>1
        <4> QED BY <1>2, <3>1, <4>1, <4>2
      <3> QED BY <2>2, <3>2, <3>3
    <2> HIDE DEF w1
    <2> QED BY <2>1, <2>2, <2>7, <2>8 DEF m, n
  <1> QED BY <1>5, <1>6, <1>7

(* A file without clusters gets its first one.                             *)
THEOREM FileGetsItsFirst ==
  ASSUME NEW v, VolOK(v), Counted(v), NEW f, FileOK(f), f.start = EOC, f.flags \in {1, 3},
         NEW off \in Nat
  PROVE  LET m == MapCluster(v, f, off)
         IN /\ \/ /\ ~m.ok /\ m.f = f /\ SameClusters(v, m.v)
               \/ \E new \in Clusters \ v.bitmap :
                    /\ Through(m.v, Chain(new, 1, m.f.flags), <<new>>)
                    /\ m.f.start = new /\ m.v.bitmap = v.bitmap \cup {new}
                    /\ m.f.size = f.size /\ (m.ok => m.f.hoff = off /\ m.f.hclu = new)
            /\ VolOK(m.v) /\ Counted(m.v) /\ OthersStay(v, m.v, {})
  <1> DEFINE m == MapCluster(v, f, off)
             a == AllocCluster(v, EOC, f.flags)
  <1>1. m = MapTo(EOC, EOC, a, v, f, off)
    <2>1. MapClu(v, f, off) = EOC /\ MapLast(v, f, off) = EOC
      BY DEF MapClu, MapLast
    <2> QED BY <2>1, MapClusterIs
  <1>2. /\ Takes(v, EOC, f.flags, a) \/ TakesNone(v, f.flags, a)
        /\ Counted(a.v) /\ OthersStay(v, a.v, {})
    BY AllocTakesAFreeCluster, Zenon
  <1> HIDE DEF a
  <1>3. CASE TakesNone(v, f.flags, a)
    <2>1. a.clu = EOC /\ SameClusters(v, a.v) /\ VolOK(a.v)  BY <1>3 DEF TakesNone
    <2>2. m = [ok |-> FALSE, v |-> a.v, f |-> f, wrote |-> FALSE]
      BY <1>1, <2>1 DEF MapTo
    <2>3. m.ok = FALSE /\ m.v = a.v /\ m.f = f  BY <2>2
    <2> HIDE DEF m
    <2> QED BY <1>2, <2>1, <2>3 DEF m
  <1>4. CASE Takes(v, EOC, f.flags, a)
    <2>1. /\ a.clu \in Clusters \ v.bitmap /\ VolOK(a.v) /\ a.flags \in {1, 3}
          /\ (f.flags = 1 => a.flags = 1) /\ a.clu # EOC
          /\ a.v.bitmap = v.bitmap \cup {a.clu} /\ (a.flags = 1 => a.v.fat[a.clu] = EOC)
      BY <1>4, ClusterFacts DEF Takes
    <2>2. /\ SameFat(a.v, m.v) /\ m.f.start = a.clu /\ m.f.flags = a.flags
          /\ m.f.size = f.size /\ (m.ok => m.f.hoff = off /\ m.f.hclu = a.clu)
      <3>1. MapArgs(f, a)  BY <2>1 DEF VolOK, MapArgs
      <3>2. MapKind(f, a, EOC) = a.flags /\ MapStart(f, a, EOC) = a.clu
            /\ MapVol(f, a, EOC) = a.v
        BY <2>1 DEF MapKind, MapStart, MapConv, MapVol, MapRun
      <3> HIDE DEF m
      <3> QED BY <1>1, <3>1, <3>2, MapToIs
    <2> HIDE DEF m
    <2>3. VolOK(m.v) /\ Counted(m.v) /\ m.v.bitmap = a.v.bitmap /\ m.v.fat = a.v.fat
      <3>1. VolOK(m.v) /\ Counted(m.v)  BY <1>2, <2>1, <2>2, SameFatIs
      <3> QED BY <2>2, <3>1 DEF SameFat, SameClusters
    <2>4. OthersStay(v, m.v, {})
      <3>1. ASSUME NEW p, NEW q, Through(v, p, q), Of(q) \subseteq v.bitmap \ {}
            PROVE  Through(m.v, p, q) /\ Of(q) \subseteq m.v.bitmap
        <4>1. Through(a.v, p, q) /\ Of(q) \subseteq a.v.bitmap
          BY <1>2, <3>1 DEF OthersStay
        <4> QED BY <2>1, <2>2, <2>3, <4>1, SameFatIs
      <3> QED BY <3>1 DEF OthersStay
    <2> DEFINE p == Chain(a.clu, 1, m.f.flags)
               q == <<a.clu>>
    <2>5. Through(m.v, p, q)
      <3>1. p.dir = a.clu /\ p.size = 1 /\ p.flags = a.flags  BY <2>2 DEF Chain
      <3>2. q \in Seq(Clusters) /\ Len(q) = 1 /\ q[1] = a.clu  BY <2>1
      <3> HIDE DEF p, q
      <3>3. \A k \in 1 .. Len(q) : k = 1  BY <3>2
      <3>4. \A j, k \in 1 .. Len(q) : q[j] = q[k] => j = k  BY <3>3
      <3>5. p.flags = 1 => /\ \A k \in 1 .. Len(q) - 1 : m.v.fat[q[k]] = q[k + 1]
                           /\ m.v.fat[q[Len(q)]] = EOC
        BY <2>1, <2>3, <3>1, <3>2
      <3>6. p.flags = 3 => p.size = Len(q) /\ \A k \in 1 .. Len(q) : q[k] = p.dir + (k - 1)
        <4>1. a.clu \in Nat  BY <2>1, ClusterFacts, Zenon
        <4> QED BY <3>1, <3>2, <3>3, <4>1
      <3> QED BY <2>1, <3>1, <3>2, <3>4, <3>5, <3>6 DEF Through
    <2> QED BY <2>1, <2>2, <2>3, <2>4, <2>5 DEF m
  <1> QED BY <1>2, <1>3, <1>4, Zenon

-----------------------------------------------------------------------------
(* Files that are cut, and removed.                                        *)

(* exfat_free_cluster, and the sectors of what it frees forgotten.         *)
Frees(v, p, q) ==
    /\ VolOK(v) /\ Counted(v) /\ Through(v, p, q) /\ p.size > 0 /\ p.size \in Nat
    /\ Of(q) \subseteq v.bitmap

LEMMA ReleaseIs ==
  ASSUME NEW v, NEW p, NEW q, Frees(v, p, q)
  PROVE  LET w == Release(v, p)
         IN /\ w.bitmap = v.bitmap \ Of(q) /\ w.fat = v.fat /\ VolOK(w) /\ Counted(w)
            /\ OthersStay(v, w, Of(q))
  <1> DEFINE r == FreeCluster(v, p)
             w == Release(v, p)
  <1>1. /\ r.bitmap = v.bitmap \ Of(q) /\ r.fat = v.fat /\ VolOK(r) /\ Counted(r)
    BY FreeIs DEF Frees
  <1>2. \E s : w = [r EXCEPT !.slots = s]  BY Zenon DEF Release
  <1> HIDE DEF r, w
  <1>3. PICK s : w = [r EXCEPT !.slots = s]  BY <1>2
  <1>4. SameFat(r, w)
    <2>1. Fields \subseteq DOMAIN r  BY <1>1 DEF VolOK
    <2> QED BY <1>3, <2>1, SlotsAndHint, Zenon
  <1>5. VolOK(w) /\ Counted(w)  BY <1>1, <1>4, SameFatIs
  <1>6. w.bitmap = v.bitmap \ Of(q) /\ w.fat = v.fat
    BY <1>1, <1>4 DEF SameFat, SameClusters
  <1>7. OthersStay(v, w, Of(q))  BY <1>6, OthersKept
  <1> QED BY <1>5, <1>6, <1>7 DEF w

(* ffsTruncateFile gives back the clusters of a file from the new end on,  *)
(* those and no others, and what is left is a chain (or no cluster, and    *)
(* the flags are those of a new file); the other chains stay, the count of *)
(* used clusters stays right, and the inode forgets its hint.  When the    *)
(* entry is not found nothing is freed.                                    *)
THEOREM TruncateFreesTheRest ==
  ASSUME NEW i \in DOMAIN inode, NEW size \in Nat, Truncate(i, size),
         VolOK(vol), Counted(vol), FileOK(inode[i]),
         NEW q, Through(vol, ChainOf(inode[i]), q), Of(q) \subseteq vol.bitmap,
         inode[i].size <= Len(q)
  PROVE  LET f == inode[i]
         IN /\ IF EntrySet(vol, f.dir, f.entry)
               THEN /\ vol'.bitmap = vol.bitmap \ {q[k] : k \in size + 1 .. Len(q)}
                    /\ size > 0 => Through(vol', ChainOf(inode'[i]), SubSeq(q, 1, size))
                    /\ size = 0 => inode'[i].start = EOC /\ inode'[i].flags = 3
                    /\ inode'[i].hoff = -1
               ELSE vol' = vol
            /\ inode'[i].size = size
            /\ VolOK(vol') /\ Counted(vol') /\ OthersStay(vol, vol', Of(q))
  <1> DEFINE f == inode[i]
             p == ChainOf(f)
             n == Len(q)
             chained == f.flags = 1 /\ size > 0
             cut == Chain(IF size = 0 THEN f.start
                          ELSE IF chained THEN NthCluster(vol, p, size)
                          ELSE f.start + size,
                          IF chained THEN f.size ELSE f.size - size, f.flags)
             last == NthCluster(vol, p, size - 1)
             g == [f EXCEPT !.size = size, !.dirty = TRUE,
                            !.flags = IF size = 0 THEN 3 ELSE @,
                            !.start = IF size = 0 THEN EOC ELSE @]
             head == Slot(vol, f.dir, f.entry)
             told == PutSlots(vol, f.dir, f.entry, <<IF size = 0
                         THEN [head EXCEPT !.size = 0, !.flags = 1, !.clu = Nil]
                         ELSE [head EXCEPT !.size = size]>>)
             x == IF chained THEN [told EXCEPT !.fat[last] = EOC] ELSE told
             h == [g EXCEPT !.hoff = -1, !.hclu = EOC]
  <1>1. /\ size < f.size
        /\ IF EntrySet(vol, f.dir, f.entry)
           THEN vol' = Release(x, cut) /\ inode' = [inode EXCEPT ![i] = h]
           ELSE vol' = vol /\ inode' = [inode EXCEPT ![i] = g]
    BY DEF Truncate
  <1>2. p.dir = f.start /\ p.size = f.size /\ p.flags = f.flags  BY DEF ChainOf, Chain
  <1>3. /\ q \in Seq(Clusters) /\ n \in Nat /\ n > 0 /\ f.start = q[1] /\ f.flags \in {1, 3}
        /\ f.size \in Nat /\ size < n /\ f.start \in Nat
        /\ \A j, k \in 1 .. n : q[j] = q[k] => j = k
    <2>1. q \in Seq(Clusters) /\ p.dir = q[1] /\ p.flags \in {1, 3}
          /\ \A j, k \in 1 .. n : q[j] = q[k] => j = k
      BY DEF Through
    <2>2. n \in Nat /\ n > 0 /\ p.dir \in Clusters  BY RunEnd
    <2>3. p.dir \in Nat  BY <2>2, ClusterFacts, Zenon
    <2>4. f.size \in Nat /\ f.size <= n  BY DEF FileOK
    <2> HIDE DEF p, f, n
    <2> QED BY <1>1, <1>2, <2>1, <2>2, <2>3, <2>4
  <1>4. /\ g.size = size /\ g.flags = (IF size = 0 THEN 3 ELSE f.flags)
        /\ g.start = (IF size = 0 THEN EOC ELSE f.start) /\ DOMAIN g = DOMAIN f
    BY DEF FileOK, FileFields
  <1>5. /\ h.size = size /\ h.flags = g.flags /\ h.start = g.start /\ h.hoff = -1
    <2> HIDE DEF g, f
    <2> QED BY <1>4 DEF FileOK, FileFields, f
  <1>6. CASE ~EntrySet(vol, f.dir, f.entry)
    <2>1. vol' = vol /\ inode'[i] = g  BY <1>1, <1>6
    <2>2. OthersStay(vol, vol', Of(q))  BY <2>1, OthersKept
    <2> HIDE DEF g
    <2> QED BY <1>4, <1>6, <2>1, <2>2
  <1>7. CASE EntrySet(vol, f.dir, f.entry)
    <2>1. vol' = Release(x, cut) /\ inode'[i] = h  BY <1>1, <1>7
    <2>2. SameFat(vol, told) /\ VolOK(told)  BY PutSlotsIs
    <2>3. Through(told, p, q) /\ Counted(told) /\ told.bitmap = vol.bitmap /\ told.fat = vol.fat
      <3>1. Through(told, p, q) /\ Counted(told)
        <4> HIDE DEF told, p
        <4> QED BY <2>2, SameFatIs DEF p
      <3> QED BY <2>2, <3>1 DEF SameFat, SameClusters
    <2> HIDE DEF told, h, g
    <2> DEFINE rest == SubSeq(q, size + 1, n)
    <2>4. chained => last = q[size] /\ NthCluster(vol, p, size) = q[size + 1]
      <3>1. \A k \in 0 .. n - 1 : NthCluster(vol, p, k) = q[k + 1]
        BY NthThrough DEF VolOK
      <3>2. chained => size - 1 \in 0 .. n - 1 /\ (size - 1) + 1 = size /\ size \in 0 .. n - 1
        BY <1>3
      <3> HIDE DEF p, n, f
      <3> QED BY <3>1, <3>2
    <2>5. /\ cut.dir = q[size + 1] /\ cut.flags = p.flags
          /\ (p.flags = 3 => cut.size = n - (size + 1) + 1)
          /\ cut.size > 0 /\ cut.size \in Nat
      <3>1. cut.flags = p.flags  BY <1>2 DEF Chain
      <3>2. cut.size = IF chained THEN f.size ELSE f.size - size  BY DEF Chain
      <3>3. p.flags = 3 => f.size = n /\ \A k \in 1 .. n : q[k] = f.start + (k - 1)
        <4> HIDE DEF p
        <4> QED BY <1>2 DEF Through, p
      <3>4. cut.dir = q[size + 1]
        <4>1. CASE size = 0
          <5>1. cut.dir = f.start  BY <4>1 DEF Chain
          <5>2. size + 1 = 1  BY <4>1
          <5> HIDE DEF cut
          <5> QED BY <1>3, <5>1, <5>2
        <4>2. CASE chained
          <5>1. cut.dir = NthCluster(vol, p, size)  BY <4>2 DEF Chain
          <5> HIDE DEF cut, p
          <5> QED BY <2>4, <4>2, <5>1
        <4>3. CASE size > 0 /\ ~chained
          <5>1. cut.dir = f.start + size  BY <4>3 DEF Chain
          <5>2. p.flags = 3  BY <1>2, <1>3, <4>3
          <5>3. size + 1 \in 1 .. n /\ (size + 1) - 1 = size  BY <1>3
          <5> HIDE DEF cut, p, f, n
          <5> QED BY <3>3, <5>1, <5>2, <5>3
        <4> QED BY <1>3, <4>1, <4>2, <4>3
      <3> HIDE DEF cut, p, n
      <3>5. cut.size > 0 /\ cut.size \in Nat  BY <1>1, <1>3, <3>2
      <3>6. p.flags = 3 => cut.size = n - (size + 1) + 1  BY <1>2, <1>3, <3>2, <3>3
      <3> QED BY <3>1, <3>4, <3>5, <3>6
    <2> HIDE DEF cut
    <2>6. Through(told, cut, rest)
      <3>1. size + 1 \in 1 .. Len(q)  BY <1>3
      <3> HIDE DEF p
      <3> QED BY <2>3, <2>5, <3>1, RestIsThrough
    <2>7. /\ Of(rest) = {q[k] : k \in size + 1 .. n} /\ Of(rest) \subseteq Of(q)
          /\ rest \in Seq(Clusters) /\ Len(rest) \in Nat
      <3>1. size + 1 \in 1 .. Len(q) /\ Len(q) \in 1 .. Len(q) /\ size + 1 <= Len(q)  BY <1>3
      <3> QED BY <1>3, <3>1, PartIs
    <2>8. size > 0 => q[size] \in Of(q) /\ q[size] \notin Of(rest) /\ size \in 1 .. n
      <3> SUFFICES ASSUME size > 0
                   PROVE  q[size] \in Of(q) /\ q[size] \notin Of(rest) /\ size \in 1 .. n
        OBVIOUS
      <3>1. size \in 1 .. n /\ \A k \in size + 1 .. n : k \in 1 .. n /\ k # size  BY <1>3
      <3> QED BY <1>3, <2>7, <3>1 DEF Of
    <2> HIDE DEF rest
    <2>9. /\ VolOK(x) /\ Counted(x) /\ x.bitmap = vol.bitmap
          /\ \A c \in Clusters : x.fat[c] # vol.fat[c] => size > 0 /\ f.flags = 1 /\ c = q[size]
          /\ chained => x.fat[q[size]] = EOC
      <3>1. CASE ~chained
        <4>1. x = told  BY <3>1
        <4> HIDE DEF x
        <4> QED BY <2>2, <2>3, <3>1, <4>1
      <3>2. CASE chained
        <4>1. x = [told EXCEPT !.fat[q[size]] = EOC]  BY <2>4, <3>2
        <4> HIDE DEF x
        <4>2. /\ x.fat = [told.fat EXCEPT ![q[size]] = EOC] /\ x.bitmap = told.bitmap
              /\ x.used = told.used /\ x.srch = told.srch /\ DOMAIN x = DOMAIN told
          BY <2>2, <4>1 DEF VolOK, Fields
        <4>3. q[size] \in Clusters
          <5>1. size \in 1 .. n  BY <2>8, <3>2
          <5> QED BY <1>3, <5>1, SeqFacts
        <4>4. told.fat \in [Clusters -> Clusters \cup {Nil, EOC}]  BY <2>2 DEF VolOK, FatOK
        <4>5. /\ x.fat \in [Clusters -> Clusters \cup {Nil, EOC}] /\ x.fat[q[size]] = EOC
              /\ \A c \in Clusters : c # q[size] => x.fat[c] = told.fat[c]
          BY <4>2, <4>3, <4>4
        <4>6. VolOK(x)  BY <2>2, <4>2, <4>5 DEF VolOK, FatOK
        <4>7. Counted(x)  BY <2>3, <4>2 DEF Counted
        <4> QED BY <2>3, <3>2, <4>2, <4>5, <4>6, <4>7
      <3> QED BY <3>1, <3>2
    <2> HIDE DEF x
    <2>10. Frees(x, cut, rest)
      <3>1. \A c \in Of(rest) : x.fat[c] = told.fat[c]
        <4>1. Of(rest) \subseteq Clusters  BY <2>7, RunEnd
        <4> QED BY <2>3, <2>8, <2>9, <4>1
      <3>2. Through(x, cut, rest)  BY <2>6, <2>7, <3>1, ThroughStays
      <3>3. Of(rest) \subseteq x.bitmap  BY <2>7, <2>9
      <3> QED BY <2>5, <2>9, <3>2, <3>3 DEF Frees
    <2> DEFINE w == Release(x, cut)
    <2>11. /\ w.bitmap = vol.bitmap \ Of(rest) /\ w.fat = x.fat /\ VolOK(w) /\ Counted(w)
      BY <2>9, <2>10, ReleaseIs
    <2> HIDE DEF w
    <2>12. OthersStay(vol, w, Of(q))
      <3>1. vol.bitmap \ Of(q) \subseteq w.bitmap  BY <2>7, <2>11
      <3>2. \A c \in vol.bitmap \ Of(q) : w.fat[c] = vol.fat[c]
        <4>1. vol.bitmap \subseteq Clusters  BY DEF VolOK, FatOK
        <4> QED BY <2>8, <2>9, <2>11, <4>1
      <3> QED BY <3>1, <3>2, OthersKept
    <2>13. ASSUME size > 0 PROVE Through(w, ChainOf(h), SubSeq(q, 1, size))
      <3> DEFINE p2 == ChainOf(h)
      <3>1. p2.dir = p.dir /\ p2.flags = p.flags /\ p2.size = size
        BY <1>2, <1>4, <1>5, <2>13 DEF ChainOf, Chain
      <3> HIDE DEF p2
      <3>2. p.flags = 1 => /\ w.fat[q[size]] = EOC
                           /\ \A c \in Of(q) \ {q[size]} : w.fat[c] = vol.fat[c]
        <4>1. Of(q) \subseteq Clusters  BY RunEnd
        <4> HIDE DEF p
        <4> QED BY <1>2, <2>9, <2>11, <2>13, <4>1
      <3>3. size \in 1 .. Len(q)  BY <2>8, <2>13
      <3>4. Through(vol, p, q)  OBVIOUS
      <3> HIDE DEF p
      <3>5. CutsAt(vol, w, p, q, size, p2)  BY <3>1, <3>2, <3>3, <3>4 DEF CutsAt
      <3> QED BY <3>5, CutIsThrough DEF p2
    <2>14. vol' = w  BY <2>1 DEF w
    <2> QED BY <1>4, <1>5, <1>7, <2>1, <2>7, <2>11, <2>12, <2>13, <2>14
  <1> QED BY <1>6, <1>7

(* ffsRemoveFile, with the entry removed first: all clusters of the file   *)
(* are given back, and no others.                                          *)
LEMMA RemovalIs ==
  ASSUME NEW v, VolOK(v), Counted(v), NEW f, FileOK(f), f.size > 0,
         NEW q, Through(v, ChainOf(f), q), Of(q) \subseteq v.bitmap
  PROVE  LET w == Release(RemoveEntry(v, f.dir, f.entry), ChainOf(f))
         IN /\ w.bitmap = v.bitmap \ Of(q) /\ VolOK(w) /\ Counted(w)
            /\ OthersStay(v, w, Of(q))
  <1> DEFINE r == RemoveEntry(v, f.dir, f.entry)
             p == ChainOf(f)
             w == Release(r, p)
  <1>1. SameFat(v, r)
    <2>1. SameFat(v, v)  BY SlotsAndHint, Zenon DEF VolOK
    <2>2. \A n : SameFat(v, DeleteEntry(v, f.dir, f.entry, 0, n))
      BY PutSlotsIs DEF DeleteEntry
    <2> QED BY <2>1, <2>2 DEF RemoveEntry
  <1>2. p.size = f.size  BY DEF ChainOf, Chain
  <1> HIDE DEF r, p
  <1>3. VolOK(r) /\ Counted(r) /\ Through(r, p, q)
    BY <1>1, SameFatIs DEF p
  <1>4. r.bitmap = v.bitmap /\ r.fat = v.fat  BY <1>1 DEF SameFat, SameClusters
  <1>5. Frees(r, p, q)  BY <1>2, <1>3, <1>4 DEF Frees, FileOK
  <1>6. /\ w.bitmap = r.bitmap \ Of(q) /\ w.fat = r.fat /\ VolOK(w) /\ Counted(w)
    BY <1>5, ReleaseIs
  <1> HIDE DEF w
  <1>7. OthersStay(v, w, Of(q))  BY <1>4, <1>6, OthersKept
  <1> QED BY <1>4, <1>6, <1>7 DEF w, r, p

(* exfat_unlink and exfat_rmdir give back the clusters of what they        *)
(* remove, those and no others, and the inode, if somebody holds it still, *)
(* has none of them any more: it cannot reach what another file is given.  *)
THEOREM RemovalFreesTheChain ==
  ASSUME NEW i \in DOMAIN inode, NEW held \in BOOLEAN, Unlink(i, held) \/ Rmdir(i, held),
         VolOK(vol), Counted(vol), FileOK(inode[i]), inode[i].size > 0,
         NEW q, Through(vol, ChainOf(inode[i]), q), Of(q) \subseteq vol.bitmap
  PROVE  /\ vol'.bitmap = vol.bitmap \ Of(q)
         /\ inode'[i] = Free \/ inode'[i].start = EOC
         /\ VolOK(vol') /\ Counted(vol') /\ OthersStay(vol, vol', Of(q))
  <1> DEFINE f == inode[i]
             h == [f EXCEPT !.st = "orphan", !.flags = 3, !.start = EOC]
             w == Release(RemoveEntry(vol, f.dir, f.entry), ChainOf(f))
  <1>1. vol' = w
    BY DEF Unlink, Rmdir
  <1>2. inode' = [inode EXCEPT ![i] = IF held THEN h ELSE Free]
    BY DEF Unlink, Rmdir
  <1>3. h.start = EOC  BY DEF FileOK, FileFields
  <1> HIDE DEF h
  <1>4. inode'[i] = Free \/ inode'[i].start = EOC  BY <1>2, <1>3
  <1>5. /\ w.bitmap = vol.bitmap \ Of(q) /\ VolOK(w) /\ Counted(w)
        /\ OthersStay(vol, w, Of(q))
    BY RemovalIs
  <1> HIDE DEF w
  <1> QED BY <1>1, <1>4, <1>5

-----------------------------------------------------------------------------
(* A step that is about the inode t, and what it leaves of the others.     *)

StrangersStay(v, ino, w, jno) ==
    \A p, q : Stranger(v, ino, p, q) => Stranger(w, jno, p, q)

SameData(f, g) ==
    /\ Owns(f) /\ g.start = f.start /\ g.size = f.size /\ g.flags = f.flags
    /\ g.hoff = f.hoff /\ g.hclu = f.hclu

UsedBy(v, f) == IF Owns(f) THEN Of(Clus(v, f)) ELSE {}

StepsOn(v, ino, w, jno, t, q) ==
    /\ VolOK(v) /\ VolOK(w) /\ Apart(v, ino) /\ t \in Inodes
    /\ OthersStay(v, w, UsedBy(v, ino[t]))
    /\ \A j \in Inodes : j # t /\ Owns(jno[j]) => SameData(ino[j], jno[j])
    /\ Owns(jno[t]) => /\ Whole(w, jno[t], q)
                       /\ Of(q) \subseteq UsedBy(v, ino[t]) \cup (Clusters \ v.bitmap)

LEMMA WholeIsClus ==
  ASSUME NEW v, VolOK(v), NEW f, NEW q, Whole(v, f, q)
  PROVE  Clus(v, f) = q
  <1>1. Through(v, ChainOf(f), q) /\ FatOK(v)  BY DEF Whole, VolOK
  <1> QED BY <1>1, ChainIs DEF Clus

LEMMA StepOn ==
  ASSUME NEW v, NEW ino, NEW w, NEW jno, NEW t, NEW q, StepsOn(v, ino, w, jno, t, q)
  PROVE  Apart(w, jno) /\ StrangersStay(v, ino, w, jno)
  <1> USE DEF StepsOn
  <1> DEFINE used == UsedBy(v, ino[t])
             C(j) == Clus(v, ino[j])
  <1>1. ASSUME NEW j \in Inodes, j # t, Owns(jno[j])
        PROVE  /\ Whole(w, jno[j], C(j)) /\ Clus(w, jno[j]) = C(j) /\ Owns(ino[j])
               /\ Of(C(j)) \subseteq v.bitmap \ used
    <2>1. SameData(ino[j], jno[j])  BY <1>1
    <2>2. Owns(ino[j])  BY <2>1 DEF SameData
    <2>3. Whole(v, ino[j], C(j))  BY <2>2 DEF Apart
    <2>4. Of(C(j)) \cap used = {}  BY <1>1, <2>2 DEF Apart, UsedBy
    <2> HIDE DEF C, used
    <2>5. Through(v, ChainOf(ino[j]), C(j)) /\ Of(C(j)) \subseteq v.bitmap \ used
      BY <2>3, <2>4 DEF Whole
    <2>6. Through(w, ChainOf(ino[j]), C(j)) /\ Of(C(j)) \subseteq w.bitmap
      BY <2>5 DEF OthersStay, used
    <2>7. ChainOf(jno[j]) = ChainOf(ino[j])  BY <2>1 DEF SameData, ChainOf
    <2>8. HintOK(jno[j], C(j)) /\ jno[j].size \in 1 .. Len(C(j))
      BY <2>1, <2>3 DEF SameData, Whole, HintOK
    <2>9. Whole(w, jno[j], C(j))  BY <2>6, <2>7, <2>8 DEF Whole
    <2>10. Clus(w, jno[j]) = C(j)  BY <2>9, WholeIsClus
    <2> QED BY <2>2, <2>5, <2>9, <2>10
  <1>2. ASSUME Owns(jno[t])
        PROVE  /\ Whole(w, jno[t], q) /\ Clus(w, jno[t]) = q
               /\ Of(q) \subseteq used \cup (Clusters \ v.bitmap)
    BY <1>2, WholeIsClus
  <1> HIDE DEF C, used
  <1>3. ASSUME NEW j \in Inodes, j # t, Owns(jno[j]), Owns(jno[t])
        PROVE  Of(Clus(w, jno[j])) \cap Of(Clus(w, jno[t])) = {}
    BY <1>1, <1>2, <1>3
  <1>4. Apart(w, jno)
    <2>1. ASSUME NEW i \in Inodes, Owns(jno[i]) PROVE Whole(w, jno[i], Clus(w, jno[i]))
      <3>1. CASE i = t  BY <1>2, <2>1, <3>1
      <3>2. CASE i # t  BY <1>1, <2>1, <3>2
      <3> QED BY <3>1, <3>2
    <2>2. ASSUME NEW i \in Inodes, NEW j \in Inodes, Owns(jno[i]), Owns(jno[j]), i # j
          PROVE  Of(Clus(w, jno[i])) \cap Of(Clus(w, jno[j])) = {}
      <3>1. CASE i = t  BY <1>3, <2>2, <3>1
      <3>2. CASE j = t  BY <1>3, <2>2, <3>2
      <3>3. CASE i # t /\ j # t
        <4>1. /\ Clus(w, jno[i]) = C(i) /\ Clus(w, jno[j]) = C(j)
              /\ Owns(ino[i]) /\ Owns(ino[j])
          BY <1>1, <2>2, <3>3
        <4>2. Of(C(i)) \cap Of(C(j)) = {}  BY <2>2, <4>1 DEF Apart, C
        <4> QED BY <4>1, <4>2
      <3> QED BY <3>1, <3>2, <3>3
    <2> QED BY <2>1, <2>2 DEF Apart
  <1>5. ASSUME NEW p, NEW r, Stranger(v, ino, p, r) PROVE Stranger(w, jno, p, r)
    <2>1. /\ Through(v, p, r) /\ Of(r) \subseteq v.bitmap \ used
          /\ \A i \in Inodes : Owns(ino[i]) => Of(r) \cap Of(C(i)) = {}
      BY <1>5 DEF Stranger, used, UsedBy, C
    <2>2. Through(w, p, r) /\ Of(r) \subseteq w.bitmap
      BY <2>1 DEF OthersStay, used
    <2>3. ASSUME NEW i \in Inodes, Owns(jno[i]) PROVE Of(r) \cap Of(Clus(w, jno[i])) = {}
      <3>1. CASE i = t  BY <1>2, <2>1, <2>3, <3>1
      <3>2. CASE i # t  BY <1>1, <2>1, <2>3, <3>2
      <3> QED BY <3>1, <3>2
    <2> QED BY <2>2, <2>3 DEF Stranger
  <1> QED BY <1>4, <1>5 DEF StrangersStay

(* What holds between two operations, of the volume v and the inodes ino;  *)
(* and a step that keeps it and the files without an inode.                *)
Good(v, ino) ==
    /\ VolOK(v) /\ Counted(v) /\ DOMAIN ino = Inodes /\ Apart(v, ino)
    /\ \A i \in Inodes : InodeOK(ino[i])

Keeps(v, ino, w, jno) == Good(w, jno) /\ StrangersStay(v, ino, w, jno)

LEMMA KeepsTrans ==
  ASSUME NEW v, NEW ino, NEW w, NEW jno, NEW x, NEW kno,
         Keeps(v, ino, w, jno), Keeps(w, jno, x, kno)
  PROVE  Keeps(v, ino, x, kno)
  BY DEF Keeps, StrangersStay

LEMMA OwnsIs ==
  ASSUME NEW f, InodeOK(f), f # Free
  PROVE  /\ FileOK(f) /\ f.flags \in {1, 3} /\ (Owns(f) <=> f.start # EOC)
         /\ f.st = "orphan" => f.start = EOC
         /\ f.st = "linked" /\ f.start = EOC => f.size = 0 /\ f.type = "file"
         /\ f.st \in {"linked", "orphan"}
  BY DEF InodeOK, FileOK, FileFields, Owns

LEMMA FreeOwnsNone ==
  InodeOK(Free) /\ ~Owns(Free) /\ Free.st = "free"
  BY DEF InodeOK, Owns, Free

(* Nothing of the volume that chains are made of, and of an inode nothing  *)
(* that its chain is made of.                                              *)
ChainsSame(v, w) == w.bitmap = v.bitmap /\ w.fat = v.fat /\ VolOK(w) /\ Counted(w)

LEMMA KeepsChains ==
  ASSUME NEW v, NEW ino, Good(v, ino), NEW w, ChainsSame(v, w), NEW jno, DOMAIN jno = Inodes,
         \A i \in Inodes : InodeOK(jno[i]) /\ (Owns(jno[i]) => SameData(ino[i], jno[i]))
  PROVE  Keeps(v, ino, w, jno)
  <1>1. VolOK(v) /\ Counted(v) /\ Apart(v, ino)  BY DEF Good
  <1>2. VolOK(w) /\ Counted(w) /\ w.bitmap = v.bitmap /\ w.fat = v.fat
    BY DEF ChainsSame
  <1>3. \A used : OthersStay(v, w, used)  BY <1>2, OthersKept
  <1>4. Apart(w, jno) /\ StrangersStay(v, ino, w, jno)
    <2>1. PICK t \in Inodes : TRUE  BY VolumeAssumption
    <2> DEFINE q == Clus(v, ino[t])
    <2>2. ASSUME Owns(jno[t])
          PROVE  Whole(w, jno[t], q) /\ Of(q) \subseteq UsedBy(v, ino[t])
      <3>1. SameData(ino[t], jno[t])  BY <2>1, <2>2
      <3>2. Owns(ino[t])  BY <3>1 DEF SameData
      <3>3. Whole(v, ino[t], q)  BY <1>1, <2>1, <3>2 DEF Apart
      <3>4. ChainOf(jno[t]) = ChainOf(ino[t])  BY <3>1 DEF SameData, ChainOf
      <3>5. Through(w, ChainOf(jno[t]), q)
        BY <1>2, <3>3, <3>4 DEF Whole, Through
      <3>6. HintOK(jno[t], q) /\ jno[t].size \in 1 .. Len(q) /\ Of(q) \subseteq w.bitmap
        BY <1>2, <3>1, <3>3 DEF SameData, Whole, HintOK
      <3> QED BY <3>2, <3>5, <3>6 DEF Whole, UsedBy
    <2>3. StepsOn(v, ino, w, jno, t, q)
      BY <1>1, <1>2, <1>3, <2>1, <2>2 DEF StepsOn
    <2> QED BY <2>3, StepOn
  <1> QED BY <1>2, <1>4 DEF Good, Keeps

LEMMA SameFatChains ==
  ASSUME NEW v, VolOK(v), Counted(v), NEW w, SameFat(v, w)
  PROVE  ChainsSame(v, w)
  <1>1. VolOK(w) /\ Counted(w)  BY SameFatIs
  <1> QED BY <1>1 DEF ChainsSame, SameFat, SameClusters

(* A step that changes the volume only, and no chain.                      *)
LEMMA VolumeKeeps ==
  ASSUME NEW v, NEW ino, Good(v, ino), NEW w, ChainsSame(v, w)
  PROVE  Keeps(v, ino, w, ino)
  <1>1. DOMAIN ino = Inodes /\ \A i \in Inodes : InodeOK(ino[i])  BY DEF Good
  <1>2. \A i \in Inodes : Owns(ino[i]) => SameData(ino[i], ino[i])  BY DEF SameData
  <1> QED BY <1>1, <1>2, KeepsChains

-----------------------------------------------------------------------------
(* Room for an entry, found or made.                                       *)

LEMMA SearchIs ==
  ASSUME NEW v, VolOK(v), NEW p, NEW n
  PROVE  SameFat(v, SearchEmpty(v, p, n).v)
  <1>1. ASSUME NEW s, NEW from, NEW mine
        PROVE  SameFat(v, SearchIn(s, from, mine, v, p, n).v)
    <2> DEFINE r == SearchIn(s, from, mine, v, p, n)
    <2>1. r.v = v \/ \E h : r.v = [v EXCEPT !.hint = h]
      BY Zenon DEF SearchIn
    <2> HIDE DEF r
    <2>2. SameFat(v, v) /\ \A h : SameFat(v, [v EXCEPT !.hint = h])
      BY SlotsAndHint, Zenon DEF VolOK
    <2>3. CASE r.v = v  BY <2>2, <2>3 DEF r
    <2>4. CASE r.v # v
      <3>1. PICK h : r.v = [v EXCEPT !.hint = h]  BY <2>1, <2>4
      <3> QED BY <2>2, <3>1 DEF r
    <2> QED BY <2>3, <2>4
  <1> QED BY <1>1, Zenon DEF SearchEmpty

LEMMA FoundIs ==
  ASSUME NEW v, VolOK(v), NEW p, NEW name
  PROVE  SameFat(v, FindDirEntry(v, p, name).v)
  <1>1. ASSUME NEW s PROVE SameFat(v, FindIn(s, v, p, name).v)
    <2> DEFINE r == FindIn(s, v, p, name)
    <2>1. \E h : r.v = [v EXCEPT !.hint = h]
      BY Zenon DEF FindIn
    <2> HIDE DEF r
    <2>2. PICK h : r.v = [v EXCEPT !.hint = h]  BY <2>1, Zenon
    <2>3. SameFat(v, [v EXCEPT !.hint = h])  BY SlotsAndHint, Zenon DEF VolOK
    <2> QED BY <2>2, <2>3 DEF r
  <1> QED BY <1>1 DEF FindDirEntry

\* Of all inodes only that of directory d may have changed, which may have grown.
OnlyGrows(ino, jno, d) ==
    /\ \A i \in Inodes : i # d => jno[i] = ino[i]
    /\ jno[d].st = ino[d].st /\ jno[d].type = ino[d].type /\ jno[d].start = ino[d].start
    /\ ino[d].flags = 1 => jno[d].flags = 1

LEMMA SameChain ==
  ASSUME NEW v, NEW p, NEW q, Through(v, p, q), NEW p2,
         p2.dir = p.dir, p2.size = p.size, p2.flags = p.flags
  PROVE  Through(v, p2, q)
  BY DEF Through

LEMMA HintStays ==
  ASSUME NEW f, f.hoff \in Int, NEW g, g.hoff = f.hoff, g.hclu = f.hclu,
         NEW q \in Seq(Clusters), NEW c \in Clusters, HintOK(f, q)
  PROVE  HintOK(g, Append(q, c))
  <1>1. /\ Len(q) \in Nat /\ Len(Append(q, c)) = Len(q) + 1
        /\ \A k \in 1 .. Len(q) : Append(q, c)[k] = q[k]
    BY LenProperties, AppendProperties
  <1> SUFFICES ASSUME f.hoff > 0
               PROVE  f.hoff < Len(q) + 1 /\ f.hclu = Append(q, c)[f.hoff + 1]
    BY <1>1 DEF HintOK
  <1>2. f.hoff < Len(q) /\ f.hclu = q[f.hoff + 1] /\ f.hoff + 1 \in 1 .. Len(q)
    BY <1>1 DEF HintOK
  <1> QED BY <1>1, <1>2

LEMMA GrowKeeps ==
  ASSUME NEW v, NEW ino, Good(v, ino), NEW d \in Inodes, Owns(ino[d]), NEW p, p = ChainOf(ino[d])
  PROVE  LET g == Grow(v, ino, d, p)
         IN Keeps(v, ino, g.v, g.ino) /\ OnlyGrows(ino, g.ino, d)
  <1> DEFINE g == Grow(v, ino, d, p)
             f == ino[d]
             q == Clus(v, f)
  <1>1. /\ VolOK(v) /\ Counted(v) /\ Apart(v, ino) /\ DOMAIN ino = Inodes
        /\ \A i \in Inodes : InodeOK(ino[i])
    BY DEF Good
  <1>2. Whole(v, f, q)  BY <1>1 DEF Apart
  <1>3. /\ p.dir = f.start /\ p.size = f.size /\ p.flags = f.flags
    BY DEF ChainOf, Chain
  <1> HIDE DEF q, g
  <1>4. Through(v, p, q) /\ Of(q) \subseteq v.bitmap /\ q \in Seq(Clusters) /\ Len(q) \in Nat
    <2>1. Through(v, p, q) /\ Of(q) \subseteq v.bitmap  BY <1>2 DEF Whole
    <2>2. q \in Seq(Clusters)  BY <2>1 DEF Through
    <2> QED BY <2>1, <2>2, LenProperties
  <1>5. f # Free /\ UsedBy(v, f) = Of(q)
    BY FreeOwnsNone DEF UsedBy, q
  <1>6. FileOK(f) /\ InodeOK(f)  BY <1>1, <1>5, OwnsIs
  <1>7. /\ g.ok =>
             /\ \E new \in Clusters \ v.bitmap :
                   /\ Through(g.v, g.p, Append(q, new))
                   /\ Of(Append(q, new)) = Of(q) \cup {new}
                   /\ g.v.bitmap = v.bitmap \cup {new}
             /\ g.p.dir = p.dir /\ g.p.size = p.size + 1 /\ (p.flags = 1 => g.p.flags = 1)
             /\ g.ino = [ino EXCEPT ![d].size = @ + 1, ![d].flags = g.p.flags]
        /\ ~g.ok => SameClusters(v, g.v) /\ g.ino = ino /\ g.p = p
        /\ g.ok \in BOOLEAN /\ VolOK(g.v) /\ Counted(g.v) /\ OthersStay(v, g.v, Of(q))
    <2>1. VolOK(v) /\ Counted(v) /\ Through(v, p, q) /\ Of(q) \subseteq v.bitmap
      BY <1>1, <1>4
    <2> HIDE DEF f
    <2> QED BY ONLY <2>1, DirectoryGrowsByOne DEF g
  <1>8. CASE g.ok
    <2>1. PICK new \in Clusters \ v.bitmap :
            /\ Through(g.v, g.p, Append(q, new))
            /\ Of(Append(q, new)) = Of(q) \cup {new}
            /\ g.v.bitmap = v.bitmap \cup {new}
      BY <1>7, <1>8
    <2> DEFINE h == g.ino[d]
    <2>2. g.ino = [ino EXCEPT ![d] = [f EXCEPT !.size = @ + 1, !.flags = g.p.flags]]
      BY <1>7, <1>8, Zenon
    <2>3. /\ h = [f EXCEPT !.size = @ + 1, !.flags = g.p.flags] /\ DOMAIN g.ino = Inodes
          /\ \A i \in Inodes : i # d => g.ino[i] = ino[i]
      BY <1>1, <2>2
    <2> HIDE DEF h
    <2>4. /\ h.start = f.start /\ h.size = f.size + 1 /\ h.flags = g.p.flags
          /\ h.hoff = f.hoff /\ h.hclu = f.hclu /\ h.st = f.st /\ h.type = f.type
          /\ DOMAIN h = DOMAIN f
      BY <1>5, <1>6, <2>3 DEF InodeOK
    <2>5. g.p.flags \in {1, 3}  BY <2>1 DEF Through
    <2>6. InodeOK(h)
      <3>1. f.size + 1 \in Nat  BY <1>6 DEF FileOK
      <3>2. f.start # EOC  BY DEF Owns
      <3> QED BY <1>5, <1>6, <2>4, <2>5, <3>1, <3>2 DEF InodeOK
    <2>7. Through(g.v, ChainOf(h), Append(q, new))
      <3>1. ChainOf(h).dir = g.p.dir /\ ChainOf(h).size = g.p.size /\ ChainOf(h).flags = g.p.flags
        BY <1>3, <1>7, <1>8, <2>4 DEF ChainOf, Chain
      <3> QED BY <2>1, <3>1, SameChain
    <2>8. Whole(g.v, h, Append(q, new))
      <3>1. HintOK(h, Append(q, new))
        BY <1>2, <1>4, <1>6, <2>1, <2>4, HintStays DEF Whole, FileOK
      <3>2. h.size \in 1 .. Len(Append(q, new))
        <4>1. Len(Append(q, new)) = Len(q) + 1  BY <1>4, <2>1, AppendProperties
        <4>2. f.size \in 1 .. Len(q)  BY <1>2 DEF Whole
        <4> QED BY <1>4, <2>4, <4>1, <4>2
      <3>3. Of(Append(q, new)) \subseteq g.v.bitmap  BY <1>4, <2>1
      <3> QED BY <2>7, <3>1, <3>2, <3>3 DEF Whole
    <2>9. StepsOn(v, ino, g.v, g.ino, d, Append(q, new))
      <3>1. \A j \in Inodes : j # d /\ Owns(g.ino[j]) => SameData(ino[j], g.ino[j])
        BY <2>3 DEF SameData
      <3>2. Of(Append(q, new)) \subseteq Of(q) \cup (Clusters \ v.bitmap)  BY <2>1
      <3> QED BY <1>1, <1>5, <1>7, <2>8, <3>1, <3>2 DEF StepsOn, h
    <2>10. Good(g.v, g.ino)
      <3>1. Apart(g.v, g.ino)  BY <2>9, StepOn
      <3>2. \A i \in Inodes : InodeOK(g.ino[i])  BY <1>1, <2>3, <2>6 DEF h
      <3> QED BY <1>7, <2>3, <3>1, <3>2 DEF Good
    <2>11. Keeps(v, ino, g.v, g.ino)
      BY <2>9, <2>10, StepOn DEF Keeps
    <2>12. OnlyGrows(ino, g.ino, d)
      BY <1>3, <1>7, <1>8, <2>3, <2>4 DEF OnlyGrows, h
    <2> QED BY <2>11, <2>12 DEF g
  <1>9. CASE ~g.ok
    <2>1. g.ino = ino /\ SameClusters(v, g.v)  BY <1>7, <1>9
    <2>2. \A j \in Inodes : j # d /\ Owns(g.ino[j]) => SameData(ino[j], g.ino[j])
      BY <2>1 DEF SameData
    <2>3. Whole(g.v, f, q)
      <3>1. g.v.fat = v.fat /\ g.v.bitmap = v.bitmap  BY <2>1 DEF SameClusters
      <3>2. Through(g.v, p, q)  BY <1>4, <3>1 DEF Through
      <3> QED BY <1>2, <3>1, <3>2 DEF Whole
    <2>4. StepsOn(v, ino, g.v, g.ino, d, q)
      BY <1>1, <1>5, <1>7, <2>1, <2>2, <2>3 DEF StepsOn
    <2>5. Apart(g.v, g.ino) /\ StrangersStay(v, ino, g.v, g.ino)  BY <2>4, StepOn
    <2>6. Good(g.v, g.ino)  BY <1>1, <1>7, <2>1, <2>5 DEF Good
    <2> QED BY <2>1, <2>5, <2>6 DEF g, Keeps, OnlyGrows
  <1> QED BY <1>7, <1>8, <1>9

LEMMA FindEmptyKeeps ==
  ASSUME NEW v, NEW ino, Good(v, ino), NEW d \in Inodes, Owns(ino[d]), NEW p, p = ChainOf(ino[d]),
         NEW n
  PROVE  LET e == FindEmpty(v, ino, d, p, n)
         IN Keeps(v, ino, e.v, e.ino) /\ OnlyGrows(ino, e.ino, d)
  <1> DEFINE e == FindEmpty(v, ino, d, p, n)
             s == SearchEmpty(v, p, n)
             g == Grow(s.v, ino, d, p)
             s2 == SearchEmpty(g.v, g.p, n)
  <1>1. VolOK(v) /\ Counted(v)  BY DEF Good
  <1>2. Keeps(v, ino, s.v, ino) /\ OnlyGrows(ino, ino, d)
    <2>1. ChainsSame(v, s.v)  BY <1>1, SearchIs, SameFatChains
    <2>2. Keeps(v, ino, s.v, ino)  BY <2>1, VolumeKeeps
    <2> QED BY <2>2 DEF OnlyGrows
  <1>3. \/ e.v = s.v /\ e.ino = ino
        \/ e.v = g.v /\ e.ino = g.ino
        \/ e.v = s2.v /\ e.ino = g.ino
    <2> HIDE DEF s, s2, g
    <2>1. \/ e = [entry |-> s.entry, v |-> s.v, ino |-> ino, p |-> p]
          \/ e = [entry |-> -1, v |-> g.v, ino |-> g.ino, p |-> g.p]
          \/ e = [entry |-> s2.entry, v |-> s2.v, ino |-> g.ino, p |-> g.p]
      BY DEF FindEmpty, s, s2, g
    <2> HIDE DEF e
    <2> QED BY <2>1
  <1> HIDE DEF e, s
  <1>4. Keeps(s.v, ino, g.v, g.ino) /\ OnlyGrows(ino, g.ino, d)
    <2>1. Good(s.v, ino)  BY <1>2 DEF Keeps
    <2> QED BY <2>1, GrowKeeps
  <1> HIDE DEF g
  <1>5. Keeps(g.v, g.ino, s2.v, g.ino)
    <2>1. Good(g.v, g.ino)  BY <1>4 DEF Keeps
    <2>2. VolOK(g.v) /\ Counted(g.v)  BY <2>1 DEF Good
    <2>3. ChainsSame(g.v, s2.v)  BY <2>2, SearchIs, SameFatChains
    <2> QED BY <2>1, <2>3, VolumeKeeps
  <1> HIDE DEF s2
  <1>6. Keeps(v, ino, g.v, g.ino)  BY <1>2, <1>4, KeepsTrans
  <1>7. Keeps(v, ino, s2.v, g.ino)  BY <1>5, <1>6, KeepsTrans
  <1>8. Keeps(v, ino, e.v, e.ino) /\ OnlyGrows(ino, e.ino, d)
    <2>1. CASE e.v = s.v /\ e.ino = ino  BY <1>2, <2>1
    <2>2. CASE e.v = g.v /\ e.ino = g.ino  BY <1>4, <1>6, <2>2
    <2>3. CASE e.v = s2.v /\ e.ino = g.ino  BY <1>4, <1>7, <2>3
    <2> QED BY <1>3, <2>1, <2>2, <2>3
  <1> QED BY <1>8 DEF e

-----------------------------------------------------------------------------
(* The invariant, and the operations one by one.                           *)

Dirs(ino, pnd) ==
    /\ DOMAIN pnd = Inodes
    /\ \A d \in Inodes : pnd[d] # None => ino[d].st = "linked" /\ ino[d].type = "dir"
    /\ ino[Root].st = "linked" /\ ino[Root].type = "dir"
    /\ ino[Root].start = RootClu /\ ino[Root].flags = 1

Inv == Good(vol, inode) /\ Dirs(inode, pending)

LEMMA InvFilesApart == ASSUME Inv PROVE FilesApart
  BY DEF Inv, Good, Dirs, FilesApart, Linked, IsDir

LEMMA DirOwns ==
  ASSUME NEW f, InodeOK(f), f.st = "linked", f.type = "dir"
  PROVE  Owns(f)
  <1>1. f # Free  BY DEF Free
  <1> QED BY <1>1, OwnsIs DEF Owns

LEMMA FreeIsFree ==
  ASSUME NEW f, InodeOK(f), f.st = "free"
  PROVE  f = Free /\ ~Owns(f)
  BY DEF InodeOK, Owns

LEMMA GrowsDirs ==
  ASSUME NEW ino, NEW jno, NEW d \in Inodes, OnlyGrows(ino, jno, d), NEW pnd, Dirs(ino, pnd)
  PROVE  Dirs(jno, pnd)
  <1>1. \A i \in Inodes : jno[i].st = ino[i].st /\ jno[i].type = ino[i].type
                          /\ jno[i].start = ino[i].start /\ (ino[i].flags = 1 => jno[i].flags = 1)
    BY DEF OnlyGrows
  <1>2. Root \in Inodes  BY VolumeAssumption
  <1> QED BY <1>1, <1>2 DEF Dirs

LEMMA PendingCleared ==
  ASSUME NEW ino, NEW pnd, Dirs(ino, pnd), NEW d
  PROVE  Dirs(ino, [pnd EXCEPT ![d] = None])
  BY DEF Dirs

(* One inode becomes another.                                              *)
LEMMA DirsWith ==
  ASSUME NEW ino, DOMAIN ino = Inodes, NEW pnd, Dirs(ino, pnd), NEW i \in Inodes, NEW f,
         i # Root, pnd[i] = None \/ (f.st = ino[i].st /\ f.type = ino[i].type)
  PROVE  Dirs([ino EXCEPT ![i] = f], pnd)
  <1>1. Root \in Inodes  BY VolumeAssumption
  <1>2. \A j \in Inodes : [ino EXCEPT ![i] = f][j] = IF j = i THEN f ELSE ino[j]
    OBVIOUS
  <1> QED BY <1>1, <1>2 DEF Dirs

LEMMA PutEntryIs ==
  ASSUME NEW v, VolOK(v), NEW p, NEW e, NEW head
  PROVE  SameFat(v, PutEntry(v, p, e, head))
  BY PutSlotsIs DEF PutEntry

LEMMA DeleteEntryIs ==
  ASSUME NEW v, VolOK(v), NEW p, NEW e, NEW order, NEW n
  PROVE  SameFat(v, DeleteEntry(v, p, e, order, n))
  BY PutSlotsIs DEF DeleteEntry

LEMMA NewFileIs ==
  ASSUME NEW name, NEW d, NEW p, NEW e
  PROVE  LET f == NewInode("file", name, d, p, e, 3, EOC, 0)
         IN InodeOK(f) /\ ~Owns(f)
  BY DEF NewInode, InodeOK, Owns

(* exfat_create                                                            *)
LEMMA CreateKeeps ==
  ASSUME Inv, NEW d \in Inodes, Create(d)
  PROVE  Keeps(vol, inode, vol', inode') /\ Dirs(inode', pending')
  <1> DEFINE p == ChainOf(inode[d])
             name == pending[d]
             e == FindEmpty(vol, inode, d, p, NameLen[name])
  <1>1. Good(vol, inode) /\ Dirs(inode, pending)  BY DEF Inv
  <1>2. inode[d].st = "linked" /\ inode[d].type = "dir" /\ Owns(inode[d])
    <2>1. inode[d].st = "linked" /\ inode[d].type = "dir"  BY <1>1 DEF Create, Dirs
    <2> QED BY <1>1, <2>1, DirOwns DEF Good
  <1>3. PICK i \in Inodes :
          /\ inode[i].st = "free"
          /\ IF e.entry < 0 THEN vol' = e.v /\ inode' = e.ino
             ELSE /\ vol' = PutEntry(e.v, e.p, e.entry, NewHead("file", name, 1, Nil, 0))
                  /\ inode' = [e.ino EXCEPT ![i] =
                                 NewInode("file", name, d, e.p, e.entry, 3, EOC, 0)]
    BY DEF Create
  <1>4. pending' = [pending EXCEPT ![d] = None]  BY DEF Create
  <1>5. Keeps(vol, inode, e.v, e.ino) /\ OnlyGrows(inode, e.ino, d)
    BY <1>1, <1>2, FindEmptyKeeps
  <1> HIDE DEF e
  <1>6. Good(e.v, e.ino) /\ Dirs(e.ino, pending') /\ pending'[i] = None /\ i # Root
    <2>1. Good(e.v, e.ino) /\ Dirs(e.ino, pending)  BY <1>1, <1>5, GrowsDirs DEF Keeps
    <2>2. Dirs(e.ino, pending')  BY <1>4, <2>1, PendingCleared, Zenon
    <2>3. pending'[i] = None /\ i # Root  BY <1>1, <1>3, <1>4 DEF Dirs
    <2> QED BY <2>1, <2>2, <2>3
  <1>7. CASE e.entry < 0  BY <1>3, <1>5, <1>6, <1>7
  <1>8. CASE ~(e.entry < 0)
    <2> DEFINE f == NewInode("file", name, d, e.p, e.entry, 3, EOC, 0)
               jno == [e.ino EXCEPT ![i] = f]
    <2>1. inode' = jno /\ vol' = PutEntry(e.v, e.p, e.entry, NewHead("file", name, 1, Nil, 0))
      BY <1>3, <1>8
    <2>2. InodeOK(f) /\ ~Owns(f)  BY NewFileIs
    <2> HIDE DEF f
    <2>3. ChainsSame(e.v, vol')
      <3>1. VolOK(e.v) /\ Counted(e.v)  BY <1>6 DEF Good
      <3> QED BY <2>1, <3>1, PutEntryIs, SameFatChains
    <2>4. /\ DOMAIN jno = Inodes
          /\ \A j \in Inodes : InodeOK(jno[j]) /\ (Owns(jno[j]) => SameData(e.ino[j], jno[j]))
      <3>1. DOMAIN e.ino = Inodes /\ \A j \in Inodes : InodeOK(e.ino[j])  BY <1>6 DEF Good
      <3>2. \A j \in Inodes : jno[j] = IF j = i THEN f ELSE e.ino[j]  BY <3>1
      <3> QED BY <2>2, <3>1, <3>2 DEF SameData
    <2>5. Dirs(jno, pending')
      <3>1. DOMAIN e.ino = Inodes  BY <1>6 DEF Good
      <3>2. PICK pnd : pnd = pending'  OBVIOUS
      <3>3. Dirs(jno, pnd)  BY <1>6, <3>1, <3>2, DirsWith
      <3> QED BY <3>2, <3>3
    <2> HIDE DEF jno
    <2>6. PICK w : w = vol'  OBVIOUS
    <2>7. Keeps(e.v, e.ino, w, jno)
      BY <1>6, <2>3, <2>4, <2>6, KeepsChains
    <2>8. Keeps(vol, inode, w, jno)  BY <1>5, <2>7, KeepsTrans
    <2> QED BY <2>1, <2>5, <2>6, <2>8
  <1> QED BY <1>7, <1>8

LEMMA OneCluster ==
  ASSUME NEW w, NEW c \in Clusters, NEW p, p.dir = c, p.size = 1, p.flags \in {1, 3},
         p.flags = 1 => w.fat[c] = EOC
  PROVE  Through(w, p, <<c>>) /\ Of(<<c>>) = {c} /\ Len(<<c>>) = 1
  <1> DEFINE q == <<c>>
  <1>1. q \in Seq(Clusters) /\ Len(q) = 1 /\ q[1] = c  OBVIOUS
  <1> HIDE DEF q
  <1>2. \A k \in 1 .. Len(q) : k = 1  BY <1>1
  <1>3. p.flags = 1 => /\ \A k \in 1 .. Len(q) - 1 : w.fat[q[k]] = q[k + 1]
                       /\ w.fat[q[Len(q)]] = EOC
    BY <1>1
  <1>4. p.flags = 3 => p.size = Len(q) /\ \A k \in 1 .. Len(q) : q[k] = p.dir + (k - 1)
    <2>1. c \in Nat  BY ClusterFacts
    <2> QED BY <1>1, <1>2, <2>1
  <1>5. Through(w, p, q)  BY <1>1, <1>2, <1>3, <1>4 DEF Through
  <1>6. Of(q) = {c}
    <2>1. 1 \in 1 .. Len(q)  BY <1>1
    <2> QED BY <1>1, <1>2, <2>1 DEF Of
  <1> QED BY <1>1, <1>5, <1>6 DEF q

LEMMA OthersThenSame ==
  ASSUME NEW v, NEW w, NEW x, NEW used, VolOK(w), OthersStay(v, w, used), ChainsSame(w, x)
  PROVE  OthersStay(v, x, used)
  BY DEF OthersStay, ChainsSame, Through

\* A directory of one cluster that was free, with its inode.
OneDirectory(v, a, w, f) ==
    /\ Takes(v, EOC, 3, a) /\ OthersStay(v, a.v, {}) /\ ChainsSame(a.v, w)
    /\ InodeOK(f) /\ Owns(f) /\ f.start = a.clu /\ f.size = 1 /\ f.flags = 3 /\ f.hoff = -1

LEMMA OneDirectoryIs ==
  ASSUME NEW v, NEW a, NEW w, NEW f, OneDirectory(v, a, w, f)
  PROVE  Whole(w, f, <<a.clu>>) /\ Of(<<a.clu>>) = {a.clu}
  <1> DEFINE c == a.clu
             p == ChainOf(f)
  <1>1. c \in Clusters /\ a.v.bitmap = v.bitmap \cup {c} /\ w.bitmap = a.v.bitmap
    BY DEF OneDirectory, Takes, ChainsSame
  <1>2. Owns(f) /\ p.dir = c /\ p.size = 1 /\ p.flags = 3  BY DEF OneDirectory, ChainOf, Chain
  <1>3. HintOK(f, <<c>>)  BY DEF OneDirectory, HintOK
  <1> HIDE DEF c, p
  <1>4. Through(w, p, <<c>>) /\ Of(<<c>>) = {c} /\ Len(<<c>>) = 1
    BY ONLY <1>1, <1>2, OneCluster
  <1>5. Of(<<c>>) \subseteq w.bitmap  BY <1>1, <1>4
  <1>6. Whole(w, f, <<c>>)
    <2>1. f.size \in 1 .. Len(<<c>>)  BY <1>4 DEF OneDirectory
    <2> QED BY <1>3, <1>4, <1>5, <2>1 DEF Whole, p
  <1> QED BY <1>4, <1>6 DEF c

LEMMA OneDirectoryKeeps ==
  ASSUME NEW v, NEW ino, Good(v, ino), NEW a, NEW w, NEW f, OneDirectory(v, a, w, f),
         NEW i \in Inodes, ino[i].st = "free",
         NEW jno, DOMAIN jno = Inodes, \A j \in Inodes : jno[j] = IF j = i THEN f ELSE ino[j]
  PROVE  Keeps(v, ino, w, jno)
  <1> DEFINE q == <<a.clu>>
  <1>1. /\ VolOK(v) /\ Apart(v, ino) /\ \A j \in Inodes : InodeOK(ino[j])  BY DEF Good
  <1>2. a.clu \in Clusters \ v.bitmap /\ VolOK(a.v) /\ InodeOK(f) /\ ChainsSame(a.v, w)
    BY DEF OneDirectory, Takes
  <1>3. Whole(w, f, q) /\ Of(q) = {a.clu}  BY OneDirectoryIs
  <1>4. OthersStay(v, w, {})  BY <1>2, OthersThenSame DEF OneDirectory
  <1> HIDE DEF q
  <1>5. StepsOn(v, ino, w, jno, i, q)
    <2>1. UsedBy(v, ino[i]) = {}  BY DEF UsedBy, Owns
    <2>2. \A j \in Inodes : j # i /\ Owns(jno[j]) => SameData(ino[j], jno[j])
      BY DEF SameData
    <2>3. VolOK(w)  BY <1>2 DEF ChainsSame
    <2> QED BY <1>1, <1>2, <1>3, <1>4, <2>1, <2>2, <2>3 DEF StepsOn
  <1>6. Apart(w, jno) /\ StrangersStay(v, ino, w, jno)  BY <1>5, StepOn
  <1> QED BY <1>1, <1>2, <1>6 DEF Keeps, Good, ChainsSame

(* exfat_mkdir                                                             *)
LEMMA MkdirKeeps ==
  ASSUME Inv, NEW d \in Inodes, Mkdir(d)
  PROVE  Keeps(vol, inode, vol', inode') /\ Dirs(inode', pending')
  <1> DEFINE p == ChainOf(inode[d])
             name == pending[d]
             e == FindEmpty(vol, inode, d, p, NameLen[name])
             a == AllocCluster(e.v, EOC, 3)
             cleared == [a.v EXCEPT !.slots = Over(Block({a.clu}, Unused), @)]
             put == PutEntry(cleared, e.p, e.entry, NewHead("dir", name, 3, a.clu, 1))
             f == NewInode("dir", name, d, e.p, e.entry, 3, a.clu, 1)
  <1>1. Good(vol, inode) /\ Dirs(inode, pending)  BY DEF Inv
  <1>2. inode[d].st = "linked" /\ inode[d].type = "dir" /\ Owns(inode[d])
    <2>1. inode[d].st = "linked" /\ inode[d].type = "dir"  BY <1>1 DEF Mkdir, Dirs
    <2> QED BY <1>1, <2>1, DirOwns DEF Good
  <1>3. PICK i \in Inodes :
          /\ inode[i].st = "free"
          /\ IF e.entry < 0 \/ a.clu = EOC
             THEN /\ vol' = IF e.entry < 0 THEN e.v ELSE a.v
                  /\ inode' = e.ino
             ELSE vol' = put /\ inode' = [e.ino EXCEPT ![i] = f]
    BY DEF Mkdir
  <1>4. pending' = [pending EXCEPT ![d] = None]  BY DEF Mkdir
  <1>5. Keeps(vol, inode, e.v, e.ino) /\ OnlyGrows(inode, e.ino, d)
    BY <1>1, <1>2, FindEmptyKeeps
  <1> HIDE DEF e
  <1>6. Good(e.v, e.ino) /\ Dirs(e.ino, pending') /\ pending'[i] = None /\ i # Root /\ i # d
    <2>1. Good(e.v, e.ino) /\ Dirs(e.ino, pending)  BY <1>1, <1>5, GrowsDirs DEF Keeps
    <2>2. Dirs(e.ino, pending')  BY <1>4, <2>1, PendingCleared, Zenon
    <2>3. pending'[i] = None /\ i # Root /\ i # d  BY <1>1, <1>2, <1>3, <1>4 DEF Dirs
    <2> QED BY <2>1, <2>2, <2>3
  <1>7. /\ VolOK(e.v) /\ Counted(e.v) /\ DOMAIN e.ino = Inodes /\ Apart(e.v, e.ino)
        /\ \A j \in Inodes : InodeOK(e.ino[j])
    BY <1>6 DEF Good
  <1>8. /\ Takes(e.v, EOC, 3, a) \/ TakesNone(e.v, 3, a)
        /\ Counted(a.v) /\ OthersStay(e.v, a.v, {})
    BY <1>7, AllocTakesAFreeCluster, Zenon
  <1> HIDE DEF a
  <1>9. VolOK(a.v)  BY <1>8 DEF Takes, TakesNone
  <1>10. CASE e.entry < 0
    BY <1>3, <1>5, <1>6, <1>10
  <1>11. CASE ~(e.entry < 0) /\ a.clu = EOC
    <2>1. inode' = e.ino /\ vol' = a.v  BY <1>3, <1>11
    <2>2. TakesNone(e.v, 3, a)  BY <1>8, <1>11, ClusterFacts DEF Takes
    <2>3. ChainsSame(e.v, a.v)  BY <1>8, <1>9, <2>2 DEF ChainsSame, TakesNone, SameClusters
    <2>4. Keeps(e.v, e.ino, a.v, e.ino)  BY <1>6, <2>3, VolumeKeeps
    <2>5. Keeps(vol, inode, a.v, e.ino)  BY <1>5, <2>4, KeepsTrans
    <2> QED BY <1>6, <2>1, <2>5
  <1>12. CASE ~(e.entry < 0) /\ a.clu # EOC
    <2> DEFINE jno == [e.ino EXCEPT ![i] = f]
    <2>1. inode' = jno /\ vol' = put  BY <1>3, <1>12
    <2>2. /\ a.clu \in Clusters \ e.v.bitmap /\ a.v.bitmap = e.v.bitmap \cup {a.clu}
      BY <1>8, <1>12 DEF Takes, TakesNone
    <2>3. InodeOK(f) /\ Owns(f) /\ f.start = a.clu /\ f.size = 1 /\ f.flags = 3 /\ f.hoff = -1
      BY <1>12 DEF NewInode, InodeOK, Owns
    <2> HIDE DEF f
    <2>4. ChainsSame(a.v, put)
      <3>1. SameFat(a.v, cleared)  BY <1>9, SlotsAndHint, Zenon DEF VolOK
      <3> HIDE DEF cleared
      <3>2. VolOK(cleared)  BY <1>9, <3>1, SameFatIs
      <3>3. SameFat(cleared, put)  BY <3>2, PutEntryIs
      <3> HIDE DEF put
      <3>4. SameFat(a.v, put)  BY <3>1, <3>3, SameFatTrans
      <3> QED BY <1>8, <1>9, <3>4, SameFatChains
    <2> HIDE DEF put
    <2>5. \A j \in Inodes : jno[j] = IF j = i THEN f ELSE e.ino[j]  BY <1>7
    <2>6. DOMAIN jno = Inodes /\ \A j \in Inodes : InodeOK(jno[j])  BY <1>7, <2>3, <2>5
    <2>7. Dirs(jno, pending')
      <3>1. PICK pnd : pnd = pending'  OBVIOUS
      <3>2. Dirs(jno, pnd)  BY <1>6, <1>7, <3>1, DirsWith
      <3> QED BY <3>1, <3>2
    <2> HIDE DEF jno
    <2>8. e.ino[i].st = "free" /\ OneDirectory(e.v, a, put, f)
      BY <1>3, <1>5, <1>6, <1>8, <1>12, <2>3, <2>4 DEF OnlyGrows, OneDirectory, TakesNone
    <2>9. Keeps(e.v, e.ino, put, jno)  BY <1>6, <2>5, <2>6, <2>8, OneDirectoryKeeps
    <2>10. Keeps(vol, inode, put, jno)  BY <1>5, <2>9, KeepsTrans
    <2> QED BY <2>1, <2>7, <2>10
  <1> QED BY <1>10, <1>11, <1>12

(* exfat_unlink, exfat_rmdir                                               *)
LEMMA RemovalStays ==
  ASSUME Inv, NEW i \in Inodes, NEW held \in BOOLEAN, Unlink(i, held) \/ Rmdir(i, held)
  PROVE  /\ VolOK(vol') /\ Counted(vol') /\ OthersStay(vol, vol', UsedBy(vol, inode[i]))
         /\ vol'.bitmap = vol.bitmap \ UsedBy(vol, inode[i])
  <1> DEFINE f == inode[i]
             q == Clus(vol, f)
  <1>1. VolOK(vol) /\ Counted(vol) /\ Apart(vol, inode) /\ InodeOK(f)  BY DEF Inv, Good
  <1>2. f.st = "linked" /\ vol' = Release(RemoveEntry(vol, f.dir, f.entry), ChainOf(f))
    BY DEF Unlink, Rmdir, Linked
  <1>3. FileOK(f) /\ (Owns(f) <=> f.start # EOC)
    <2>1. f # Free  BY <1>2 DEF Free
    <2> QED BY <1>1, <2>1, OwnsIs
  <1>4. PICK w : w = vol'  OBVIOUS
  <1>5. CASE Owns(f)
    <2>1. Whole(vol, f, q)  BY <1>1, <1>5 DEF Apart
    <2> HIDE DEF q
    <2>2. /\ Through(vol, ChainOf(f), q) /\ Of(q) \subseteq vol.bitmap /\ f.size > 0
      BY <1>3, <2>1 DEF Whole, FileOK
    <2>3. /\ VolOK(w) /\ Counted(w) /\ OthersStay(vol, w, Of(q))
          /\ w.bitmap = vol.bitmap \ Of(q)
      BY <1>1, <1>2, <1>3, <1>4, <2>2, RemovalIs
    <2> QED BY <1>4, <1>5, <2>3 DEF UsedBy, q
  <1>6. CASE ~Owns(f)
    <2> DEFINE r == RemoveEntry(vol, f.dir, f.entry)
    <2>1. f.start = EOC  BY <1>3, <1>6
    <2>2. SameFat(vol, r)
      <3>1. SameFat(vol, vol)  BY <1>1, SlotsAndHint, Zenon DEF VolOK
      <3>2. \A n : SameFat(vol, DeleteEntry(vol, f.dir, f.entry, 0, n))
        BY <1>1, DeleteEntryIs
      <3> QED BY <3>1, <3>2 DEF RemoveEntry
    <2> HIDE DEF r
    <2>3. FreeCluster(r, ChainOf(f)) = r  BY <2>1 DEF FreeCluster, ChainOf, Chain
    <2>4. \E s : Release(r, ChainOf(f)) = [r EXCEPT !.slots = s]  BY <2>3, Zenon DEF Release
    <2>5. PICK s : w = [r EXCEPT !.slots = s]  BY <1>2, <1>4, <2>4 DEF r
    <2>6. VolOK(r)  BY <1>1, <2>2, SameFatIs
    <2>7. SameFat(r, w)  BY <2>5, <2>6, SlotsAndHint, Zenon DEF VolOK
    <2>8. SameFat(vol, w)  BY <2>2, <2>7, SameFatTrans
    <2>9. VolOK(w) /\ Counted(w)  BY <1>1, <2>8, SameFatIs
    <2>10. w.bitmap = vol.bitmap /\ w.fat = vol.fat  BY <2>8 DEF SameFat, SameClusters
    <2>11. OthersStay(vol, w, UsedBy(vol, f))  BY <2>10, OthersKept
    <2>12. UsedBy(vol, f) = {}  BY <1>6 DEF UsedBy
    <2> QED BY <1>4, <2>9, <2>10, <2>11, <2>12
  <1> QED BY <1>5, <1>6

LEMMA RemovalKeeps ==
  ASSUME Inv, NEW i \in Inodes, NEW held \in BOOLEAN, Unlink(i, held) \/ Rmdir(i, held)
  PROVE  Keeps(vol, inode, vol', inode') /\ Dirs(inode', pending')
  <1> DEFINE f == inode[i]
             h == IF held THEN [f EXCEPT !.st = "orphan", !.flags = 3, !.start = EOC] ELSE Free
             q == Clus(vol, f)
             jno == [inode EXCEPT ![i] = h]
  <1>1. /\ VolOK(vol) /\ Counted(vol) /\ DOMAIN inode = Inodes /\ Apart(vol, inode)
        /\ \A j \in Inodes : InodeOK(inode[j])
    BY DEF Inv, Good
  <1>2. /\ f.st = "linked" /\ inode' = jno /\ pending' = pending
        /\ vol' = Release(RemoveEntry(vol, f.dir, f.entry), ChainOf(f))
    BY DEF Unlink, Rmdir, Linked
  <1>3. i # Root /\ pending[i] = None
    <2>1. CASE Unlink(i, held)
      <3>1. f.type # "dir"  BY <2>1 DEF Unlink, IsDir
      <3> QED BY <3>1 DEF Inv, Dirs
    <2>2. CASE Rmdir(i, held)  BY <2>2 DEF Rmdir
    <2> QED BY <2>1, <2>2
  <1>4. f # Free /\ FileOK(f) /\ (Owns(f) <=> f.start # EOC)
    <2>1. f # Free  BY <1>2 DEF Free
    <2> QED BY <1>1, <2>1, OwnsIs
  <1>5. InodeOK(h) /\ ~Owns(h)
    <2>1. CASE ~held  BY <2>1, FreeOwnsNone
    <2>2. CASE held
      <3>1. /\ h.st = "orphan" /\ h.flags = 3 /\ h.start = EOC /\ h.type = f.type
            /\ h.hoff = f.hoff /\ h.size = f.size /\ DOMAIN h = DOMAIN f
        BY <1>1, <1>4, <2>2 DEF InodeOK
      <3> HIDE DEF h
      <3> QED BY <1>1, <1>4, <3>1 DEF InodeOK, Owns
    <2> QED BY <2>1, <2>2
  <1> HIDE DEF h
  <1>6. /\ \A j \in Inodes : jno[j] = IF j = i THEN h ELSE inode[j]
        /\ DOMAIN jno = Inodes /\ \A j \in Inodes : InodeOK(jno[j])
    <2>1. \A j \in Inodes : jno[j] = IF j = i THEN h ELSE inode[j]  BY <1>1
    <2> QED BY <1>1, <1>5, <2>1
  <1>7. Dirs(jno, pending)
    BY <1>1, <1>3, DirsWith, Zenon DEF Inv
  <1> HIDE DEF jno
  <1>8. PICK w : w = vol'  OBVIOUS
  <1>9. VolOK(w) /\ Counted(w) /\ OthersStay(vol, w, UsedBy(vol, f))  BY <1>8, RemovalStays
  <1>10. StepsOn(vol, inode, w, jno, i, q)
    BY <1>1, <1>5, <1>6, <1>9 DEF StepsOn, SameData
  <1>11. Apart(w, jno) /\ StrangersStay(vol, inode, w, jno)  BY <1>10, StepOn
  <1>12. Keeps(vol, inode, w, jno)  BY <1>6, <1>9, <1>11 DEF Keeps, Good
  <1> QED BY <1>2, <1>7, <1>8, <1>12

LEMMA KeepsAll == ASSUME Inv PROVE Keeps(vol, inode, vol, inode)
  BY DEF Inv, Keeps, StrangersStay

LEMMA AbandonKeeps ==
  ASSUME Inv, NEW d \in Inodes, Abandon(d)
  PROVE  Keeps(vol, inode, vol', inode') /\ Dirs(inode', pending')
  <1>1. vol' = vol /\ inode' = inode /\ pending' = [pending EXCEPT ![d] = None]
    BY DEF Abandon
  <1>2. Dirs(inode, [pending EXCEPT ![d] = None])  BY PendingCleared DEF Inv
  <1> QED BY <1>1, <1>2, KeepsAll

(* exfat_write_inode                                                       *)
LEMMA WriteInodeKeeps ==
  ASSUME Inv, NEW i \in Inodes, WriteInode(i)
  PROVE  Keeps(vol, inode, vol', inode') /\ Dirs(inode', pending')
  <1> DEFINE f == inode[i]
             g == [f EXCEPT !.dirty = FALSE]
             jno == [inode EXCEPT ![i] = g]
  <1>1. /\ VolOK(vol) /\ Counted(vol) /\ DOMAIN inode = Inodes /\ Good(vol, inode)
        /\ \A j \in Inodes : InodeOK(inode[j])
    BY DEF Inv, Good
  <1>2. /\ i # Root /\ f.st # "free" /\ inode' = jno /\ pending' = pending
        /\ vol' = vol \/ \E seq : vol' = PutSlots(vol, f.dir, f.entry, seq)
    BY DEF WriteInode
  <1>3. /\ g.st = f.st /\ g.type = f.type /\ g.start = f.start /\ g.size = f.size
        /\ g.flags = f.flags /\ g.hoff = f.hoff /\ g.hclu = f.hclu /\ DOMAIN g = DOMAIN f
        /\ f # Free
    <2>1. f # Free  BY <1>2 DEF Free
    <2> QED BY <1>1, <2>1 DEF InodeOK
  <1> HIDE DEF g
  <1>4. InodeOK(g) /\ (Owns(g) => SameData(f, g))
    BY <1>1, <1>3 DEF InodeOK, SameData, Owns
  <1>5. \A j \in Inodes : jno[j] = IF j = i THEN g ELSE inode[j]  BY <1>1
  <1>6. /\ DOMAIN jno = Inodes
        /\ \A j \in Inodes : InodeOK(jno[j]) /\ (Owns(jno[j]) => SameData(inode[j], jno[j]))
    BY <1>1, <1>4, <1>5 DEF SameData
  <1>7. Dirs(jno, pending)  BY <1>1, <1>2, <1>3, DirsWith, Zenon DEF Inv
  <1> HIDE DEF jno, f
  <1>8. PICK w : w = vol'  OBVIOUS
  <1>9. ChainsSame(vol, w)
    <2>1. SameFat(vol, vol)  BY <1>1, SlotsAndHint, Zenon DEF VolOK
    <2>2. SameFat(vol, w)  BY <1>1, <1>2, <1>8, <2>1, PutSlotsIs
    <2> QED BY <1>1, <2>2, SameFatChains
  <1>10. Keeps(vol, inode, w, jno)  BY <1>1, <1>6, <1>9, KeepsChains
  <1> QED BY <1>2, <1>7, <1>8, <1>10

(* exfat_evict_inode                                                       *)
LEMMA EvictKeeps ==
  ASSUME Inv, NEW i \in Inodes, Evict(i)
  PROVE  Keeps(vol, inode, vol', inode') /\ Dirs(inode', pending')
  <1> DEFINE jno == [inode EXCEPT ![i] = Free]
  <1>1. /\ VolOK(vol) /\ Counted(vol) /\ DOMAIN inode = Inodes /\ Good(vol, inode)
        /\ \A j \in Inodes : InodeOK(inode[j])
    BY DEF Inv, Good
  <1>2. /\ i # Root /\ pending[i] = None /\ vol' = vol /\ inode' = jno /\ pending' = pending
    BY DEF Evict
  <1>3. \A j \in Inodes : jno[j] = IF j = i THEN Free ELSE inode[j]  BY <1>1
  <1>4. /\ DOMAIN jno = Inodes
        /\ \A j \in Inodes : InodeOK(jno[j]) /\ (Owns(jno[j]) => SameData(inode[j], jno[j]))
    BY <1>1, <1>3, FreeOwnsNone DEF SameData
  <1>5. Dirs(jno, pending)  BY <1>1, <1>2, DirsWith, Zenon DEF Inv
  <1> HIDE DEF jno
  <1>6. ChainsSame(vol, vol)  BY <1>1 DEF ChainsSame
  <1>7. Keeps(vol, inode, vol, jno)  BY <1>1, <1>4, <1>6, KeepsChains
  <1> QED BY <1>2, <1>5, <1>7

(* exfat_statfs                                                            *)
LEMMA StatfsKeeps ==
  ASSUME Inv, Statfs
  PROVE  Keeps(vol, inode, vol', inode') /\ Dirs(inode', pending')
  <1> DEFINE w == [vol EXCEPT !.used = CountUsed(vol)]
  <1>1. VolOK(vol) /\ Counted(vol) /\ Good(vol, inode) /\ Dirs(inode, pending)
    BY DEF Inv, Good
  <1>2. vol' = w /\ inode' = inode /\ pending' = pending  BY DEF Statfs
  <1>3. /\ w.bitmap = vol.bitmap /\ w.fat = vol.fat /\ w.srch = vol.srch
        /\ DOMAIN w = DOMAIN vol /\ w.used = Cardinality(vol.bitmap)
    BY <1>1 DEF VolOK, Fields, CountUsed
  <1> HIDE DEF w
  <1>4. ChainsSame(vol, w)  BY <1>1, <1>3 DEF ChainsSame, VolOK, FatOK, Counted
  <1>5. Keeps(vol, inode, w, inode)  BY <1>1, <1>4, VolumeKeeps
  <1> QED BY <1>1, <1>2, <1>5

(* The root directory, as it is read at every mount.                       *)
LEMMA RootIs ==
  ASSUME NEW v, VolOK(v), NEW q, Through(v, Chain(RootClu, 0, 1), q), Of(q) \subseteq v.bitmap
  PROVE  LET f == RootInode(v)
         IN /\ Whole(v, f, q) /\ InodeOK(f) /\ Owns(f) /\ f.st = "linked" /\ f.type = "dir"
            /\ f.start = RootClu /\ f.flags = 1
  <1> DEFINE p == Chain(RootClu, 0, 1)
             f == RootInode(v)
  <1>1. Len(q) \in Nat /\ Len(q) > 0  BY RunEnd
  <1>2. ChainLen(v, p) = Len(q)  BY ChainIs DEF VolOK
  <1>3. /\ f.st = "linked" /\ f.type = "dir" /\ f.flags = 1 /\ f.start = RootClu
        /\ f.size = ChainLen(v, p) /\ f.hoff = -1
        /\ DOMAIN f = {"st", "type", "name", "parent", "dir", "entry", "flags", "start",
                       "size", "hoff", "hclu", "dirty"}
    BY DEF RootInode, NewInode
  <1> HIDE DEF f
  <1>4. RootClu # EOC  BY VolumeAssumption, ClusterFacts
  <1>5. InodeOK(f) /\ Owns(f)
    <2>1. f.size \in Nat /\ f.hoff \in Int  BY <1>1, <1>2, <1>3
    <2> HIDE DEF p
    <2> QED BY <1>3, <1>4, <2>1 DEF InodeOK, Owns
  <1>6. Whole(v, f, q)
    <2>1. ChainOf(f).dir = p.dir /\ ChainOf(f).flags = p.flags /\ p.flags = 1
      BY <1>3 DEF ChainOf, Chain
    <2> HIDE DEF p
    <2>2. Through(v, ChainOf(f), q)  BY <2>1 DEF Through, p
    <2>3. f.size \in 1 .. Len(q)  BY <1>1, <1>2, <1>3
    <2>4. HintOK(f, q)  BY <1>3 DEF HintOK
    <2> QED BY <2>2, <2>3, <2>4 DEF Whole
  <1> QED BY <1>3, <1>5, <1>6 DEF f

(* ffsUmountVol, ffsMountVol                                               *)
LEMMA RemountKeeps ==
  ASSUME Inv, Remount
  PROVE  Keeps(vol, inode, vol', inode') /\ Dirs(inode', pending')
  <1> DEFINE f == inode[Root]
             g == RootInode(vol)
             q == Clus(vol, f)
             w == Mounted(vol)
             jno == [inode EXCEPT ![Root] = g]
  <1>1. /\ VolOK(vol) /\ Counted(vol) /\ DOMAIN inode = Inodes /\ Apart(vol, inode)
        /\ \A j \in Inodes : InodeOK(inode[j])
        /\ Root \in Inodes /\ Dirs(inode, pending)
    BY VolumeAssumption DEF Inv, Good
  <1>2. /\ \A i \in Inodes \ {Root} : inode[i].st = "free"
        /\ vol' = w /\ inode' = jno /\ pending' = pending
    BY DEF Remount
  <1>3. /\ f.st = "linked" /\ f.type = "dir" /\ f.start = RootClu /\ f.flags = 1
    BY <1>1 DEF Dirs
  <1>4. Owns(f)  BY <1>1, <1>3, DirOwns
  <1>5. Whole(vol, f, q)  BY <1>1, <1>4 DEF Apart
  <1>6. UsedBy(vol, f) = Of(q)  BY <1>4 DEF UsedBy
  <1> HIDE DEF q
  <1>7. Through(vol, Chain(RootClu, 0, 1), q)
    <2>1. Through(vol, ChainOf(f), q)  BY <1>5 DEF Whole
    <2> DEFINE p == Chain(RootClu, 0, 1)
    <2>2. ChainOf(f).dir = p.dir /\ ChainOf(f).flags = p.flags /\ p.flags = 1
      BY <1>3 DEF ChainOf, Chain
    <2> HIDE DEF p
    <2>3. Through(vol, p, q)  BY <2>1, <2>2 DEF Through
    <2> QED BY <2>3 DEF p
  <1>8. /\ Whole(vol, g, q) /\ InodeOK(g) /\ Owns(g) /\ g.st = "linked" /\ g.type = "dir"
        /\ g.start = RootClu /\ g.flags = 1
    BY <1>1, <1>5, <1>7, RootIs DEF Whole
  <1> HIDE DEF f, g
  <1>9. /\ w.bitmap = vol.bitmap /\ w.fat = vol.fat /\ VolOK(w) /\ Counted(w)
    <2>1. /\ w.bitmap = vol.bitmap /\ w.fat = vol.fat /\ w.used = Unknown /\ w.srch = 2
          /\ DOMAIN w = Fields
      BY DEF Mounted, Fields
    <2>2. 2 \in Clusters  BY ClusterFacts DEF Clusters
    <2> HIDE DEF w
    <2> QED BY <1>1, <2>1, <2>2 DEF VolOK, FatOK, Counted
  <1> HIDE DEF w
  <1>10. \A j \in Inodes : jno[j] = IF j = Root THEN g ELSE inode[j]  BY <1>1
  <1>11. DOMAIN jno = Inodes /\ \A j \in Inodes : InodeOK(jno[j])  BY <1>1, <1>8, <1>10
  <1>12. Dirs(jno, pending)
    <2>1. \A d \in Inodes : pending[d] # None => d = Root  BY <1>1, <1>2 DEF Dirs
    <2> QED BY <1>1, <1>8, <1>10, <2>1 DEF Dirs
  <1> HIDE DEF jno
  <1>13. StepsOn(vol, inode, w, jno, Root, q)
    <2>1. Whole(w, g, q)  BY <1>8, <1>9 DEF Whole, Through
    <2>2. OthersStay(vol, w, UsedBy(vol, inode[Root]))  BY <1>9, OthersKept
    <2>3. \A j \in Inodes : j # Root /\ Owns(jno[j]) => SameData(inode[j], jno[j])
      BY <1>10 DEF SameData
    <2> QED BY <1>1, <1>6, <1>9, <1>10, <2>1, <2>2, <2>3 DEF StepsOn, f
  <1>14. Keeps(vol, inode, w, jno)
    <2>1. Apart(w, jno) /\ StrangersStay(vol, inode, w, jno)  BY <1>13, StepOn
    <2> QED BY <1>9, <1>11, <2>1 DEF Keeps, Good
  <1> QED BY <1>2, <1>12, <1>14

(* What ffsMapCluster leaves of an inode.                                  *)
LEMMA MapShape ==
  ASSUME NEW v, NEW f, InodeOK(f), f # Free, NEW off
  PROVE  LET m == MapCluster(v, f, off)
         IN /\ DOMAIN m.f = DOMAIN f /\ m.f.st = f.st /\ m.f.type = f.type
            /\ m.f.hoff \in {f.hoff, off} /\ m.ok \in BOOLEAN
  <1>1. ASSUME NEW clu, NEW last, NEW a
        PROVE  LET m == MapTo(clu, last, a, v, f, off)
               IN /\ DOMAIN m.f = DOMAIN f /\ m.f.st = f.st /\ m.f.type = f.type
                  /\ m.f.hoff \in {f.hoff, off} /\ m.ok \in BOOLEAN
    <2> DEFINE m == MapTo(clu, last, a, v, f, off)
               Shape(h) == /\ DOMAIN h = DOMAIN f /\ h.st = f.st /\ h.type = f.type
                           /\ h.hoff \in {f.hoff, off}
    <2>1. \E k, s, c :
            \/ m.f = f
            \/ m.f = [f EXCEPT !.hoff = off, !.hclu = c]
            \/ m.f = [f EXCEPT !.flags = k, !.start = s]
            \/ m.f = [[f EXCEPT !.flags = k, !.start = s] EXCEPT !.hoff = off, !.hclu = c]
      BY Zenon DEF MapTo
    <2>2. m.ok \in BOOLEAN  BY DEF MapTo
    <2>3. Shape(f)  OBVIOUS
    <2>4. \A k, s : Shape([f EXCEPT !.flags = k, !.start = s])
      BY DEF InodeOK
    <2>5. \A h, c : Shape(h) => Shape([h EXCEPT !.hoff = off, !.hclu = c])
      <3> SUFFICES ASSUME NEW h, NEW c, Shape(h)
                   PROVE  Shape([h EXCEPT !.hoff = off, !.hclu = c])
        OBVIOUS
      <3>1. {"st", "type", "hoff", "hclu"} \subseteq DOMAIN h  BY DEF InodeOK
      <3> QED BY <3>1
    <2> HIDE DEF m, Shape
    <2>6. Shape(m.f)
      <3>1. PICK k, s, c :
              \/ m.f = f
              \/ m.f = [f EXCEPT !.hoff = off, !.hclu = c]
              \/ m.f = [f EXCEPT !.flags = k, !.start = s]
              \/ m.f = [[f EXCEPT !.flags = k, !.start = s] EXCEPT !.hoff = off, !.hclu = c]
        BY <2>1, Zenon
      <3> DEFINE h == [f EXCEPT !.flags = k, !.start = s]
      <3>2. Shape(h)  BY <2>4, Zenon
      <3> HIDE DEF h
      <3>3. Shape([f EXCEPT !.hoff = off, !.hclu = c]) /\ Shape([h EXCEPT !.hoff = off, !.hclu = c])
        BY <2>3, <2>5, <3>2, Zenon
      <3> QED BY <2>3, <3>1, <3>2, <3>3 DEF h
    <2> QED BY <2>2, <2>6 DEF m, Shape
  <1>2. PICK clu, last, a : MapCluster(v, f, off) = MapTo(clu, last, a, v, f, off)
    BY MapClusterIs
  <1> QED BY <1>1, <1>2

(* exfat_get_block: a read within the length, a write behind it.           *)
MapsBehind(i, off, size) ==
    \/ off < inode[i].size /\ size = inode[i].size
    \/ off = inode[i].size /\ size \in {off, off + 1}

LEMMA MapKeeps ==
  ASSUME Inv, NEW i \in Inodes, HasData(i), NEW off \in Nat, NEW size \in Nat,
         Map(i, off, size), MapsBehind(i, off, size), faults' = {}
  PROVE  Keeps(vol, inode, vol', inode') /\ Dirs(inode', pending')
  <1> DEFINE f == inode[i]
             m == MapCluster(vol, f, off)
             g == IF m.ok /\ size # f.size THEN [m.f EXCEPT !.size = size, !.dirty = TRUE] ELSE m.f
             jno == [inode EXCEPT ![i] = g]
             grown == m.v.bitmap # vol.bitmap
             q == Clus(vol, f)
  <1>1. /\ VolOK(vol) /\ Counted(vol) /\ DOMAIN inode = Inodes /\ Apart(vol, inode)
        /\ Good(vol, inode) /\ Dirs(inode, pending)
        /\ \A j \in Inodes : InodeOK(inode[j])
    BY DEF Inv, Good
  <1>2. /\ vol' = m.v /\ inode' = jno /\ pending' = pending
        /\ f.st # "free" /\ f.type = "file" /\ i # Root /\ f # Free
    <2>1. vol' = m.v /\ inode' = jno /\ pending' = pending  BY DEF Map
    <2>2. f.st # "free" /\ f.type = "file"  BY DEF HasData
    <2>3. i # Root  BY <1>1, <2>2 DEF Dirs
    <2>4. f # Free  BY <2>2 DEF Free
    <2> QED BY <2>1, <2>2, <2>3, <2>4
  <1>3. /\ ~(f.st = "orphan" /\ f.start = EOC /\ f.size > 0)
        /\ ~(grown /\ ~m.ok /\ f.st = "linked")
        /\ ~(grown /\ (f.st = "orphan" \/ size = off))
    BY Zenon DEF Map, Loses, Misses, Linked, Orphan
  <1>4. /\ FileOK(f) /\ f.flags \in {1, 3} /\ (Owns(f) <=> f.start # EOC)
        /\ f.st = "linked" /\ f.start = EOC => f.size = 0 /\ f.type = "file"
        /\ f.st \in {"linked", "orphan"} /\ f.size \in Nat /\ f.hoff \in Int
    BY <1>1, <1>2, OwnsIs DEF FileOK
  <1>5. /\ DOMAIN m.f = DOMAIN f /\ m.f.st = f.st /\ m.f.type = f.type
        /\ m.f.hoff \in Int /\ m.ok \in BOOLEAN
    <2>1. /\ DOMAIN m.f = DOMAIN f /\ m.f.st = f.st /\ m.f.type = f.type
          /\ m.f.hoff \in {f.hoff, off} /\ m.ok \in BOOLEAN
      BY <1>1, <1>2, MapShape
    <2> QED BY <1>4, <2>1
  <1> HIDE DEF m
  <1>6. /\ g.st = f.st /\ g.type = f.type /\ DOMAIN g = DOMAIN f /\ g.hoff = m.f.hoff
        /\ g.start = m.f.start /\ g.flags = m.f.flags /\ g.hclu = m.f.hclu
        /\ g.size = IF m.ok /\ size # f.size THEN size ELSE m.f.size
    BY <1>1, <1>2, <1>5 DEF InodeOK
  <1> HIDE DEF g
  <1>7. \A j \in Inodes : jno[j] = IF j = i THEN g ELSE inode[j]  BY <1>1
  <1>8. DOMAIN jno = Inodes /\ Dirs(jno, pending)
    BY <1>1, <1>2, <1>6, DirsWith, Zenon
  <1> HIDE DEF jno, f
  <1>9. ASSUME VolOK(m.v), Counted(m.v), OthersStay(vol, m.v, UsedBy(vol, f)), InodeOK(g),
               NEW r, Owns(g) => /\ Whole(m.v, g, r)
                                 /\ Of(r) \subseteq UsedBy(vol, f) \cup (Clusters \ vol.bitmap)
        PROVE  Keeps(vol, inode, m.v, jno)
    <2> DEFINE w == m.v
    <2> HIDE DEF w
    <2>1. StepsOn(vol, inode, w, jno, i, r)
      <3>1. \A j \in Inodes : j # i /\ Owns(jno[j]) => SameData(inode[j], jno[j])
        BY <1>7 DEF SameData
      <3> QED BY <1>1, <1>7, <1>9, <3>1 DEF StepsOn, w, f
    <2>2. Apart(w, jno) /\ StrangersStay(vol, inode, w, jno)  BY <2>1, StepOn
    <2>3. \A j \in Inodes : InodeOK(jno[j])  BY <1>1, <1>7, <1>9
    <2> QED BY <1>8, <1>9, <2>2, <2>3 DEF Keeps, Good, w
  <1>10. ASSUME f.st = "linked", NEW r, Whole(m.v, g, r)
         PROVE  InodeOK(g)
    <2>1. ChainOf(g).flags \in {1, 3} /\ Len(r) \in Nat /\ ChainOf(g).dir \in Clusters
      BY <1>10, RunEnd DEF Whole, Through
    <2>2. ChainOf(g).flags = g.flags /\ ChainOf(g).dir = g.start  BY DEF ChainOf, Chain
    <2>3. g.size \in Nat  BY <1>10, <2>1 DEF Whole
    <2>4. g.start # EOC  BY <2>1, <2>2, ClusterFacts
    <2> QED BY <1>1, <1>2, <1>5, <1>6, <1>10, <2>1, <2>2, <2>3, <2>4 DEF InodeOK, f
  <1>11. CASE ~Owns(f)
    <2>1. f.start = EOC /\ f.size = 0 /\ off = 0 /\ size \in {0, 1}
      BY <1>3, <1>4, <1>11 DEF MapsBehind, f
    <2>2. /\ \/ /\ ~m.ok /\ m.f = f /\ SameClusters(vol, m.v)
             \/ \E new \in Clusters \ vol.bitmap :
                  /\ Through(m.v, Chain(new, 1, m.f.flags), <<new>>)
                  /\ m.f.start = new /\ m.v.bitmap = vol.bitmap \cup {new}
                  /\ m.f.size = f.size /\ (m.ok => m.f.hoff = off /\ m.f.hclu = new)
          /\ VolOK(m.v) /\ Counted(m.v) /\ OthersStay(vol, m.v, {})
      <3>1. VolOK(vol) /\ Counted(vol) /\ FileOK(f) /\ f.start = EOC /\ f.flags \in {1, 3}
        BY <1>1, <1>4, <2>1
      <3> QED BY ONLY <3>1, off \in Nat, FileGetsItsFirst, Zenon DEF m
    <2>3. UsedBy(vol, f) = {}  BY <1>11 DEF UsedBy
    <2>4. CASE ~m.ok /\ m.f = f /\ SameClusters(vol, m.v)
      <3>1. InodeOK(g) /\ ~Owns(g)
        <4>1. InodeOK(f)  BY <1>1 DEF f
        <4>2. /\ g.st = f.st /\ g.type = f.type /\ DOMAIN g = DOMAIN f /\ g.hoff = f.hoff
              /\ g.start = f.start /\ g.flags = f.flags /\ g.size = f.size
          BY <1>6, <2>4
        <4> QED BY <1>2, <1>11, <2>1, <4>1, <4>2 DEF InodeOK, Owns
      <3>2. Keeps(vol, inode, m.v, jno)  BY <1>9, <2>2, <2>3, <3>1
      <3> QED BY <1>2, <1>8, <3>2
    <2>5. CASE ~(~m.ok /\ m.f = f /\ SameClusters(vol, m.v))
      <3>1. PICK new \in Clusters \ vol.bitmap :
              /\ Through(m.v, Chain(new, 1, m.f.flags), <<new>>)
              /\ m.f.start = new /\ m.v.bitmap = vol.bitmap \cup {new}
              /\ m.f.size = f.size /\ (m.ok => m.f.hoff = off /\ m.f.hclu = new)
        BY <2>2, <2>5, Zenon
      <3>2. grown  BY <3>1
      <3>3. f.st = "linked" /\ m.ok /\ size = 1
        BY <1>3, <1>4, <1>5, <2>1, <3>2
      <3>4. g.start = new /\ g.size = 1 /\ g.hoff = 0 /\ g.flags = m.f.flags
        BY <1>6, <2>1, <3>1, <3>3
      <3>5. Whole(m.v, g, <<new>>) /\ Of(<<new>>) = {new}
        <4> DEFINE p == Chain(new, 1, m.f.flags)
        <4>1. ChainOf(g).dir = p.dir /\ ChainOf(g).size = p.size /\ ChainOf(g).flags = p.flags
          BY <3>4 DEF ChainOf, Chain
        <4>2. /\ p.dir = new /\ p.size = 1  BY DEF Chain
        <4> HIDE DEF p
        <4>3. Through(m.v, p, <<new>>)  BY <3>1 DEF p
        <4>4. Through(m.v, ChainOf(g), <<new>>)  BY <4>1, <4>3, SameChain
        <4>5. Len(<<new>>) = 1 /\ Of(<<new>>) = {new}
          <5>1. Len(<<new>>) = 1 /\ <<new>>[1] = new  OBVIOUS
          <5> QED BY <5>1 DEF Of
        <4>6. HintOK(g, <<new>>)  BY <3>4 DEF HintOK
        <4> QED BY <3>1, <3>4, <4>4, <4>5, <4>6 DEF Whole
      <3>6. InodeOK(g)  BY <1>10, <3>3, <3>5
      <3>7. Keeps(vol, inode, m.v, jno)  BY <1>9, <2>2, <2>3, <3>5, <3>6
      <3> QED BY <1>2, <1>8, <3>7
    <2> QED BY <2>4, <2>5
  <1>12. CASE Owns(f)
    <2>1. Whole(vol, f, q) /\ UsedBy(vol, f) = Of(q)
      BY <1>1, <1>12 DEF Apart, UsedBy, f
    <2> HIDE DEF q
    <2>2. /\ Through(vol, ChainOf(f), q) /\ Of(q) \subseteq vol.bitmap /\ HintOK(f, q)
          /\ f.size \in 1 .. Len(q) /\ Len(q) \in Nat
      BY <2>1, RunEnd DEF Whole
    <2>3. f.st = "linked"
      <3>1. InodeOK(f)  BY <1>1 DEF f
      <3> QED BY <1>2, <1>4, <1>12, <3>1 DEF InodeOK
    <2>4. off \in 0 .. Len(q) /\ off <= f.size
      BY <2>2 DEF MapsBehind, f
    <2>5. CASE off < Len(q)
      <3>1. off \in 0 .. Len(q) - 1  BY <2>2, <2>4, <2>5
      <3>2. /\ m.ok /\ m.v = vol
            /\ m.f.start = f.start /\ m.f.size = f.size /\ m.f.flags = f.flags
            /\ HintOK(m.f, q)
        BY <1>1, <1>4, <2>2, <3>1, MapFindsTheCluster DEF m
      <3>3. g.size = size  BY <1>6, <3>2
      <3>4. size \in 1 .. Len(q) /\ (f.flags = 3 => size = f.size)
        <4>1. f.flags = 3 => f.size = Len(q)
          <5>1. ChainOf(f).flags = f.flags /\ ChainOf(f).size = f.size  BY DEF ChainOf, Chain
          <5> QED BY <2>2, <5>1 DEF Through
        <4>2. size = f.size \/ (off = f.size /\ size \in {off, off + 1})
          BY DEF MapsBehind, f
        <4> QED BY <2>2, <2>5, <4>1, <4>2
      <3>5. Through(vol, ChainOf(g), q)
        <4>1. /\ ChainOf(g).dir = ChainOf(f).dir /\ ChainOf(g).flags = ChainOf(f).flags
              /\ (ChainOf(f).flags = 3 => ChainOf(g).size = ChainOf(f).size)
          BY <1>6, <3>2, <3>3, <3>4 DEF ChainOf, Chain
        <4> QED BY <2>2, <4>1, Zenon DEF Through
      <3>6. HintOK(g, q)  BY <1>6, <3>2 DEF HintOK
      <3>7. Whole(m.v, g, q)  BY <2>2, <3>2, <3>3, <3>4, <3>5, <3>6 DEF Whole
      <3>8. InodeOK(g)  BY <1>10, <2>3, <3>7
      <3>9. VolOK(m.v) /\ Counted(m.v) /\ OthersStay(vol, m.v, UsedBy(vol, f))
        BY <1>1, <3>2, OthersKept
      <3>10. Keeps(vol, inode, m.v, jno)  BY <1>9, <2>1, <3>7, <3>8, <3>9
      <3> QED BY <1>2, <1>8, <3>10
    <2>6. CASE ~(off < Len(q))
      <3>1. off = Len(q) /\ f.size = off /\ size \in {off, off + 1}
        BY <2>2, <2>4, <2>6 DEF MapsBehind, f
      <3>2. /\ \/ /\ ~m.ok /\ m.f = f /\ SameClusters(vol, m.v)
               \/ \E new \in Clusters \ vol.bitmap :
                    /\ Through(m.v, Chain(m.f.start, f.size + 1, m.f.flags), Append(q, new))
                    /\ Of(Append(q, new)) = Of(q) \cup {new}
                    /\ m.v.bitmap = vol.bitmap \cup {new}
                    /\ m.f.start = f.start /\ m.f.size = f.size
                    /\ m.ok => m.f.hclu = new
                    /\ HintOK(m.f, Append(q, new))
            /\ VolOK(m.v) /\ Counted(m.v) /\ OthersStay(vol, m.v, Of(q))
        BY <1>1, <1>4, <2>2, <3>1, FileGrowsByOne DEF m
      <3>3. CASE ~m.ok /\ m.f = f /\ SameClusters(vol, m.v)
        <4>1. /\ g.st = f.st /\ g.type = f.type /\ g.hoff = f.hoff /\ g.hclu = f.hclu
              /\ g.start = f.start /\ g.flags = f.flags /\ g.size = f.size
          BY <1>6, <3>3
        <4>2. Whole(m.v, g, q)
          <5>1. ChainOf(g) = ChainOf(f)  BY <4>1 DEF ChainOf
          <5>2. m.v.fat = vol.fat /\ m.v.bitmap = vol.bitmap  BY <3>3 DEF SameClusters
          <5>3. Through(m.v, ChainOf(g), q)  BY <2>2, <5>1, <5>2 DEF Through
          <5>4. HintOK(g, q)  BY <2>2, <4>1 DEF HintOK
          <5> QED BY <2>2, <4>1, <5>2, <5>3, <5>4 DEF Whole
        <4>3. InodeOK(g)  BY <1>10, <2>3, <4>2
        <4>4. Keeps(vol, inode, m.v, jno)  BY <1>9, <2>1, <3>2, <4>2, <4>3
        <4> QED BY <1>2, <1>8, <4>4
      <3>4. CASE ~(~m.ok /\ m.f = f /\ SameClusters(vol, m.v))
        <4>1. PICK new \in Clusters \ vol.bitmap :
                /\ Through(m.v, Chain(m.f.start, f.size + 1, m.f.flags), Append(q, new))
                /\ Of(Append(q, new)) = Of(q) \cup {new}
                /\ m.v.bitmap = vol.bitmap \cup {new}
                /\ m.f.start = f.start /\ m.f.size = f.size
                /\ HintOK(m.f, Append(q, new))
          BY <3>2, <3>4
        <4>2. grown
          <5>1. new \in m.v.bitmap /\ new \notin vol.bitmap  BY <4>1
          <5> QED BY <5>1
        <4>3. m.ok /\ size = f.size + 1
          BY <1>3, <1>5, <2>3, <3>1, <4>2
        <4>4. g.start = f.start /\ g.size = f.size + 1 /\ g.flags = m.f.flags
              /\ g.hoff = m.f.hoff /\ g.hclu = m.f.hclu
          BY <1>4, <1>6, <4>1, <4>3
        <4>5. Len(Append(q, new)) = Len(q) + 1
          <5>1. q \in Seq(Clusters)  BY <2>2 DEF Through
          <5> QED BY <4>1, <5>1, AppendProperties
        <4>6. Whole(m.v, g, Append(q, new))
          <5> DEFINE p == Chain(m.f.start, f.size + 1, m.f.flags)
          <5>1. ChainOf(g).dir = p.dir /\ ChainOf(g).size = p.size /\ ChainOf(g).flags = p.flags
            BY <4>1, <4>4 DEF ChainOf, Chain
          <5> HIDE DEF p
          <5>2. Through(m.v, ChainOf(g), Append(q, new))
            BY <4>1, <5>1, SameChain DEF p
          <5>3. HintOK(g, Append(q, new))  BY <4>1, <4>4, Zenon DEF HintOK
          <5>4. g.size \in 1 .. Len(Append(q, new))  BY <2>2, <3>1, <4>4, <4>5
          <5>5. Of(Append(q, new)) \subseteq m.v.bitmap  BY <2>2, <4>1
          <5> QED BY <5>2, <5>3, <5>4, <5>5 DEF Whole
        <4>7. InodeOK(g)  BY <1>10, <2>3, <4>6
        <4>8. Of(Append(q, new)) \subseteq UsedBy(vol, f) \cup (Clusters \ vol.bitmap)
          BY <2>1, <4>1
        <4>9. Keeps(vol, inode, m.v, jno)  BY <1>9, <2>1, <3>2, <4>6, <4>7, <4>8
        <4> QED BY <1>2, <1>8, <4>9
      <3> QED BY <3>3, <3>4
    <2> QED BY <2>5, <2>6
  <1> QED BY <1>11, <1>12

LEMMA ReadKeeps ==
  ASSUME Inv, faults' = {}, NEW i \in Inodes, NEW off \in Nat, Read(i, off)
  PROVE  Keeps(vol, inode, vol', inode') /\ Dirs(inode', pending')
  <1>1. HasData(i) /\ Map(i, off, inode[i].size) /\ off < inode[i].size  BY DEF Read
  <1>2. MapsBehind(i, off, inode[i].size)  BY <1>1 DEF MapsBehind
  <1>3. inode[i].size \in Nat  BY <1>1 DEF Inv, Good, InodeOK, HasData, Free
  <1> QED BY <1>1, <1>2, <1>3, MapKeeps

LEMMA WriteKeeps ==
  ASSUME Inv, faults' = {}, NEW i \in Inodes, Write(i) \/ WriteFails(i)
  PROVE  Keeps(vol, inode, vol', inode') /\ Dirs(inode', pending')
  <1>1. PICK size \in {inode[i].size, inode[i].size + 1} :
          HasData(i) /\ Map(i, inode[i].size, size)
    BY DEF Write, WriteFails
  <1>2. inode[i].size \in Nat  BY <1>1 DEF Inv, Good, InodeOK, HasData, Free
  <1>3. size \in Nat /\ MapsBehind(i, inode[i].size, size)  BY <1>1, <1>2 DEF MapsBehind
  <1> QED BY <1>1, <1>2, <1>3, MapKeeps

(* exfat_setattr                                                           *)
LEMMA TruncateKeeps ==
  ASSUME Inv, faults' = {}, NEW i \in Inodes, NEW size \in Nat, Truncate(i, size)
  PROVE  Keeps(vol, inode, vol', inode') /\ Dirs(inode', pending')
  <1> DEFINE f == inode[i]
             g == [f EXCEPT !.size = size, !.dirty = TRUE,
                            !.flags = IF size = 0 THEN 3 ELSE @,
                            !.start = IF size = 0 THEN EOC ELSE @]
             e == EntrySet(vol, f.dir, f.entry)
             h == IF e THEN [g EXCEPT !.hoff = -1, !.hclu = EOC] ELSE g
             jno == [inode EXCEPT ![i] = h]
             q == Clus(vol, f)
  <1>1. /\ VolOK(vol) /\ Counted(vol) /\ DOMAIN inode = Inodes /\ Apart(vol, inode)
        /\ Good(vol, inode) /\ Dirs(inode, pending)
        /\ \A j \in Inodes : InodeOK(inode[j])
    BY DEF Inv, Good
  <1>2. /\ inode' = jno /\ pending' = pending /\ size < f.size
        /\ ~e => vol' = vol
        /\ e => f.st = "linked"
        /\ ~e => f.st # "linked"
        /\ f.st # "free" /\ f.type = "file" /\ i # Root /\ f # Free
    <2>1. f.st # "free" /\ f.type = "file" /\ size < f.size /\ pending' = pending
      BY DEF Truncate, HasData
    <2>2. i # Root /\ f # Free  BY <1>1, <2>1 DEF Dirs, Free
    <2>3. inode' = jno /\ (~e => vol' = vol)
      <3>1. CASE e  BY <3>1 DEF Truncate
      <3>2. CASE ~e  BY <3>2 DEF Truncate
      <3> QED BY <3>1, <3>2
    <2>4. e => Strays(inode, {i}) = {}  BY Zenon DEF Truncate
    <2>5. ~e => Misses(i) = {}  BY DEF Truncate
    <2>6. AtHome(vol, inode, i) => f.st = "linked"  BY DEF AtHome
    <2> QED BY <2>1, <2>2, <2>3, <2>4, <2>5, <2>6, Zenon DEF Strays, Misses, Linked
  <1>3. /\ FileOK(f) /\ f.flags \in {1, 3} /\ (Owns(f) <=> f.start # EOC)
        /\ f.st = "linked" /\ f.start = EOC => f.size = 0 /\ f.type = "file"
        /\ f.st = "orphan" => f.start = EOC
        /\ f.st \in {"linked", "orphan"} /\ f.size \in Nat /\ f.hoff \in Int
    BY <1>1, <1>2, OwnsIs DEF FileOK
  <1>4. /\ g.size = size /\ g.flags = (IF size = 0 THEN 3 ELSE f.flags) /\ g.hoff = f.hoff
        /\ g.start = (IF size = 0 THEN EOC ELSE f.start) /\ DOMAIN g = DOMAIN f
        /\ g.st = f.st /\ g.type = f.type
    BY <1>1, <1>2 DEF InodeOK
  <1> HIDE DEF g
  <1>5. /\ h.size = size /\ h.flags = g.flags /\ h.start = g.start /\ DOMAIN h = DOMAIN f
        /\ h.st = f.st /\ h.type = f.type /\ h.hoff \in Int
    BY <1>1, <1>2, <1>3, <1>4 DEF InodeOK
  <1> HIDE DEF h
  <1>6. InodeOK(h)
    <2>1. InodeOK(f)  BY <1>1
    <2> HIDE DEF f, e, q
    <2> QED BY <1>2, <1>3, <1>4, <1>5, <2>1 DEF InodeOK
  <1>7. \A j \in Inodes : jno[j] = IF j = i THEN h ELSE inode[j]  BY <1>1
  <1>8. /\ DOMAIN jno = Inodes /\ Dirs(jno, pending) /\ inode'[i] = h
        /\ \A j \in Inodes : InodeOK(jno[j])
    BY <1>1, <1>2, <1>5, <1>6, <1>7, DirsWith, Zenon
  <1> HIDE DEF jno
  <1>9. PICK w : w = vol'  OBVIOUS
  <1>10. CASE ~Owns(f)
    <2>1. f.st = "orphan" /\ f.start = EOC
      BY <1>2, <1>3, <1>10
    <2>2. w = vol  BY <1>2, <1>9, <2>1
    <2>3. ~Owns(h)  BY <1>4, <1>5, <2>1 DEF Owns
    <2>4. \A j \in Inodes : Owns(jno[j]) => SameData(inode[j], jno[j])
      BY <1>7, <2>3 DEF SameData
    <2>5. ChainsSame(vol, vol)  BY <1>1 DEF ChainsSame
    <2>6. Keeps(vol, inode, vol, jno)  BY <1>1, <1>8, <2>4, <2>5, KeepsChains
    <2> QED BY <1>2, <1>8, <1>9, <2>2, <2>6
  <1>11. CASE Owns(f)
    <2>1. e /\ f.st = "linked" /\ f.start # EOC  BY <1>2, <1>3, <1>11
    <2>2. Whole(vol, f, q) /\ UsedBy(vol, f) = Of(q)
      BY <1>1, <1>11 DEF Apart, UsedBy
    <2> HIDE DEF q
    <2>3. /\ Through(vol, ChainOf(f), q) /\ Of(q) \subseteq vol.bitmap
          /\ f.size \in 1 .. Len(q) /\ Len(q) \in Nat /\ f.size <= Len(q)
          /\ q \in Seq(Clusters) /\ \A j, k \in 1 .. Len(q) : q[j] = q[k] => j = k
      <3>1. Through(vol, ChainOf(f), q) /\ Of(q) \subseteq vol.bitmap /\ f.size \in 1 .. Len(q)
        BY <2>2 DEF Whole
      <3>2. Len(q) \in Nat  BY <3>1, RunEnd
      <3> QED BY <3>1, <3>2 DEF Through
    <2>4. /\ w.bitmap = vol.bitmap \ {q[k] : k \in size + 1 .. Len(q)}
          /\ size > 0 => Through(w, ChainOf(h), SubSeq(q, 1, size))
          /\ size = 0 => h.start = EOC
          /\ h.hoff = -1 /\ h.size = size
          /\ VolOK(w) /\ Counted(w) /\ OthersStay(vol, w, Of(q))
      <3>1. /\ vol'.bitmap = vol.bitmap \ {q[k] : k \in size + 1 .. Len(q)}
            /\ size > 0 => Through(vol', ChainOf(inode'[i]), SubSeq(q, 1, size))
            /\ size = 0 => inode'[i].start = EOC /\ inode'[i].flags = 3
            /\ inode'[i].hoff = -1
            /\ inode'[i].size = size
            /\ VolOK(vol') /\ Counted(vol') /\ OthersStay(vol, vol', Of(q))
        <4>1. i \in DOMAIN inode  BY <1>1
        <4> QED BY <1>1, <1>3, <2>1, <2>3, <4>1, TruncateFreesTheRest
      <3> QED BY <1>8, <1>9, <3>1
    <2>5. ASSUME Owns(h)
          PROVE  Whole(w, h, SubSeq(q, 1, size)) /\ Of(SubSeq(q, 1, size)) \subseteq Of(q)
      <3>1. size > 0  BY <2>4, <2>5 DEF Owns
      <3>2. size \in 1 .. Len(q) - 1 /\ 1 \in 1 .. Len(q) /\ size \in 1 .. Len(q)
            /\ size + 1 \in 1 .. Len(q) /\ Len(q) \in 1 .. Len(q) /\ size + 1 <= Len(q) /\ 1 <= size
        BY <1>2, <2>3, <3>1
      <3> DEFINE r == SubSeq(q, 1, size)
      <3>3. Len(r) = size - 1 + 1 /\ Of(r) \subseteq Of(q)  BY <2>3, <3>2, PartIs
      <3>4. Of(SubSeq(q, size + 1, Len(q))) = {q[k] : k \in size + 1 .. Len(q)}
        BY <2>3, <3>2, PartIs
      <3>5. Of(r) \cap Of(SubSeq(q, size + 1, Len(q))) = {}
        BY <2>3, <3>2, PartsDiffer
      <3> HIDE DEF r
      <3>6. Of(r) \subseteq w.bitmap  BY <2>3, <2>4, <3>3, <3>4, <3>5
      <3>7. h.size \in 1 .. Len(r)  BY <2>4, <3>1, <3>2, <3>3
      <3>8. HintOK(h, r)  BY <2>4 DEF HintOK
      <3>9. Whole(w, h, r)  BY <2>4, <3>1, <3>6, <3>7, <3>8 DEF Whole, r
      <3> QED BY <3>3, <3>9 DEF r
    <2>6. StepsOn(vol, inode, w, jno, i, SubSeq(q, 1, size))
      <3>1. \A j \in Inodes : j # i /\ Owns(jno[j]) => SameData(inode[j], jno[j])
        BY <1>7 DEF SameData
      <3> QED BY <1>1, <1>7, <2>2, <2>4, <2>5, <3>1 DEF StepsOn
    <2>7. Apart(w, jno) /\ StrangersStay(vol, inode, w, jno)  BY <2>6, StepOn
    <2>8. Keeps(vol, inode, w, jno)  BY <1>8, <2>4, <2>7 DEF Keeps, Good
    <2> QED BY <1>2, <1>8, <1>9, <2>8
  <1> QED BY <1>10, <1>11

(* exfat_rename                                                            *)

\* Two inodes that differ in their name, parent, place of the entry only.
Like(f, g) ==
    /\ DOMAIN g = DOMAIN f /\ g.st = f.st /\ g.type = f.type /\ g.start = f.start
    /\ g.size = f.size /\ g.flags = f.flags /\ g.hoff = f.hoff /\ g.hclu = f.hclu

LEMMA LikeIs ==
  ASSUME NEW f, InodeOK(f), f # Free, NEW g, Like(f, g)
  PROVE  InodeOK(g) /\ g # Free /\ (Owns(g) => SameData(f, g)) /\ ChainOf(g) = ChainOf(f)
         /\ (Owns(f) => Owns(g))
  <1>1. InodeOK(g)  BY DEF InodeOK, Like
  <1>2. g # Free
    <2>1. f.st \in {"linked", "orphan"}  BY OwnsIs
    <2> QED BY <2>1, FreeOwnsNone DEF Like
  <1> QED BY <1>1, <1>2 DEF Like, SameData, ChainOf, Owns

LEMMA LikeDir ==
  ASSUME NEW f, InodeOK(f), f # Free, NEW x
  PROVE  /\ Like(f, [f EXCEPT !.dir = x]) /\ [f EXCEPT !.dir = x].dir = x
         /\ [f EXCEPT !.dir = x].parent = f.parent
  BY DEF Like, InodeOK

LEMMA LikeExcept ==
  ASSUME NEW f, InodeOK(f), f # Free, NEW x, NEW y, NEW z
  PROVE  /\ Like(f, [f EXCEPT !.entry = x])
         /\ Like(f, [f EXCEPT !.dir = x, !.entry = y])
         /\ Like(f, [f EXCEPT !.parent = x, !.name = y, !.dirty = z])
  BY DEF Like, InodeOK

\* Each inode is what it was; a directory may have grown.
Grew(ino, jno) ==
    \A j \in Inodes : /\ jno[j].st = ino[j].st /\ jno[j].type = ino[j].type
                      /\ jno[j].start = ino[j].start
                      /\ ino[j].flags = 1 => jno[j].flags = 1

LEMMA WrittenKeeps ==
  ASSUME NEW v, NEW ino, Good(v, ino), NEW w, SameFat(v, w), NEW i \in Inodes, ino[i] # Free,
         NEW g, Like(ino[i], g)
  PROVE  LET jno == [ino EXCEPT ![i] = g]
         IN Keeps(v, ino, w, jno) /\ Grew(ino, jno)
  <1> DEFINE jno == [ino EXCEPT ![i] = g]
  <1>1. /\ VolOK(v) /\ Counted(v) /\ DOMAIN ino = Inodes /\ \A j \in Inodes : InodeOK(ino[j])
    BY DEF Good
  <1>2. \A j \in Inodes : jno[j] = IF j = i THEN g ELSE ino[j]  BY <1>1
  <1>3. InodeOK(g) /\ (Owns(g) => SameData(ino[i], g))  BY <1>1, LikeIs
  <1>4. /\ DOMAIN jno = Inodes
        /\ \A j \in Inodes : InodeOK(jno[j]) /\ (Owns(jno[j]) => SameData(ino[j], jno[j]))
    BY <1>1, <1>2, <1>3 DEF SameData
  <1>5. Grew(ino, jno)  BY <1>2 DEF Grew, Like
  <1> HIDE DEF jno
  <1>6. ChainsSame(v, w)  BY <1>1, SameFatChains
  <1>7. Keeps(v, ino, w, jno)  BY <1>4, <1>6, KeepsChains
  <1> QED BY <1>5, <1>7 DEF jno

LEMMA RewriteIs ==
  ASSUME NEW v, VolOK(v), NEW p, NEW e, NEW head, NEW p2, NEW e2, NEW order, NEW n
  PROVE  SameFat(v, DeleteEntry(PutEntry(v, p, e, head), p2, e2, order, n))
  <1> DEFINE u == PutEntry(v, p, e, head)
             w == DeleteEntry(u, p2, e2, order, n)
  <1>1. SameFat(v, u)  BY PutEntryIs
  <1> HIDE DEF u
  <1>2. VolOK(u)  BY <1>1, SameFatIs
  <1>3. SameFat(u, w)  BY <1>2, DeleteEntryIs
  <1> HIDE DEF w
  <1> QED BY <1>1, <1>3, SameFatTrans DEF u, w

\* rename_file, move_file: the inode i gets an entry in the directory d.
Places(v, ino, i, d, name, r) ==
    \/ r = MoveFile(v, ino, i, d, name)
    \/ /\ r = RenameFile(v, ino, i, name)
       /\ ino[i].parent = d /\ ino[i].dir = ChainOf(ino[d])

LEMMA PlacesKeeps ==
  ASSUME NEW v, NEW ino, Good(v, ino), NEW i \in Inodes, NEW d \in Inodes, NEW name,
         ino[i] # Free, Owns(ino[d]), NEW r, Places(v, ino, i, d, name, r)
  PROVE  Keeps(v, ino, r.v, r.ino) /\ Grew(ino, r.ino)
  <1> DEFINE f == ino[i]
             e == FindEmpty(v, ino, d, ChainOf(ino[d]), NameLen[name])
  <1>1. VolOK(v) /\ DOMAIN ino = Inodes /\ InodeOK(f)  BY DEF Good
  <1>2. Keeps(v, ino, e.v, e.ino) /\ OnlyGrows(ino, e.ino, d)  BY FindEmptyKeeps
  <1>3. \/ \E p, x, head, p2, y, order, n :
             r.v = DeleteEntry(PutEntry(v, p, x, head), p2, y, order, n) /\ r.ino = ino
        \/ r.v = e.v /\ r.ino = e.ino
        \/ \E p, x, head, p2, y, order, n :
             /\ r.v = DeleteEntry(PutEntry(e.v, p, x, head), p2, y, order, n)
             /\ \/ r.ino = [e.ino EXCEPT ![i].entry = x]
                \/ r.ino = [e.ino EXCEPT ![i].dir = p, ![i].entry = x]
    <2>1. CASE r = MoveFile(v, ino, i, d, name)
      <3> HIDE DEF e
      <3> QED BY <2>1, Zenon DEF MoveFile, e
    <2>2. CASE r = RenameFile(v, ino, i, name) /\ ino[i].parent = d /\ ino[i].dir = ChainOf(ino[d])
      <3> HIDE DEF e
      <3> QED BY <2>2, Zenon DEF RenameFile, e
    <2> QED BY <2>1, <2>2, Zenon DEF Places
  <1> HIDE DEF e
  <1>4. Good(e.v, e.ino) /\ VolOK(e.v) /\ DOMAIN e.ino = Inodes /\ InodeOK(e.ino[i])
        /\ e.ino[i] # Free /\ Grew(ino, e.ino)
    <2>1. Good(e.v, e.ino)  BY <1>2 DEF Keeps
    <2>2. VolOK(e.v) /\ DOMAIN e.ino = Inodes /\ InodeOK(e.ino[i])  BY <2>1 DEF Good
    <2>3. Grew(ino, e.ino)  BY <1>2 DEF OnlyGrows, Grew
    <2>4. f.st \in {"linked", "orphan"} /\ e.ino[i].st = f.st  BY <1>1, <2>3, OwnsIs DEF Grew
    <2>5. e.ino[i] # Free  BY <2>4, FreeOwnsNone
    <2> QED BY <2>1, <2>2, <2>3, <2>5
  <1>5. CASE \E p, x, head, p2, y, order, n :
               r.v = DeleteEntry(PutEntry(v, p, x, head), p2, y, order, n) /\ r.ino = ino
    <2>1. SameFat(v, r.v) /\ r.ino = ino  BY <1>1, <1>5, RewriteIs
    <2>2. VolOK(v) /\ Counted(v)  BY DEF Good
    <2>3. Keeps(v, ino, r.v, ino)  BY <2>1, <2>2, SameFatChains, VolumeKeeps
    <2> QED BY <2>1, <2>3 DEF Grew
  <1>6. CASE r.v = e.v /\ r.ino = e.ino  BY <1>2, <1>4, <1>6
  <1>7. CASE \E p, x, head, p2, y, order, n :
               /\ r.v = DeleteEntry(PutEntry(e.v, p, x, head), p2, y, order, n)
               /\ \/ r.ino = [e.ino EXCEPT ![i].entry = x]
                  \/ r.ino = [e.ino EXCEPT ![i].dir = p, ![i].entry = x]
    <2>0. PICK p, x, head, p2, y, order, n :
            /\ r.v = DeleteEntry(PutEntry(e.v, p, x, head), p2, y, order, n)
            /\ \/ r.ino = [e.ino EXCEPT ![i].entry = x]
               \/ r.ino = [e.ino EXCEPT ![i].dir = p, ![i].entry = x]
      BY <1>7, Zenon
    <2>1. SameFat(e.v, r.v)  BY <1>4, <2>0, RewriteIs
    <2> DEFINE g == e.ino[i]
    <2>2. \E h : Like(g, h) /\ r.ino = [e.ino EXCEPT ![i] = h]
      <3>1. CASE r.ino = [e.ino EXCEPT ![i].entry = x]
        <4>1. r.ino = [e.ino EXCEPT ![i] = [g EXCEPT !.entry = x]]  BY <3>1
        <4>2. Like(g, [g EXCEPT !.entry = x])  BY <1>4, LikeExcept, Zenon
        <4> QED BY <4>1, <4>2
      <3>2. CASE r.ino = [e.ino EXCEPT ![i].dir = p, ![i].entry = x]
        <4>1. r.ino = [e.ino EXCEPT ![i] = [g EXCEPT !.dir = p, !.entry = x]]  BY <1>4, <3>2, Zenon
        <4>2. Like(g, [g EXCEPT !.dir = p, !.entry = x])  BY <1>4, LikeExcept, Zenon
        <4> QED BY <4>1, <4>2
      <3> QED BY <2>0, <3>1, <3>2
    <2>3. Keeps(e.v, e.ino, r.v, r.ino) /\ Grew(e.ino, r.ino)
      BY <1>4, <2>1, <2>2, WrittenKeeps
    <2>4. Keeps(v, ino, r.v, r.ino)  BY <1>2, <2>3, KeepsTrans
    <2>5. Grew(ino, r.ino)  BY <1>4, <2>3 DEF Grew
    <2> QED BY <2>4, <2>5
  <1> QED BY <1>3, <1>5, <1>6, <1>7, Zenon

LEMMA RenameKeeps ==
  ASSUME Inv, faults' = {}, NEW i \in Inodes, NEW d \in Inodes, NEW name,
         NEW held \in BOOLEAN, Rename(i, d, name, held)
  PROVE  Keeps(vol, inode, vol', inode') /\ Dirs(inode', pending')
  <1> DEFINE targets == Positive(d, name)
             fresh == [j \in Inodes |-> IF j \in targets \cup {i} THEN Refreshed(inode[j], inode)
                                        ELSE inode[j]]
             Moved(f) == [f EXCEPT !.parent = d, !.name = name, !.dirty = TRUE]
             Left(f) == IF held THEN [f EXCEPT !.st = "orphan"] ELSE Free
  <1>1. /\ VolOK(vol) /\ Counted(vol) /\ DOMAIN inode = Inodes /\ Apart(vol, inode)
        /\ Good(vol, inode) /\ Dirs(inode, pending)
        /\ \A j \in Inodes : InodeOK(inode[j])
    BY DEF Inv, Good
  <1>2. PICK r :
          /\ r = IF inode[i].parent = d THEN RenameFile(vol, fresh, i, name)
                 ELSE MoveFile(vol, fresh, i, d, name)
          /\ IF ~r.ok
             THEN vol' = r.v /\ inode' = r.ino
             ELSE /\ vol' = r.v \/ \E p, e, n : vol' = DeleteEntry(r.v, p, e, 0, n)
                  /\ inode' = [j \in Inodes |-> IF j = i THEN Moved(r.ino[j])
                                                ELSE IF j \in targets THEN Left(r.ino[j])
                                                ELSE r.ino[j]]
                  /\ \A t \in targets : inode[t].start = EOC
    <2>1. PICK r \in {IF inode[i].parent = d THEN RenameFile(vol, fresh, i, name)
                      ELSE MoveFile(vol, fresh, i, d, name)} :
            /\ IF ~r.ok
               THEN vol' = r.v /\ inode' = r.ino
               ELSE /\ vol' = IF targets = {} THEN r.v
                              ELSE LET f == r.ino[CHOOSE t \in targets : TRUE]
                                   IN DeleteEntry(r.v, f.dir, f.entry, 0,
                                                  EntryLength(r.v, f.dir, f.entry))
                    /\ inode' = [j \in Inodes |-> IF j = i THEN Moved(r.ino[j])
                                                  ELSE IF j \in targets THEN Left(r.ino[j])
                                                  ELSE r.ino[j]]
            /\ IF r.ok /\ \E t \in targets : inode[t].start # EOC THEN {"leak"} \subseteq faults'
               ELSE TRUE
      BY Zenon DEF Rename
    <2>2. r.ok => \A t \in targets : inode[t].start = EOC  BY <2>1, Zenon
    <2>3. ~r.ok \/ vol' = r.v \/ \E p, e, n : vol' = DeleteEntry(r.v, p, e, 0, n)
      <3> DEFINE f == r.ino[CHOOSE t \in targets : TRUE]
      <3>1. r.ok => vol' = IF targets = {} THEN r.v
                           ELSE DeleteEntry(r.v, f.dir, f.entry, 0,
                                            EntryLength(r.v, f.dir, f.entry))
        BY <2>1, Zenon
      <3> HIDE DEF targets, fresh, f
      <3> QED BY <3>1
    <2>4. /\ r = IF inode[i].parent = d THEN RenameFile(vol, fresh, i, name)
                 ELSE MoveFile(vol, fresh, i, d, name)
          /\ ~r.ok => vol' = r.v /\ inode' = r.ino
          /\ r.ok => inode' = [j \in Inodes |-> IF j = i THEN Moved(r.ino[j])
                                               ELSE IF j \in targets THEN Left(r.ino[j])
                                               ELSE r.ino[j]]
      BY <2>1, Zenon
    <2> HIDE DEF targets, fresh, Moved, Left
    <2> QED BY <2>2, <2>3, <2>4
  <1>3. /\ inode[i].st = "linked" /\ i # Root /\ inode[d].st = "linked" /\ inode[d].type = "dir"
        /\ i \notin targets /\ targets \subseteq Inodes /\ Root \notin targets
        /\ \A t \in targets : inode[t].st = "linked"
        /\ pending' = [pending EXCEPT ![d] = None]
    BY Zenon DEF Rename, Linked, OpenDir, IsDir, Positive
  <1> HIDE DEF targets
  <1>4. ASSUME NEW j \in Inodes
        PROVE  /\ Like(inode[j], fresh[j]) /\ InodeOK(fresh[j])
               /\ Owns(fresh[j]) => SameData(inode[j], fresh[j])
               /\ ChainOf(fresh[j]) = ChainOf(inode[j]) \/ inode[j] = Free
    <2>1. CASE j \in targets \cup {i}
      <3>1. inode[j] # Free  BY <1>3, <2>1, FreeOwnsNone
      <3>2. fresh[j] = [inode[j] EXCEPT !.dir = ChainOf(inode[inode[j].parent])]
        BY <2>1 DEF Refreshed
      <3> HIDE DEF fresh
      <3>3. Like(inode[j], fresh[j])  BY <1>1, <3>1, <3>2, LikeDir
      <3> QED BY <1>1, <3>1, <3>3, LikeIs
    <2>2. CASE j \notin targets \cup {i}
      <3>1. fresh[j] = inode[j]  BY <2>2
      <3> HIDE DEF fresh
      <3> QED BY <1>1, <3>1 DEF Like, SameData
    <2> QED BY <2>1, <2>2
  <1>5. /\ DOMAIN fresh = Inodes
        /\ fresh[i].parent = inode[i].parent
        /\ fresh[i].dir = ChainOf(inode[inode[i].parent])
        /\ inode[i] # Free /\ inode[d] # Free
    <2>1. inode[i] # Free /\ inode[d] # Free  BY <1>3, FreeOwnsNone
    <2>2. fresh[i] = [inode[i] EXCEPT !.dir = ChainOf(inode[inode[i].parent])]
      BY DEF Refreshed
    <2>3. DOMAIN fresh = Inodes  OBVIOUS
    <2> HIDE DEF fresh
    <2>4. /\ fresh[i].parent = inode[i].parent
          /\ fresh[i].dir = ChainOf(inode[inode[i].parent])
      BY <1>1, <2>1, <2>2, LikeDir
    <2> QED BY <2>1, <2>3, <2>4
  <1> HIDE DEF fresh
  <1>6. Keeps(vol, inode, vol, fresh) /\ Grew(inode, fresh)
    <2>1. ChainsSame(vol, vol)  BY <1>1 DEF ChainsSame
    <2>2. Keeps(vol, inode, vol, fresh)  BY <1>1, <1>4, <1>5, <2>1, KeepsChains
    <2> QED BY <1>4, <2>2 DEF Grew, Like
  <1>7. Keeps(vol, fresh, r.v, r.ino) /\ Grew(fresh, r.ino)
    <2>1. Good(vol, fresh)  BY <1>6 DEF Keeps
    <2>2. fresh[i] # Free /\ Owns(fresh[d]) /\ ChainOf(fresh[d]) = ChainOf(inode[d])
      <3>1. Owns(inode[d])  BY <1>1, <1>3, DirOwns
      <3> QED BY <1>1, <1>4, <1>5, <3>1, LikeIs
    <2>3. Places(vol, fresh, i, d, name, r)  BY <1>2, <1>5, <2>2, Zenon DEF Places
    <2> QED BY <2>1, <2>2, <2>3, PlacesKeeps
  <1>8. Keeps(vol, inode, r.v, r.ino) /\ Grew(inode, r.ino)
    <2>1. Keeps(vol, inode, r.v, r.ino)  BY <1>6, <1>7, KeepsTrans
    <2> QED BY <1>6, <1>7, <2>1 DEF Grew
  <1>9. /\ Good(r.v, r.ino) /\ VolOK(r.v) /\ Counted(r.v) /\ DOMAIN r.ino = Inodes
        /\ \A j \in Inodes : InodeOK(r.ino[j])
    BY <1>8 DEF Keeps, Good
  <1>10. Root \in Inodes  BY VolumeAssumption
  <1>11. CASE ~r.ok
    <2>1. vol' = r.v /\ inode' = r.ino  BY <1>2, <1>11
    <2>2. Dirs(r.ino, pending')
      BY <1>1, <1>3, <1>8, <1>10 DEF Dirs, Grew
    <2> QED BY <1>8, <2>1, <2>2
  <1>12. CASE r.ok
    <2> DEFINE jno == [j \in Inodes |-> IF j = i THEN Moved(r.ino[j])
                                        ELSE IF j \in targets THEN Left(r.ino[j])
                                        ELSE r.ino[j]]
    <2>1. /\ inode' = jno /\ (vol' = r.v \/ \E p, e, n : vol' = DeleteEntry(r.v, p, e, 0, n))
          /\ \A t \in targets : inode[t].start = EOC
      BY <1>2, <1>12, Zenon
    <2>2. PICK w : w = vol'  OBVIOUS
    <2>3. ChainsSame(r.v, w)
      <3>1. SameFat(r.v, r.v)  BY <1>9, SlotsAndHint, Zenon DEF VolOK
      <3>2. SameFat(r.v, w)  BY <1>9, <2>1, <2>2, <3>1, DeleteEntryIs, Zenon
      <3> QED BY <1>9, <3>2, SameFatChains
    <2>4. /\ Like(r.ino[i], jno[i]) /\ InodeOK(jno[i])
          /\ Owns(jno[i]) => SameData(r.ino[i], jno[i])
      <3>1. r.ino[i] # Free  BY <1>3, <1>8, FreeOwnsNone DEF Grew
      <3>2. jno[i] = Moved(r.ino[i])  OBVIOUS
      <3>3. Like(r.ino[i], Moved(r.ino[i]))  BY <1>9, <3>1, LikeExcept, Zenon
      <3> HIDE DEF jno, Moved
      <3> QED BY <1>9, <3>1, <3>2, <3>3, LikeIs
    <2>5. ASSUME NEW t \in targets
          PROVE  /\ InodeOK(jno[t]) /\ ~Owns(jno[t]) /\ t # Root /\ t # i
                 /\ pending[t] = None
      <3>1. t \in Inodes /\ t # i /\ t # Root /\ inode[t].start = EOC /\ inode[t].st = "linked"
        BY <1>3, <2>1, Zenon
      <3>2. inode[t] # Free /\ inode[t].type = "file"
        <4>1. inode[t] # Free  BY <3>1, FreeOwnsNone
        <4> QED BY <1>1, <3>1, <4>1, OwnsIs
      <3>3. pending[t] = None  BY <1>1, <3>1, <3>2 DEF Dirs
      <3>4. jno[t] = Left(r.ino[t])  BY <3>1
      <3>5. InodeOK(Left(r.ino[t])) /\ ~Owns(Left(r.ino[t]))
        <4> DEFINE f == r.ino[t]
        <4>1. InodeOK(f) /\ f.start = EOC /\ f.st = "linked"
          BY <1>8, <1>9, <3>1 DEF Grew
        <4> HIDE DEF f
        <4>2. f # Free  BY <4>1, FreeOwnsNone
        <4>3. CASE held
          <5> DEFINE h == [f EXCEPT !.st = "orphan"]
          <5>1. /\ DOMAIN h = DOMAIN f /\ h.st = "orphan" /\ h.type = f.type
                /\ h.flags = f.flags /\ h.start = f.start /\ h.hoff = f.hoff /\ h.size = f.size
            BY <4>1, <4>2 DEF InodeOK
          <5> HIDE DEF h
          <5>2. InodeOK(h) /\ ~Owns(h)  BY <4>1, <4>2, <5>1 DEF InodeOK, Owns
          <5> QED BY <4>3, <5>2 DEF h, f
        <4>4. CASE ~held  BY <4>4, FreeOwnsNone
        <4> QED BY <4>3, <4>4
      <3> QED BY <3>1, <3>3, <3>4, <3>5
    <2>6. \A j \in Inodes : j # i /\ j \notin targets => jno[j] = r.ino[j]  OBVIOUS
    <2>7. DOMAIN jno = Inodes  OBVIOUS
    <2> HIDE DEF jno
    <2>8. \A j \in Inodes : InodeOK(jno[j]) /\ (Owns(jno[j]) => SameData(r.ino[j], jno[j]))
      BY <1>9, <2>4, <2>5, <2>6 DEF SameData
    <2>9. Keeps(r.v, r.ino, w, jno)  BY <1>9, <2>3, <2>7, <2>8, KeepsChains
    <2>10. Keeps(vol, inode, w, jno)  BY <1>8, <2>9, KeepsTrans
    <2>11. Dirs(jno, pending')
      <3>1. \A j \in Inodes : j \notin targets =>
              /\ jno[j].st = inode[j].st /\ jno[j].type = inode[j].type
              /\ jno[j].start = inode[j].start
              /\ inode[j].flags = 1 => jno[j].flags = 1
        BY <1>8, <2>4, <2>6 DEF Like, Grew
      <3>2. Root \notin targets  BY <1>3
      <3> QED BY <1>1, <1>3, <1>10, <2>5, <3>1, <3>2 DEF Dirs
    <2> QED BY <2>1, <2>2, <2>10, <2>11
  <1> QED BY <1>11, <1>12

(* exfat_lookup                                                            *)
LEMMA FoundIsThere ==
  ASSUME NEW v, NEW p, NEW name
  PROVE  LET e == FindDirEntry(v, p, name).entry
             h == Slot(v, p, e)
         IN \/ e = -2
            \/ e \in Nat /\ h \in HeadsOf(v, p) /\ h.type \in {"file", "dir"} /\ h.name = name
  <1> DEFINE s == Scan(v, p)
             r == FindIn(s, v, p, name)
             seen == {j \in DOMAIN s : \A k \in 0 .. j - 1 : s[k] # Unused}
             hits == {j \in seen : IsHead(s[j]) /\ s[j].name = name /\
                                   \A m \in 1 .. NameLen[name] - 1 : j + m \in seen /\ s[j + m] = Ext}
             j == r.entry
  <1>1. r = FindDirEntry(v, p, name)  BY DEF FindDirEntry
  <1>2. DOMAIN s = 0 .. ChainLen(v, p) * SlotsPerClu - 1 /\ \A k \in DOMAIN s : s[k] = Slot(v, p, k)
    BY DEF Scan
  <1>3. (hits # {} => r.entry = Least(hits)) /\ (hits = {} => r.entry = -2)
    <2> HIDE DEF s
    <2> QED BY DEF FindIn
  <1> HIDE DEF r, s
  <1>4. hits \subseteq DOMAIN s /\ \A k \in hits : IsHead(s[k]) /\ s[k].name = name
    OBVIOUS
  <1> HIDE DEF hits
  <1>5. hits \in SUBSET Nat  BY <1>2, <1>4
  <1>6. hits # {} => Least(hits) \in hits
    <2> SUFFICES ASSUME hits # {} PROVE Least(hits) \in hits
      OBVIOUS
    <2>1. \E n \in hits : \A m \in hits : n <= m  BY <1>5, LeastNat
    <2> QED BY <2>1 DEF Least
  <1>7. CASE hits = {}  BY <1>1, <1>3, <1>7
  <1>8. CASE hits # {}
    <2>1. j \in DOMAIN s /\ IsHead(s[j]) /\ s[j].name = name /\ j \in Nat
      BY <1>3, <1>4, <1>5, <1>6, <1>8
    <2>2. s[j] = Slot(v, p, j)  BY <1>2, <2>1
    <2>3. s[j] \in HeadsOf(v, p)  BY <2>1 DEF HeadsOf, s
    <2> QED BY <1>1, <2>1, <2>2, <2>3 DEF IsHead
  <1> QED BY <1>7, <1>8

LEMMA LookupKeeps ==
  ASSUME Inv, EntriesApart, NEW d \in Inodes, NEW name, Lookup(d, name)
  PROVE  Good(vol', inode') /\ Dirs(inode', pending')
  <1> DEFINE p == ChainOf(inode[d])
             r == FindDirEntry(vol, p, name)
             h == Slot(vol, p, r.entry)
             empty == h.type = "file" /\ h.size = 0
             New == NewInode(h.type, name, d, p, r.entry, IF empty THEN 3 ELSE h.flags,
                             IF empty THEN EOC ELSE h.clu, h.size)
  <1>1. /\ VolOK(vol) /\ Counted(vol) /\ DOMAIN inode = Inodes /\ Apart(vol, inode)
        /\ Good(vol, inode) /\ Dirs(inode, pending)
        /\ \A j \in Inodes : InodeOK(inode[j])
    BY DEF Inv, Good
  <1>2. /\ inode[d].st = "linked" /\ inode[d].type = "dir" /\ Positive(d, name) = {}
        /\ vol' = r.v
        /\ r.entry < 0 => pending' = [pending EXCEPT ![d] = name] /\ inode' = inode
        /\ ~(r.entry < 0) => /\ pending' = pending
                             /\ \E i \in Inodes : /\ inode[i].st = "free"
                                                  /\ inode' = [inode EXCEPT ![i] = New]
    BY DEF Lookup, OpenDir, Linked, IsDir
  <1>3. ChainsSame(vol, vol')
    <2>1. SameFat(vol, r.v)  BY <1>1, FoundIs
    <2> QED BY <1>1, <1>2, <2>1, SameFatChains
  <1>4. PICK w : w = vol'  OBVIOUS
  <1>5. CASE r.entry < 0
    <2>1. Keeps(vol, inode, w, inode)  BY <1>1, <1>3, <1>4, VolumeKeeps
    <2>2. Dirs(inode, [pending EXCEPT ![d] = name])  BY <1>1, <1>2 DEF Dirs
    <2> QED BY <1>2, <1>4, <1>5, <2>1, <2>2 DEF Keeps
  <1>6. CASE ~(r.entry < 0)
    <2>1. /\ h \in HeadsOf(vol, p) /\ h.type \in {"file", "dir"} /\ h.name = name
      BY <1>6, FoundIsThere
    <2>2. PICK i \in Inodes : inode[i].st = "free" /\ inode' = [inode EXCEPT ![i] = New]
      BY <1>2, <1>6
    <2> HIDE DEF r
    <2> DEFINE q == ChainSeq(vol, HeadChain(h))
    <2>3. empty \/ (Stranger(vol, inode, HeadChain(h), q) /\ h.size \in 1 .. Len(q))
      <3>1. \A x \in HeadsOf(vol, p) :
              LET y == ChainSeq(vol, HeadChain(x))
              IN \/ Positive(d, x.name) # {}
                 \/ x.type = "file" /\ x.size = 0
                 \/ Stranger(vol, inode, HeadChain(x), y) /\ x.size \in 1 .. Len(y)
        BY <1>2 DEF EntriesApart, Linked, IsDir
      <3> HIDE DEF h, p
      <3>2. Positive(d, h.name) = {} /\ h \in HeadsOf(vol, p)  BY <1>2, <2>1
      <3>3. \/ Positive(d, h.name) # {}
            \/ h.type = "file" /\ h.size = 0
            \/ Stranger(vol, inode, HeadChain(h), q) /\ h.size \in 1 .. Len(q)
        BY ONLY <3>1, <3>2 DEF q
      <3> QED BY <3>2, <3>3
    <2> HIDE DEF h, q
    <2>4. /\ New.st = "linked" /\ New.type = h.type /\ New.size = h.size
          /\ New.flags = (IF empty THEN 3 ELSE h.flags)
          /\ New.start = (IF empty THEN EOC ELSE h.clu) /\ New.hoff = -1
          /\ DOMAIN New = {"st", "type", "name", "parent", "dir", "entry", "flags", "start",
                           "size", "hoff", "hclu", "dirty"}
      BY DEF NewInode
    <2> HIDE DEF New
    <2>5. ~empty => /\ Whole(vol, New, q) /\ Len(q) \in Nat /\ h.flags \in {1, 3}
                    /\ h.clu # EOC /\ h.size \in Nat
      <3> SUFFICES ASSUME ~empty
                   PROVE  /\ Whole(vol, New, q) /\ Len(q) \in Nat /\ h.flags \in {1, 3}
                          /\ h.clu # EOC /\ h.size \in Nat
        OBVIOUS
      <3>1. /\ Through(vol, HeadChain(h), q) /\ Of(q) \subseteq vol.bitmap
            /\ h.size \in 1 .. Len(q)
        BY <2>3 DEF Stranger
      <3>2. HeadChain(h) = ChainOf(New)  BY <2>4 DEF HeadChain, ChainOf
      <3>3. Len(q) \in Nat /\ HeadChain(h).dir \in Clusters  BY <3>1, RunEnd
      <3>4. HeadChain(h).dir = h.clu /\ HeadChain(h).flags = h.flags  BY DEF HeadChain, Chain
      <3>5. h.flags \in {1, 3} /\ h.clu # EOC /\ h.size \in Nat
        BY <3>1, <3>3, <3>4, ClusterFacts DEF Through
      <3>6. HintOK(New, q)  BY <2>4 DEF HintOK
      <3> QED BY <2>4, <3>1, <3>2, <3>3, <3>5, <3>6 DEF Whole
    <2>6. InodeOK(New)
      <3>1. CASE empty  BY <2>1, <2>4, <3>1 DEF InodeOK
      <3>2. CASE ~empty  BY <2>1, <2>4, <2>5, <3>2 DEF InodeOK
      <3> QED BY <3>1, <3>2
    <2>7. ~empty <=> Owns(New)  BY <2>4, <2>5 DEF Owns
    <2> HIDE DEF empty
    <2> DEFINE jno == [inode EXCEPT ![i] = New]
    <2>8. \A j \in Inodes : jno[j] = IF j = i THEN New ELSE inode[j]  BY <1>1
    <2>9. DOMAIN jno = Inodes /\ \A j \in Inodes : InodeOK(jno[j])  BY <1>1, <2>6, <2>8
    <2>10. i # Root /\ pending[i] = None  BY <1>1, <2>2 DEF Dirs
    <2>11. Dirs(jno, pending)  BY <1>1, <2>10, DirsWith, Zenon
    <2> HIDE DEF jno
    <2>12. w.bitmap = vol.bitmap /\ w.fat = vol.fat /\ VolOK(w) /\ Counted(w)
      BY <1>3, <1>4 DEF ChainsSame
    <2>13. CASE empty
      <3>1. \A j \in Inodes : Owns(jno[j]) => SameData(inode[j], jno[j])
        BY <2>7, <2>8, <2>13 DEF SameData
      <3>2. Keeps(vol, inode, w, jno)  BY <1>1, <1>3, <1>4, <2>9, <3>1, KeepsChains
      <3> QED BY <1>2, <1>4, <1>6, <2>2, <2>11, <3>2 DEF jno, Keeps
    <2>14. CASE ~empty
      <3>1. Whole(w, New, q)  BY <2>5, <2>12, <2>14 DEF Whole, Through
      <3>2. Clus(w, New) = q  BY <2>12, <3>1, WholeIsClus
      <3>3. ASSUME NEW j \in Inodes, j # i, Owns(jno[j])
            PROVE  /\ Whole(w, jno[j], Clus(w, jno[j])) /\ Owns(inode[j]) /\ jno[j] = inode[j]
                   /\ Clus(w, jno[j]) = Clus(vol, inode[j])
                   /\ Of(Clus(w, jno[j])) \cap Of(q) = {}
        <4> DEFINE r2 == Clus(vol, inode[j])
        <4>1. jno[j] = inode[j] /\ Owns(inode[j])  BY <2>8, <3>3
        <4>2. Whole(vol, inode[j], r2)  BY <1>1, <4>1 DEF Apart
        <4>3. Of(r2) \cap Of(q) = {}  BY <2>3, <2>14, <4>1 DEF Stranger
        <4> HIDE DEF r2
        <4>4. Whole(w, inode[j], r2)  BY <2>12, <4>2 DEF Whole, Through
        <4>5. Clus(w, inode[j]) = r2  BY <2>12, <4>4, WholeIsClus
        <4> QED BY <4>1, <4>3, <4>4, <4>5 DEF r2
      <3>4. Apart(w, jno)
        <4>1. ASSUME NEW j \in Inodes, Owns(jno[j]) PROVE Whole(w, jno[j], Clus(w, jno[j]))
          BY <2>8, <3>1, <3>2, <3>3, <4>1
        <4>2. ASSUME NEW j \in Inodes, NEW k \in Inodes, Owns(jno[j]), Owns(jno[k]), j # k
              PROVE  Of(Clus(w, jno[j])) \cap Of(Clus(w, jno[k])) = {}
          <5>1. CASE j = i  BY <2>8, <3>2, <3>3, <4>2, <5>1
          <5>2. CASE k = i  BY <2>8, <3>2, <3>3, <4>2, <5>2
          <5>3. CASE j # i /\ k # i
            <6>1. /\ Clus(w, jno[j]) = Clus(vol, inode[j]) /\ Owns(inode[j])
                  /\ Clus(w, jno[k]) = Clus(vol, inode[k]) /\ Owns(inode[k])
              BY <3>3, <4>2, <5>3
            <6> QED BY <1>1, <4>2, <6>1 DEF Apart
          <5> QED BY <5>1, <5>2, <5>3
        <4> QED BY <4>1, <4>2 DEF Apart
      <3>5. Good(w, jno)  BY <2>9, <2>12, <3>4 DEF Good
      <3> QED BY <1>2, <1>4, <1>6, <2>2, <2>11, <3>5 DEF jno
    <2> QED BY <2>13, <2>14
  <1> QED BY <1>5, <1>6

-----------------------------------------------------------------------------
(* All of them.                                                            *)

\* The step of a lookup, which may give an inode to a file that had none.
LooksUp == \E d \in Inodes, name \in Names : Lookup(d, name)

(* Every operation of the driver, whatever fails in it, leaves each inode  *)
(* with a whole chain of its own, and the chain of each file that has no   *)
(* inode as it was, unless a fault happens that the model records: space   *)
(* is lost (a rename onto a file, a failed write, a file without a name)   *)
(* or an entry is not found where the inode says it is.  A lookup, which   *)
(* makes an inode of what an entry says, needs entries that say the truth. *)
THEOREM OperationsKeepFilesApart ==
  ASSUME Inv, Next, faults' = {}, LooksUp => EntriesApart
  PROVE  Inv' /\ (LooksUp \/ StrangersStay(vol, inode, vol', inode'))
  <1>1. \/ LooksUp
        \/ \E d \in Inodes : Abandon(d) \/ Create(d) \/ Mkdir(d)
        \/ \E i \in Inodes, held \in BOOLEAN : Unlink(i, held) \/ Rmdir(i, held)
        \/ \E i, d \in Inodes, name \in Names, held \in BOOLEAN : Rename(i, d, name, held)
        \/ \E i \in Inodes, k \in 0 .. MaxSize : Read(i, k) \/ Truncate(i, k)
        \/ \E i \in Inodes : Write(i) \/ WriteFails(i) \/ WriteInode(i) \/ Evict(i)
        \/ Statfs \/ Remount
    BY DEF Next, LooksUp
  <1>2. SUFFICES ASSUME \/ Keeps(vol, inode, vol', inode') /\ Dirs(inode', pending')
                        \/ LooksUp /\ Good(vol', inode') /\ Dirs(inode', pending')
                 PROVE  Inv' /\ (LooksUp \/ StrangersStay(vol, inode, vol', inode'))
    <2>1. CASE LooksUp  BY <2>1, LookupKeeps DEF LooksUp
    <2>2. CASE \E d \in Inodes : Abandon(d) \/ Create(d) \/ Mkdir(d)
      BY <2>2, AbandonKeeps, CreateKeeps, MkdirKeeps
    <2>3. CASE \E i \in Inodes, held \in BOOLEAN : Unlink(i, held) \/ Rmdir(i, held)
      BY <2>3, RemovalKeeps
    <2>4. CASE \E i, d \in Inodes, name \in Names, held \in BOOLEAN : Rename(i, d, name, held)
      BY <2>4, RenameKeeps
    <2>5. CASE \E i \in Inodes, k \in 0 .. MaxSize : Read(i, k) \/ Truncate(i, k)
      <3>1. \A k \in 0 .. MaxSize : k \in Nat  BY VolumeAssumption
      <3> QED BY <2>5, <3>1, ReadKeeps, TruncateKeeps
    <2>6. CASE \E i \in Inodes : Write(i) \/ WriteFails(i) \/ WriteInode(i) \/ Evict(i)
      BY <2>6, WriteKeeps, WriteInodeKeeps, EvictKeeps
    <2>7. CASE Statfs \/ Remount
      BY <2>7, StatfsKeeps, RemountKeeps
    <2> QED BY <1>1, <2>1, <2>2, <2>3, <2>4, <2>5, <2>6, <2>7
  <1> QED BY <1>2 DEF Inv, Keeps

LEMMA InitInv == ASSUME Init PROVE Inv
  <1>1. PICK v \in Disks : vol = Mounted(v)  BY DEF Init
  <1>2. /\ inode = [i \in Inodes |-> IF i = Root THEN RootInode(vol) ELSE Free]
        /\ pending = [i \in Inodes |-> None]
    BY DEF Init
  <1> DEFINE p == Chain(RootClu, 0, 1)
             q == ChainSeq(v, p)
             f == RootInode(vol)
  <1>3. /\ v.bitmap \subseteq Clusters /\ v.fat \in [Clusters -> Clusters \cup {Nil, EOC}]
        /\ Through(v, p, q) /\ Of(q) \subseteq v.bitmap
    BY DisksAssumption
  <1> HIDE DEF q, p
  <1>4. /\ vol.bitmap = v.bitmap /\ vol.fat = v.fat /\ vol.used = Unknown /\ vol.srch = 2
        /\ DOMAIN vol = Fields
    BY <1>1 DEF Mounted, Fields
  <1>5. VolOK(vol) /\ Counted(vol)
    <2>1. 2 \in Clusters  BY ClusterFacts DEF Clusters
    <2> QED BY <1>3, <1>4, <2>1 DEF VolOK, FatOK, Counted
  <1>6. Through(vol, p, q) /\ Of(q) \subseteq vol.bitmap
    BY <1>3, <1>4 DEF Through
  <1>7. /\ Whole(vol, f, q) /\ InodeOK(f) /\ Owns(f) /\ f.st = "linked" /\ f.type = "dir"
        /\ f.start = RootClu /\ f.flags = 1
    BY <1>5, <1>6, RootIs DEF p
  <1> HIDE DEF f
  <1>8. Root \in Inodes /\ \A i \in Inodes : inode[i] = IF i = Root THEN f ELSE Free
    BY <1>2, VolumeAssumption DEF f
  <1>9. \A i \in Inodes : InodeOK(inode[i]) /\ (Owns(inode[i]) => i = Root)
    BY <1>7, <1>8, FreeOwnsNone
  <1>10. Apart(vol, inode)
    <2>1. Clus(vol, f) = q  BY <1>5, <1>7, WholeIsClus
    <2> QED BY <1>7, <1>8, <1>9, <2>1 DEF Apart
  <1>11. Dirs(inode, pending)  BY <1>2, <1>7, <1>8 DEF Dirs
  <1> QED BY <1>2, <1>5, <1>9, <1>10, <1>11 DEF Inv, Good

(* As long as none of the recorded faults has happened, and the entries    *)
(* that a lookup may find say the truth, no two inodes share a cluster and *)
(* each has all the clusters of its length, on volumes of every size and   *)
(* with any number of files; and used_clusters counts the bitmap.          *)
THEOREM FilesStayApart ==
  Spec /\ [](faults = {} /\ EntriesApart) => [](FilesApart /\ UsedIsCount)
  <1>1. Init => Inv  BY InitInv
  <1>2. Inv /\ [Next]_vars /\ (faults = {} /\ EntriesApart)' /\ (faults = {} /\ EntriesApart) => Inv'
    <2> SUFFICES ASSUME Inv, [Next]_vars, faults' = {}, EntriesApart PROVE Inv'
      OBVIOUS
    <2>1. CASE Next  BY <2>1, OperationsKeepFilesApart
    <2>2. CASE UNCHANGED vars
      BY <2>2 DEF vars, Inv
    <2> QED BY <2>1, <2>2
  <1>3. Inv => FilesApart /\ UsedIsCount
    BY InvFilesApart DEF Inv, Good, Counted, UsedIsCount
  <1> QED BY <1>1, <1>2, <1>3, PTL DEF Spec
-----------------------------------------------------------------------------
(* Slots of a directory and the places where they are: the slot j of one   *)
(* that lies in the clusters q is in cluster q[j \div SlotsPerClu + 1].    *)

Idx(q) == 0 .. Len(q) * SlotsPerClu - 1

LEMMA DivMod ==
  ASSUME NEW j \in Nat
  PROVE  /\ j \div SlotsPerClu \in Nat /\ j % SlotsPerClu \in 0 .. SlotsPerClu - 1
         /\ \A n \in Nat : j < n * SlotsPerClu => j \div SlotsPerClu < n
         /\ \A n \in Nat : j >= n * SlotsPerClu => j \div SlotsPerClu >= n
  <1>1. SlotsPerClu \in Nat /\ SlotsPerClu > 0  BY VolumeAssumption
  <1>2. j \div SlotsPerClu \in Nat /\ j % SlotsPerClu \in 0 .. SlotsPerClu - 1  BY <1>1
  <1>3. \A n \in Nat : j < n * SlotsPerClu => j \div SlotsPerClu < n  BY <1>1
  <1>4. \A n \in Nat : j >= n * SlotsPerClu => j \div SlotsPerClu >= n  BY <1>1
  <1> QED BY <1>2, <1>3, <1>4

LEMMA DivModPlus ==
  ASSUME NEW k \in Nat, NEW j \in Nat
  PROVE  /\ k * SlotsPerClu + j \in Nat
         /\ (k * SlotsPerClu + j) \div SlotsPerClu = k + j \div SlotsPerClu
         /\ (k * SlotsPerClu + j) % SlotsPerClu = j % SlotsPerClu
  <1>1. SlotsPerClu \in Nat /\ SlotsPerClu > 0  BY VolumeAssumption
  <1> DEFINE t == k * SlotsPerClu + j
  <1>2. t \in Nat  BY <1>1
  <1>3. t \div SlotsPerClu = k + j \div SlotsPerClu  BY <1>1
  <1>4. PICK a \in Nat, b \in Nat : a = j \div SlotsPerClu /\ b = j % SlotsPerClu
    BY <1>1
  <1>5. PICK c \in Nat : c = t % SlotsPerClu  BY <1>1, <1>2
  <1>6. j = a * SlotsPerClu + b  BY <1>1, <1>4
  <1>7. k + a \in Nat /\ k + a = t \div SlotsPerClu  BY <1>3, <1>4
  <1> HIDE DEF t
  <1>8. t = (k + a) * SlotsPerClu + c  BY <1>1, <1>2, <1>5, <1>7
  <1>9. (k + a) * SlotsPerClu = k * SlotsPerClu + a * SlotsPerClu  BY <1>1
  <1>10. t = k * SlotsPerClu + j  BY DEF t
  <1>11. k * SlotsPerClu \in Nat /\ a * SlotsPerClu \in Nat  BY <1>1
  <1>12. b = c  BY <1>6, <1>8, <1>9, <1>10, <1>11
  <1> QED BY <1>2, <1>3, <1>4, <1>5, <1>12 DEF t

LEMMA LocFacts ==
  ASSUME NEW q \in Seq(Clusters), NEW j \in Idx(q)
  PROVE  /\ j \in Nat /\ j \div SlotsPerClu + 1 \in 1 .. Len(q)
         /\ Loc(q, j) \in Clusters \X (0 .. SlotsPerClu - 1) /\ Loc(q, j)[1] \in Of(q)
  <1>1. Len(q) \in Nat /\ \A k \in 1 .. Len(q) : q[k] \in Clusters
    BY LenProperties, ElementOfSeq
  <1>2. SlotsPerClu \in Nat /\ SlotsPerClu > 0  BY VolumeAssumption
  <1>3. j \in Nat /\ j < Len(q) * SlotsPerClu  BY <1>1, <1>2 DEF Idx
  <1>4. j \div SlotsPerClu \in Nat /\ j \div SlotsPerClu < Len(q) /\ j % SlotsPerClu \in 0 .. SlotsPerClu - 1
    BY <1>1, <1>3, DivMod
  <1>5. j \div SlotsPerClu + 1 \in 1 .. Len(q)  BY <1>1, <1>4
  <1> QED BY <1>1, <1>3, <1>4, <1>5 DEF Loc, Of

LEMMA LocDiffer ==
  ASSUME NEW q \in Seq(Clusters), \A a, b \in 1 .. Len(q) : q[a] = q[b] => a = b,
         NEW j \in Idx(q), NEW k \in Idx(q), Loc(q, j) = Loc(q, k)
  PROVE  j = k
  <1>1. /\ j \in Nat /\ j \div SlotsPerClu + 1 \in 1 .. Len(q) /\ j \div SlotsPerClu \in Nat
        /\ k \in Nat /\ k \div SlotsPerClu + 1 \in 1 .. Len(q) /\ k \div SlotsPerClu \in Nat
    BY LocFacts, DivMod, Zenon
  <1>2. /\ q[j \div SlotsPerClu + 1] = q[k \div SlotsPerClu + 1]
        /\ j % SlotsPerClu = k % SlotsPerClu
    BY DEF Loc
  <1>3. j \div SlotsPerClu + 1 = k \div SlotsPerClu + 1  BY <1>1, <1>2
  <1>4. j \div SlotsPerClu = k \div SlotsPerClu  BY <1>1, <1>3
  <1>5. SlotsPerClu \in Nat /\ SlotsPerClu > 0  BY VolumeAssumption
  <1> QED BY <1>1, <1>2, <1>4, <1>5

LEMMA LocsApart ==
  ASSUME NEW q \in Seq(Clusters), NEW r \in Seq(Clusters), Of(q) \cap Of(r) = {},
         NEW j \in Idx(q), NEW k \in Idx(r)
  PROVE  Loc(q, j) # Loc(r, k)
  <1>1. Loc(q, j)[1] \in Of(q) /\ Loc(r, k)[1] \in Of(r)  BY LocFacts
  <1> QED BY <1>1

(* Through a chain, slot by slot.                                          *)
LEMMA SlotIs ==
  ASSUME NEW v, FatOK(v), NEW p, NEW q, Through(v, p, q)
  PROVE  /\ Scan(v, p) = View(v, q) /\ DOMAIN View(v, q) = Idx(q)
         /\ \A j \in Idx(q) : Locate(v, p, j) = Loc(q, j) /\ Slot(v, p, j) = View(v, q)[j]
                              /\ View(v, q)[j] = v.slots[Loc(q, j)]
  <1>1. q \in Seq(Clusters) /\ Len(q) \in Nat  BY RunEnd DEF Through
  <1>2. \A j \in Idx(q) : View(v, q)[j] = v.slots[Loc(q, j)]  BY DEF View, Idx
  <1>3. DOMAIN View(v, q) = Idx(q)  BY DEF View, Idx
  <1>4. ASSUME NEW j \in Idx(q)
        PROVE  Locate(v, p, j) = Loc(q, j) /\ Slot(v, p, j) = View(v, q)[j]
    <2>1. j \in Nat /\ j \div SlotsPerClu + 1 \in 1 .. Len(q) /\ Loc(q, j)[1] \in Clusters
      BY <1>1, LocFacts, Zenon DEF Loc
    <2>2. j \div SlotsPerClu \in Nat  BY <2>1, DivMod
    <2>3. j \div SlotsPerClu \in 0 .. Len(q) - 1  BY <1>1, <2>1, <2>2
    <2>4. NthCluster(v, p, j \div SlotsPerClu) = q[j \div SlotsPerClu + 1]
      BY <2>3, NthThrough
    <2>5. Locate(v, p, j) = Loc(q, j)  BY <2>4 DEF Locate, Loc
    <2> QED BY <1>2, <2>1, <2>5 DEF Slot, SlotAt
  <1>5. ChainLen(v, p) = Len(q)  BY ChainIs
  <1>6. Scan(v, p) = View(v, q)
    <2>1. Scan(v, p) = [j \in Idx(q) |-> Slot(v, p, j)]  BY <1>5 DEF Scan, Idx
    <2>2. View(v, q) = [j \in Idx(q) |-> v.slots[Loc(q, j)]]  BY DEF View, Idx
    <2> QED BY <1>2, <1>4, <2>1, <2>2
  <1> QED BY <1>2, <1>3, <1>4, <1>6

\* Slots in other clusters than C are what they were.
SlotsStay(v, w, C) == \A loc \in DOMAIN v.slots : loc[1] \notin C => w.slots[loc] = v.slots[loc]

(* What PutSlots writes, seen in the directory in the clusters q: n slots  *)
(* from index e on; all other slots stay.                                  *)
Patched(v, w, q, e, seq) ==
    /\ DOMAIN w.slots = DOMAIN v.slots
    /\ \A j \in Idx(q) : View(w, q)[j] = IF j - e + 1 \in DOMAIN seq THEN seq[j - e + 1]
                                         ELSE View(v, q)[j]
    /\ SlotsStay(v, w, Of(q))

\* The chain p leads to the slots of q from index e on as from index at on.
LeadsTo(v, p, at, q, e, n) ==
    /\ q \in Seq(Clusters) /\ \A a, b \in 1 .. Len(q) : q[a] = q[b] => a = b
    /\ e \in Nat /\ n \in Nat
    /\ \A m \in 0 .. n - 1 : e + m \in Idx(q) /\ Locate(v, p, at + m) = Loc(q, e + m)

LEMMA PutSlotsPatch ==
  ASSUME NEW v, VolOK(v), SlotsOK(v), NEW p, NEW at \in Int, NEW q, NEW e, NEW n, NEW seq,
         DOMAIN seq = 1 .. n, LeadsTo(v, p, at, q, e, n)
  PROVE  Patched(v, PutSlots(v, p, at, seq), q, e, seq)
  <1> DEFINE puts == {[loc |-> Locate(v, p, at + m - 1), slot |-> seq[m]] : m \in DOMAIN seq}
             here == {x \in puts : x.loc[1] \in Clusters}
             written == [loc \in {x.loc : x \in here} |-> (CHOOSE x \in here : x.loc = loc).slot]
             w == PutSlots(v, p, at, seq)
  <1>1. /\ q \in Seq(Clusters) /\ e \in Nat /\ n \in Nat
        /\ \A a, b \in 1 .. Len(q) : q[a] = q[b] => a = b
    BY DEF LeadsTo
  <1>2. w.slots = Over(written, v.slots)
    <2>1. w = [v EXCEPT !.slots = Over(written, @)]  BY DEF PutSlots
    <2> HIDE DEF written, w
    <2> QED BY <2>1 DEF VolOK, Fields
  <1>3. \A m \in 1 .. n : /\ e + m - 1 \in Idx(q) /\ Locate(v, p, at + m - 1) = Loc(q, e + m - 1)
                          /\ Loc(q, e + m - 1) \in Clusters \X (0 .. SlotsPerClu - 1)
                          /\ Loc(q, e + m - 1)[1] \in Of(q)
    <2> TAKE m \in 1 .. n
    <2>1. m - 1 \in 0 .. n - 1  BY <1>1
    <2>2. e + (m - 1) \in Idx(q) /\ Locate(v, p, at + (m - 1)) = Loc(q, e + (m - 1))
      BY <2>1, Zenon DEF LeadsTo
    <2>3. e + (m - 1) = e + m - 1 /\ at + (m - 1) = at + m - 1  BY <1>1
    <2> QED BY <1>1, <2>2, <2>3, LocFacts
  <1>4. here = {[loc |-> Loc(q, e + m - 1), slot |-> seq[m]] : m \in 1 .. n}
    <2>1. puts = {[loc |-> Loc(q, e + m - 1), slot |-> seq[m]] : m \in 1 .. n}
      BY <1>3
    <2> HIDE DEF puts
    <2> QED BY <1>3, <2>1
  <1> HIDE DEF here, w
  <1>5. DOMAIN written = {Loc(q, e + m - 1) : m \in 1 .. n}
    <2>1. ASSUME NEW m \in 1 .. n PROVE Loc(q, e + m - 1) \in {x.loc : x \in here}
      <3>1. [loc |-> Loc(q, e + m - 1), slot |-> seq[m]] \in here  BY <1>4
      <3> QED BY <3>1
    <2>2. \A x \in here : \E m \in 1 .. n : x.loc = Loc(q, e + m - 1)  BY <1>4
    <2> QED BY <2>1, <2>2
  <1>6. ASSUME NEW m \in 1 .. n PROVE written[Loc(q, e + m - 1)] = seq[m]
    <2> DEFINE loc == Loc(q, e + m - 1)
    <2>1. [loc |-> loc, slot |-> seq[m]] \in here  BY <1>4
    <2>2. ASSUME NEW x \in here, x.loc = loc PROVE x.slot = seq[m]
      <3>1. PICK k \in 1 .. n : x = [loc |-> Loc(q, e + k - 1), slot |-> seq[k]]
        BY <1>4
      <3>2. Loc(q, e + k - 1) = Loc(q, e + m - 1)  BY <2>2, <3>1
      <3>3. e + k - 1 = e + m - 1  BY <1>1, <1>3, <3>2, LocDiffer, Zenon
      <3>4. k = m  BY <1>1, <3>3
      <3> QED BY <3>1, <3>4
    <2> HIDE DEF loc
    <2>3. (CHOOSE x \in here : x.loc = loc).slot = seq[m]
      BY <2>1, <2>2
    <2>4. loc \in {x.loc : x \in here}  BY <2>1
    <2> QED BY <2>3, <2>4, Zenon DEF loc
  <1> HIDE DEF written
  <1>7. DOMAIN w.slots = DOMAIN v.slots
    BY <1>2, <1>3, <1>5 DEF Over, SlotsOK
  <1>8. ASSUME NEW j \in Idx(q)
        PROVE  View(w, q)[j] = IF j - e + 1 \in 1 .. n THEN seq[j - e + 1] ELSE View(v, q)[j]
    <2>1. View(w, q)[j] = w.slots[Loc(q, j)] /\ View(v, q)[j] = v.slots[Loc(q, j)]
      BY DEF View, Idx
    <2>2. Loc(q, j) \in DOMAIN v.slots /\ j \in Nat  BY <1>1, LocFacts DEF SlotsOK
    <2>3. CASE j - e + 1 \in 1 .. n
      <3>1. e + (j - e + 1) - 1 = j  BY <1>1, <2>2
      <3>2. Loc(q, j) \in DOMAIN written /\ written[Loc(q, j)] = seq[j - e + 1]
        BY <1>5, <1>6, <2>3, <3>1
      <3> QED BY <1>2, <2>1, <2>2, <2>3, <3>2 DEF Over
    <2>4. CASE j - e + 1 \notin 1 .. n
      <3>1. ASSUME NEW m \in 1 .. n, Loc(q, j) = Loc(q, e + m - 1) PROVE FALSE
        <4>1. j = e + m - 1  BY <1>1, <1>3, <3>1, LocDiffer, Zenon
        <4> QED BY <1>1, <2>2, <2>4, <4>1
      <3>2. Loc(q, j) \notin DOMAIN written  BY <1>5, <3>1
      <3> QED BY <1>2, <2>1, <2>2, <2>4, <3>2 DEF Over
    <2> QED BY <2>3, <2>4
  <1>9. ASSUME NEW loc \in DOMAIN v.slots, loc[1] \notin Of(q)
        PROVE  w.slots[loc] = v.slots[loc]
    <2>1. loc \notin DOMAIN written  BY <1>3, <1>5, <1>9
    <2> QED BY <1>2, <2>1 DEF Over
  <1> QED BY <1>7, <1>8, <1>9 DEF Patched, SlotsStay, w

\* Directories elsewhere look the same.
LEMMA ViewsElsewhere ==
  ASSUME NEW v, NEW w, SlotsOK(v), NEW C, SlotsStay(v, w, C),
         NEW r \in Seq(Clusters), Of(r) \cap C = {}
  PROVE  View(w, r) = View(v, r)
  <1>1. ASSUME NEW j \in Idx(r) PROVE w.slots[Loc(r, j)] = v.slots[Loc(r, j)]
    <2>1. Loc(r, j) \in DOMAIN v.slots /\ Loc(r, j)[1] \in Of(r)  BY LocFacts DEF SlotsOK
    <2> QED BY <2>1 DEF SlotsStay
  <1> QED BY <1>1 DEF View, Idx

-----------------------------------------------------------------------------
(* Slots that are written over, in a directory whose entries are in order. *)

LEMMA SlotKinds ==
  /\ ~IsHead(Ext) /\ ~IsHead(Deleted) /\ ~IsHead(Unused)
  /\ Ext # Deleted /\ Ext # Unused /\ Deleted # Unused
  /\ IsEmpty(Deleted) /\ IsEmpty(Unused) /\ ~IsEmpty(Ext)
  /\ \A h \in Heads : /\ IsHead(h) /\ ~IsEmpty(h) /\ h \notin {Ext, Deleted, Unused}
                      /\ NameLen[h.name] \in Nat /\ NameLen[h.name] >= 1
                      /\ h.type \in {"file", "dir"} /\ h.name \in Names
                      /\ h.flags \in {1, 3} /\ h.size \in Nat /\ h.clu \in Clusters \cup {Nil}
  <1>1. \A h \in Heads : /\ h.type \in {"file", "dir"} /\ h.name \in Names /\ h.flags \in {1, 3}
                         /\ h.size \in Nat /\ h.clu \in Clusters \cup {Nil}
    BY DEF Heads
  <1>2. \A n \in Names : NameLen[n] \in Nat /\ NameLen[n] >= 1
    BY VolumeAssumption
  <1>3. Ext.type = "ext" /\ Deleted.type = "deleted" /\ Unused.type = "unused"
    BY DEF Ext, Deleted, Unused
  <1> QED BY <1>1, <1>2, <1>3 DEF IsHead, IsEmpty

\* n slots from e on which can be written over: no entry reaches into them from
\* before, none begins behind the first, and all slots before have been used.
Spot(s, e, n) ==
    /\ e \in Nat /\ n \in Nat \ {0}
    /\ \A m \in 0 .. n - 1 : e + m \in DOMAIN s
    /\ s[e] # Ext /\ \A m \in 1 .. n - 1 : ~IsHead(s[e + m])
    /\ \A k \in 0 .. e - 1 : s[k] # Unused

\* What is written: an entry and deleted slots, or these only.
Text(seq, n) ==
    /\ DOMAIN seq = 1 .. n /\ seq[1] \in Heads \cup {Deleted}
    /\ \A m \in 2 .. n : seq[m] \in {Ext, Deleted}
    /\ IsHead(seq[1]) => /\ NameLen[seq[1].name] <= n
                         /\ \A m \in 2 .. NameLen[seq[1].name] : seq[m] = Ext

Overwritten(s, t, e, seq) ==
    /\ DOMAIN t = DOMAIN s
    /\ \A j \in DOMAIN s : t[j] = IF j - e + 1 \in DOMAIN seq THEN seq[j - e + 1] ELSE s[j]

LEMMA OverwriteInOrder ==
  ASSUME NEW N \in Nat, NEW s, DOMAIN s = 0 .. N - 1, InOrder(s), NEW e, NEW n, Spot(s, e, n),
         NEW seq, Text(seq, n), NEW t, Overwritten(s, t, e, seq)
  PROVE  /\ InOrder(t) /\ \A j \in DOMAIN s : t[j] = Unused => s[j] = Unused
         /\ \A j \in DOMAIN s : j # e => (j \in HeadsAt(t) <=> j \in HeadsAt(s))
                                         /\ (j \in HeadsAt(t) => t[j] = s[j])
         /\ e \in DOMAIN s /\ t[e] = seq[1]
  <1> DEFINE R == e .. e + n - 1
  <1>1. e \in Nat /\ n \in Nat /\ n > 0 /\ e \in DOMAIN s /\ R \subseteq DOMAIN s
    <2>1. e \in Nat /\ n \in Nat /\ n > 0 /\ \A m \in 0 .. n - 1 : e + m \in DOMAIN s
      BY DEF Spot
    <2>2. ASSUME NEW j \in R PROVE j \in DOMAIN s
      <3>1. j - e \in 0 .. n - 1 /\ e + (j - e) = j  BY <2>1
      <3> QED BY <2>1, <3>1
    <2> QED BY <2>1, <2>2
  <1>2. \A j \in DOMAIN s : /\ j \in R => t[j] = seq[j - e + 1] /\ j - e + 1 \in 1 .. n
                            /\ j \notin R => t[j] = s[j]
    <2> TAKE j \in DOMAIN s
    <2>1. j \in Int  OBVIOUS
    <2>2. j \in R <=> j - e + 1 \in 1 .. n  BY <1>1, <2>1
    <2> QED BY <2>2 DEF Overwritten, Text
  <1>3. t[e] = seq[1]
    <2>1. e \in R /\ e - e + 1 = 1  BY <1>1
    <2> QED BY <1>1, <1>2, <2>1, Zenon
  <1>4. \A j \in R : j # e => t[j] \in {Ext, Deleted}
    <2> TAKE j \in R
    <2> HAVE j # e
    <2>1. j - e + 1 \in 2 .. n  BY <1>1
    <2> QED BY <1>1, <1>2, <2>1, Zenon DEF Text
  <1>5. \A j \in DOMAIN s : t[j] \in Heads \cup {Ext, Deleted, Unused}
        /\ (t[j] = Unused => s[j] = Unused /\ j \notin R)
    <2> TAKE j \in DOMAIN s
    <2>1. CASE j \notin R  BY <1>2, <2>1 DEF InOrder
    <2>2. CASE j \in R /\ j # e  BY <1>4, <2>2, SlotKinds
    <2>3. CASE j = e  BY <1>3, <2>3, SlotKinds DEF Text
    <2> QED BY <2>1, <2>2, <2>3
  <1>6. \A j \in R : j # e => ~IsHead(s[j]) /\ ~IsHead(t[j])
    <2> TAKE j \in R
    <2> HAVE j # e
    <2>1. j - e \in 1 .. n - 1 /\ e + (j - e) = j  BY <1>1
    <2>2. ~IsHead(s[j])  BY <2>1, Zenon DEF Spot
    <2> QED BY <1>4, <2>2, SlotKinds
  <1>7. \A j \in DOMAIN s : j # e => (IsHead(t[j]) <=> IsHead(s[j])) /\ (IsHead(t[j]) => t[j] = s[j] /\ j \notin R)
    BY <1>2, <1>6
  <1>8. ASSUME NEW j \in DOMAIN s, IsHead(t[j]), NEW m \in 1 .. NameLen[t[j].name] - 1
        PROVE  j + m \in DOMAIN s /\ t[j + m] = Ext
    <2>1. CASE j = e
      <3>1. t[j] = seq[1] /\ seq[1] \in Heads  BY <1>3, <1>8, <2>1, SlotKinds DEF Text
      <3>2. NameLen[t[j].name] \in Nat /\ NameLen[t[j].name] <= n  BY <1>8, <3>1, SlotKinds DEF Text
      <3>3. e + m \in R /\ (e + m) - e + 1 = m + 1 /\ m + 1 \in 2 .. NameLen[t[j].name]
        BY <1>1, <3>2, SMTT(60)
      <3>4. seq[m + 1] = Ext  BY <1>8, <3>1, <3>3 DEF Text
      <3> QED BY <1>1, <1>2, <2>1, <3>3, <3>4, Zenon
    <2>2. CASE j # e
      <3>1. t[j] = s[j] /\ IsHead(s[j]) /\ j \notin R /\ j \in Nat  BY <1>7, <1>8, <2>2
      <3>2. s[j] \in Heads  BY <3>1, SlotKinds DEF InOrder
      <3>3. NameLen[s[j].name] \in Nat  BY <3>2, SlotKinds
      <3>4. \A k \in 1 .. NameLen[s[j].name] - 1 : j + k \in DOMAIN s /\ s[j + k] = Ext
        BY <3>1 DEF InOrder
      <3>5. j + m \in DOMAIN s /\ s[j + m] = Ext  BY <1>8, <3>1, <3>4
      <3>6. j + m \notin R
        <4> SUFFICES ASSUME j + m \in R PROVE FALSE  OBVIOUS
        <4>1. j < e  BY <1>1, <3>1
        <4>2. e - j \in 1 .. m /\ j + (e - j) = e  BY <1>1, <3>1, <4>1
        <4>3. e - j \in 1 .. NameLen[s[j].name] - 1  BY <1>8, <3>1, <3>3, <4>2
        <4>4. s[e] = Ext  BY <3>4, <4>2, <4>3
        <4> QED BY <4>4 DEF Spot
      <3> QED BY <1>2, <3>5, <3>6
    <2> QED BY <2>1, <2>2
  <1>9. ASSUME NEW j \in DOMAIN s, NEW k \in DOMAIN s, t[j] = Unused, j < k
        PROVE  t[k] = Unused
    <2>1. s[j] = Unused /\ j \notin R /\ j \in Nat /\ k \in Nat  BY <1>5, <1>9
    <2>2. ~(j < e)
      <3> SUFFICES ASSUME j < e PROVE FALSE  OBVIOUS
      <3>1. j \in 0 .. e - 1  BY <1>1, <2>1
      <3> QED BY <2>1, <3>1 DEF Spot
    <2>3. k \notin R  BY <1>1, <1>9, <2>1, <2>2
    <2>4. s[k] = Unused  BY <1>9, <2>1 DEF InOrder
    <2> QED BY <1>2, <2>3, <2>4
  <1>10. DOMAIN t = DOMAIN s  BY DEF Overwritten
  <1>11. InOrder(t)  BY <1>5, <1>8, <1>9, <1>10 DEF InOrder
  <1> HIDE DEF R
  <1> QED BY <1>1, <1>3, <1>5, <1>7, <1>10, <1>11 DEF HeadsAt

\* A directory that gets slots which were never used.
LEMMA LongerInOrder ==
  ASSUME NEW M \in Nat, NEW N \in Nat, M <= N, NEW s, DOMAIN s = 0 .. M - 1, InOrder(s),
         NEW t, DOMAIN t = 0 .. N - 1, \A j \in 0 .. M - 1 : t[j] = s[j],
         \A j \in M .. N - 1 : t[j] = Unused
  PROVE  InOrder(t) /\ HeadsAt(t) = HeadsAt(s)
  <1>1. \A j \in DOMAIN t : \/ j \in DOMAIN s /\ t[j] = s[j]
                            \/ j \in M .. N - 1 /\ t[j] = Unused
    <2> TAKE j \in DOMAIN t
    <2>1. j \in 0 .. M - 1 \/ j \in M .. N - 1  OBVIOUS
    <2> QED BY <2>1
  <1>2. \A j \in DOMAIN t : IsHead(t[j]) => j \in DOMAIN s /\ t[j] = s[j]
    BY <1>1, SlotKinds
  <1>3. ASSUME NEW j \in DOMAIN t, IsHead(t[j]), NEW m \in 1 .. NameLen[t[j].name] - 1
        PROVE  j + m \in DOMAIN t /\ t[j + m] = Ext
    <2>1. j + m \in DOMAIN s /\ s[j + m] = Ext  BY <1>2, <1>3 DEF InOrder
    <2> QED BY <2>1
  <1>4. ASSUME NEW j \in DOMAIN t, NEW k \in DOMAIN t, t[j] = Unused, j < k PROVE t[k] = Unused
    BY <1>1, <1>4 DEF InOrder
  <1>5. \A j \in DOMAIN t : t[j] \in Heads \cup {Ext, Deleted, Unused}  BY <1>1 DEF InOrder
  <1>6. \A j \in DOMAIN s : j \in DOMAIN t /\ t[j] = s[j]  OBVIOUS
  <1> QED BY <1>2, <1>3, <1>4, <1>5, <1>6 DEF InOrder, HeadsAt
-----------------------------------------------------------------------------
(* The directories of a table: what a change of slots does to entries.     *)

\* Directories lie in clusters of their own, which are in use.
TableOK(v, T) ==
    /\ \A c \in DOMAIN T : /\ T[c] \in Seq(Clusters) /\ Len(T[c]) > 0 /\ T[c][1] = c
                           /\ \A j, k \in 1 .. Len(T[c]) : T[c][j] = T[c][k] => j = k
                           /\ Of(T[c]) \subseteq v.bitmap
    /\ \A c, d \in DOMAIN T : c # d => Of(T[c]) \cap Of(T[d]) = {}

\* The slots of a volume are those of whole directories.
Ordered(v, T) == SlotsOK(v) /\ \A c \in DOMAIN T : InOrder(View(v, T[c]))

LEMMA EntryIs ==
  ASSUME NEW v, NEW T, NEW x
  PROVE  x \in Entries(v, T) <=> /\ x.dir \in DOMAIN T /\ x.at \in HeadsAt(View(v, T[x.dir]))
                                 /\ x = [dir |-> x.dir, at |-> x.at, head |-> View(v, T[x.dir])[x.at]]
  <1>1. ASSUME x \in Entries(v, T)
        PROVE  /\ x.dir \in DOMAIN T /\ x.at \in HeadsAt(View(v, T[x.dir]))
               /\ x = [dir |-> x.dir, at |-> x.at, head |-> View(v, T[x.dir])[x.at]]
    <2>1. PICK c \in DOMAIN T :
            x \in {[dir |-> c, at |-> j, head |-> View(v, T[c])[j]] : j \in HeadsAt(View(v, T[c]))}
      BY <1>1 DEF Entries
    <2>2. PICK j \in HeadsAt(View(v, T[c])) : x = [dir |-> c, at |-> j, head |-> View(v, T[c])[j]]
      BY <2>1
    <2> QED BY <2>2
  <1>2. ASSUME x.dir \in DOMAIN T, x.at \in HeadsAt(View(v, T[x.dir])),
               x = [dir |-> x.dir, at |-> x.at, head |-> View(v, T[x.dir])[x.at]]
        PROVE  x \in Entries(v, T)
    BY <1>2 DEF Entries
  <1> QED BY <1>1, <1>2

LEMMA EntryFacts ==
  ASSUME NEW v, NEW T, NEW x \in Entries(v, T)
  PROVE  /\ x.dir \in DOMAIN T /\ x.at \in HeadsAt(View(v, T[x.dir]))
         /\ x.head = View(v, T[x.dir])[x.at] /\ IsHead(x.head)
         /\ x = [dir |-> x.dir, at |-> x.at, head |-> x.head]
         /\ Ordered(v, T) => x.head \in Heads
  <1>1. /\ x.dir \in DOMAIN T /\ x.at \in HeadsAt(View(v, T[x.dir]))
        /\ x = [dir |-> x.dir, at |-> x.at, head |-> View(v, T[x.dir])[x.at]]
    BY EntryIs
  <1>2. x.head = View(v, T[x.dir])[x.at]  BY <1>1
  <1>3. IsHead(x.head) /\ x.at \in DOMAIN View(v, T[x.dir])  BY <1>1, <1>2 DEF HeadsAt
  <1>4. Ordered(v, T) => x.head \in Heads
    BY <1>1, <1>2, <1>3, SlotKinds DEF Ordered, InOrder
  <1> QED BY <1>1, <1>2, <1>3, <1>4

\* The entry at a place.
At(v, T, c, j) == [dir |-> c, at |-> j, head |-> View(v, T[c])[j]]

LEMMA AtIs ==
  ASSUME NEW v, NEW T, NEW c \in DOMAIN T, NEW j \in HeadsAt(View(v, T[c]))
  PROVE  At(v, T, c, j) \in Entries(v, T)
  BY DEF At, Entries

\* Directories with the same slots have the same entries.
LEMMA SameViews ==
  ASSUME NEW v, NEW w, NEW T, \A c \in DOMAIN T : View(w, T[c]) = View(v, T[c])
  PROVE  Entries(w, T) = Entries(v, T)
  <1>1. ASSUME NEW x PROVE x \in Entries(w, T) <=> x \in Entries(v, T)
    <2>1. x.dir \in DOMAIN T => View(w, T[x.dir]) = View(v, T[x.dir])  OBVIOUS
    <2> QED BY <2>1, EntryIs
  <1> QED BY <1>1

LEMMA ViewDomain ==
  ASSUME NEW v, NEW T, TableOK(v, T), NEW c \in DOMAIN T, NEW w
  PROVE  /\ Len(T[c]) \in Nat /\ Len(T[c]) * SlotsPerClu \in Nat
         /\ DOMAIN View(w, T[c]) = 0 .. Len(T[c]) * SlotsPerClu - 1
         /\ DOMAIN View(w, T[c]) = Idx(T[c]) /\ DOMAIN View(w, T[c]) \subseteq Nat
         /\ \A j \in Idx(T[c]) : View(w, T[c])[j] = w.slots[Loc(T[c], j)]
  <1>1. Len(T[c]) \in Nat  BY LenProperties DEF TableOK
  <1>2. SlotsPerClu \in Nat  BY VolumeAssumption
  <1>3. Len(T[c]) * SlotsPerClu \in Nat  BY <1>1, <1>2
  <1>4. DOMAIN View(w, T[c]) = 0 .. Len(T[c]) * SlotsPerClu - 1  BY DEF View
  <1> QED BY <1>1, <1>3, <1>4 DEF Idx, View

(* One entry is written, or wiped out: e and seq are where and what.       *)
LEMMA PatchedEntries ==
  ASSUME NEW v, NEW T, TableOK(v, T), Ordered(v, T), NEW c \in DOMAIN T, NEW w, NEW e, NEW seq, NEW n,
         Patched(v, w, T[c], e, seq), Spot(View(v, T[c]), e, n), Text(seq, n)
  PROVE  /\ Ordered(w, T)
         /\ \A d \in DOMAIN T : d # c => View(w, T[d]) = View(v, T[d])
         /\ \A d \in DOMAIN T, j \in Nat : j \in DOMAIN View(v, T[d]) /\ View(w, T[d])[j] = Unused
                                          => View(v, T[d])[j] = Unused
         /\ Entries(w, T) = {x \in Entries(v, T) : ~(x.dir = c /\ x.at = e)}
                \cup (IF IsHead(seq[1]) THEN {[dir |-> c, at |-> e, head |-> seq[1]]} ELSE {})
  <1> DEFINE s == View(v, T[c])
             t == View(w, T[c])
             N == Len(T[c]) * SlotsPerClu
  <1>1. /\ T[c] \in Seq(Clusters)
        /\ \A d \in DOMAIN T : d # c => Of(T[d]) \cap Of(T[c]) = {} /\ T[d] \in Seq(Clusters)
    BY DEF TableOK
  <1>2. N \in Nat /\ DOMAIN s = 0 .. N - 1 /\ DOMAIN t = 0 .. N - 1 /\ DOMAIN s = Idx(T[c])
    BY ViewDomain
  <1>3. Overwritten(s, t, e, seq)
    BY <1>2 DEF Patched, Overwritten
  <1>4. InOrder(s)  BY DEF Ordered
  <1> HIDE DEF s, t, N
  <1>5. Spot(s, e, n)  BY DEF s
  <1>6. /\ InOrder(t) /\ \A j \in DOMAIN s : t[j] = Unused => s[j] = Unused
        /\ \A j \in DOMAIN s : j # e => (j \in HeadsAt(t) <=> j \in HeadsAt(s))
                                        /\ (j \in HeadsAt(t) => t[j] = s[j])
        /\ e \in DOMAIN s /\ t[e] = seq[1]
    BY <1>2, <1>3, <1>4, <1>5, OverwriteInOrder
  <1>7. ASSUME NEW d \in DOMAIN T, d # c PROVE View(w, T[d]) = View(v, T[d])
    <2>1. SlotsOK(v) /\ SlotsStay(v, w, Of(T[c]))  BY DEF Ordered, Patched
    <2>2. T[d] \in Seq(Clusters) /\ Of(T[d]) \cap Of(T[c]) = {}  BY <1>1, <1>7
    <2> QED BY <2>1, <2>2, ViewsElsewhere
  <1>8. SlotsOK(w)  BY DEF Ordered, SlotsOK, Patched
  <1>9. Ordered(w, T)
    BY <1>6, <1>7, <1>8 DEF Ordered, t
  <1>10. \A d \in DOMAIN T, j \in Nat : j \in DOMAIN View(v, T[d]) /\ View(w, T[d])[j] = Unused
                                        => View(v, T[d])[j] = Unused
    BY <1>6, <1>7 DEF s, t
  <1> DEFINE y == [dir |-> c, at |-> e, head |-> seq[1]]
             rest == {x \in Entries(v, T) : ~(x.dir = c /\ x.at = e)}
  <1>11. DOMAIN t = DOMAIN s /\ HeadsAt(t) \subseteq DOMAIN s /\ HeadsAt(s) \subseteq DOMAIN s
    BY <1>2 DEF HeadsAt
  <1>12. e \in HeadsAt(t) <=> IsHead(seq[1])  BY <1>6, <1>11 DEF HeadsAt
  <1>13. ASSUME NEW x \in Entries(w, T)
         PROVE  x \in rest \/ (IsHead(seq[1]) /\ x = y)
    <2>1. x.dir \in DOMAIN T /\ x.at \in HeadsAt(View(w, T[x.dir]))
          /\ x = [dir |-> x.dir, at |-> x.at, head |-> View(w, T[x.dir])[x.at]]
      BY EntryIs
    <2>2. CASE x.dir # c
      <3>1. View(w, T[x.dir]) = View(v, T[x.dir])  BY <1>7, <2>1, <2>2
      <3> QED BY <2>1, <2>2, <3>1, EntryIs
    <2>3. CASE x.dir = c /\ x.at # e
      <3>1. x.at \in HeadsAt(s) /\ t[x.at] = s[x.at]  BY <1>6, <1>11, <2>1, <2>3 DEF t
      <3>2. x = [dir |-> x.dir, at |-> x.at, head |-> View(v, T[x.dir])[x.at]]
        BY <2>1, <2>3, <3>1 DEF s, t
      <3>3. x \in Entries(v, T)  BY <2>1, <2>3, <3>1, <3>2, EntryIs DEF s
      <3> QED BY <2>3, <3>3
    <2>4. CASE x.dir = c /\ x.at = e
      <3>1. IsHead(seq[1])  BY <1>12, <2>1, <2>4 DEF t
      <3>2. x = y  BY <1>6, <2>1, <2>4 DEF t
      <3> QED BY <3>1, <3>2
    <2> QED BY <2>2, <2>3, <2>4
  <1>14. ASSUME NEW x \in rest PROVE x \in Entries(w, T)
    <2>1. x.dir \in DOMAIN T /\ x.at \in HeadsAt(View(v, T[x.dir]))
          /\ x = [dir |-> x.dir, at |-> x.at, head |-> View(v, T[x.dir])[x.at]]
      BY EntryIs
    <2>2. CASE x.dir # c
      <3>1. View(w, T[x.dir]) = View(v, T[x.dir])  BY <1>7, <2>1, <2>2
      <3> QED BY <2>1, <3>1, EntryIs
    <2>3. CASE x.dir = c
      <3>1. x.at # e  BY <2>3
      <3>2. x.at \in HeadsAt(t) /\ t[x.at] = s[x.at]  BY <1>6, <1>11, <2>1, <2>3, <3>1 DEF s
      <3>3. x = [dir |-> x.dir, at |-> x.at, head |-> View(w, T[x.dir])[x.at]]
        BY <2>1, <2>3, <3>2 DEF s, t
      <3> QED BY <2>1, <2>3, <3>2, <3>3, EntryIs DEF t
    <2> QED BY <2>2, <2>3
  <1>15. ASSUME IsHead(seq[1]) PROVE y \in Entries(w, T)
    <2>1. e \in HeadsAt(View(w, T[c])) /\ View(w, T[c])[e] = seq[1]
      BY <1>6, <1>12, <1>15 DEF t
    <2>2. At(w, T, c, e) \in Entries(w, T)  BY <2>1, AtIs
    <2>3. At(w, T, c, e) = y  BY <2>1 DEF At
    <2> QED BY <2>2, <2>3
  <1>16. Entries(w, T) = rest \cup (IF IsHead(seq[1]) THEN {y} ELSE {})
    <2> HIDE DEF rest, y
    <2> QED BY <1>13, <1>14, <1>15
  <1> QED BY <1>7, <1>9, <1>10, <1>16
-----------------------------------------------------------------------------
(* Entries that are written, rewritten and wiped out.                      *)

\* From the slots of v to those of w the directory c gets the entries Y at index e,
\* instead of one that was there; no other entry is different.
Rewritten(v, w, T, c, e, Y) ==
    /\ Ordered(w, T)
    /\ \A d \in DOMAIN T : d # c => View(w, T[d]) = View(v, T[d])
    /\ \A d \in DOMAIN T, j \in Nat : j \in DOMAIN View(v, T[d]) /\ View(w, T[d])[j] = Unused
                                      => View(v, T[d])[j] = Unused
    /\ Entries(w, T) = {x \in Entries(v, T) : ~(x.dir = c /\ x.at = e)} \cup Y

EntryAt(c, e, h) == [dir |-> c, at |-> e, head |-> h]

LEMMA PatchRewrites ==
  ASSUME NEW v, NEW T, TableOK(v, T), Ordered(v, T), NEW c \in DOMAIN T, NEW w, NEW e, NEW seq, NEW n,
         Patched(v, w, T[c], e, seq), Spot(View(v, T[c]), e, n), Text(seq, n)
  PROVE  Rewritten(v, w, T, c, e, IF IsHead(seq[1]) THEN {EntryAt(c, e, seq[1])} ELSE {})
  <1> DEFINE Y == IF IsHead(seq[1]) THEN {EntryAt(c, e, seq[1])} ELSE {}
  <1>1. /\ Ordered(w, T)
        /\ \A d \in DOMAIN T : d # c => View(w, T[d]) = View(v, T[d])
        /\ \A d \in DOMAIN T, j \in Nat : j \in DOMAIN View(v, T[d]) /\ View(w, T[d])[j] = Unused
                                          => View(v, T[d])[j] = Unused
        /\ Entries(w, T) = {x \in Entries(v, T) : ~(x.dir = c /\ x.at = e)} \cup Y
    BY PatchedEntries DEF EntryAt
  <1> HIDE DEF Y
  <1>3. Rewritten(v, w, T, c, e, Y)  BY <1>1 DEF Rewritten
  <1> QED BY <1>3 DEF Y

LEMMA PutSlotsKeeps ==
  ASSUME NEW v, VolOK(v), NEW p, NEW at, NEW seq
  PROVE  LET w == PutSlots(v, p, at, seq) IN SameFat(v, w) /\ VolOK(w) /\ w.hint = v.hint
  <1>1. PutSlots(v, p, at, seq).hint = v.hint  BY DEF PutSlots
  <1> QED BY <1>1, PutSlotsIs

\* Through its chain a directory is read and written slot by slot.
LEMMA LeadsStraight ==
  ASSUME NEW v, FatOK(v), NEW p, NEW q, Through(v, p, q), NEW e \in Nat, NEW n \in Nat,
         \A m \in 0 .. n - 1 : e + m \in Idx(q)
  PROVE  LeadsTo(v, p, e, q, e, n)
  <1>1. q \in Seq(Clusters) /\ \A a, b \in 1 .. Len(q) : q[a] = q[b] => a = b
    BY DEF Through
  <1>2. \A j \in Idx(q) : Locate(v, p, j) = Loc(q, j)  BY SlotIs
  <1> QED BY <1>1, <1>2 DEF LeadsTo

LEMMA ReadVia ==
  ASSUME NEW v, NEW p, NEW at \in Int, NEW q, NEW e, NEW n, LeadsTo(v, p, at, q, e, n),
         NEW m \in 0 .. n - 1
  PROVE  /\ Slot(v, p, at + m) = View(v, q)[e + m] /\ e + m \in DOMAIN View(v, q)
         /\ Locate(v, p, at + m)[1] \in Clusters
  <1>1. q \in Seq(Clusters) /\ e + m \in Idx(q) /\ Locate(v, p, at + m) = Loc(q, e + m)
    BY DEF LeadsTo
  <1>2. Loc(q, e + m)[1] \in Clusters  BY <1>1, LocFacts
  <1>3. View(v, q)[e + m] = v.slots[Loc(q, e + m)] /\ e + m \in DOMAIN View(v, q)
    BY <1>1 DEF View, Idx
  <1> QED BY <1>1, <1>2, <1>3 DEF Slot, SlotAt

LEMMA LeadsShorter ==
  ASSUME NEW v, NEW p, NEW at, NEW q, NEW e, NEW n, LeadsTo(v, p, at, q, e, n), NEW k \in Nat, k <= n
  PROVE  LeadsTo(v, p, at, q, e, k)
  BY DEF LeadsTo

\* A whole entry where it is read from.
LEMMA WholeEntry ==
  ASSUME NEW v, NEW p, NEW at \in Int, NEW q, NEW e, NEW n, LeadsTo(v, p, at, q, e, n),
         InOrder(View(v, q)), IsHead(View(v, q)[e]), e \in DOMAIN View(v, q),
         n = NameLen[View(v, q)[e].name]
  PROVE  /\ n \in Nat \ {0} /\ Slot(v, p, at) = View(v, q)[e] /\ EntrySet(v, p, at)
         /\ EntryLength(v, p, at) = n /\ Spot(View(v, q), e, n)
         /\ Locate(v, p, at)[1] \in Clusters
  <1> DEFINE s == View(v, q)
  <1>1. s[e] \in Heads  BY SlotKinds DEF InOrder
  <1>2. n \in Nat /\ n >= 1 /\ e \in Nat  BY <1>1, SlotKinds DEF LeadsTo
  <1>3. \A m \in 1 .. n - 1 : e + m \in DOMAIN s /\ s[e + m] = Ext  BY DEF InOrder
  <1>4. \A m \in 0 .. n - 1 : Slot(v, p, at + m) = s[e + m] /\ e + m \in DOMAIN s
                              /\ Locate(v, p, at + m)[1] \in Clusters
    BY ReadVia, Zenon
  <1>5. 0 \in 0 .. n - 1 /\ at + 0 = at /\ e + 0 = e  BY <1>2
  <1>6. Slot(v, p, at) = s[e] /\ Locate(v, p, at)[1] \in Clusters  BY <1>4, <1>5
  <1>7. \A m \in 1 .. n - 1 : Slot(v, p, at + m) = Ext
    <2> TAKE m \in 1 .. n - 1
    <2>1. m \in 0 .. n - 1  BY <1>2
    <2> QED BY <1>3, <1>4, <2>1
  <1> HIDE DEF s
  <1>8. n = NameLen[s[e].name] /\ IsHead(s[e])  BY DEF s
  <1>9. EntrySet(v, p, at)  BY <1>6, <1>7, <1>8 DEF EntrySet
  <1>10. EntryLength(v, p, at) = n
    <2> DEFINE Right(k) == /\ \A m \in 1 .. k - 1 : Slot(v, p, at + m) = Ext
                           /\ k = n \/ Slot(v, p, at + k) # Ext
    <2>1. EntryLength(v, p, at) = CHOOSE k \in 1 .. n : Right(k)
      BY <1>6, <1>8 DEF EntryLength
    <2>2. n \in 1 .. n /\ Right(n)  BY <1>2, <1>7
    <2>3. ASSUME NEW k \in 1 .. n, Right(k) PROVE k = n
      <3> SUFFICES ASSUME k # n PROVE FALSE  OBVIOUS
      <3>1. k \in 1 .. n - 1  BY <1>2
      <3> QED BY <1>7, <2>3, <3>1
    <2> HIDE DEF Right
    <2> QED BY <2>1, <2>2, <2>3
  <1>11. Spot(s, e, n)
    <2>1. ASSUME NEW k \in 0 .. e - 1 PROVE s[k] # Unused
      <3>1. k \in DOMAIN s /\ k < e
        <4>1. DOMAIN s = 0 .. Len(q) * SlotsPerClu - 1  BY DEF s, View
        <4>2. Len(q) \in Nat /\ SlotsPerClu \in Nat
          BY LenProperties, VolumeAssumption DEF LeadsTo
        <4>3. Len(q) * SlotsPerClu \in Nat  BY <4>2
        <4>4. e \in DOMAIN s  BY DEF s
        <4> QED BY <1>2, <4>1, <4>3, <4>4
      <3>2. s[e] # Unused  BY <1>1, SlotKinds DEF s
      <3> QED BY <1>2, <3>1, <3>2 DEF s, InOrder
    <2>2. \A m \in 1 .. n - 1 : ~IsHead(s[e + m])  BY <1>3, SlotKinds DEF s
    <2>3. s[e] # Ext  BY <1>1, SlotKinds DEF s
    <2> QED BY <1>2, <1>4, <2>1, <2>2, <2>3 DEF Spot, s
  <1> QED BY <1>2, <1>6, <1>9, <1>10, <1>11 DEF s
-----------------------------------------------------------------------------
(* What the operations write: an entry, its head only, or deleted slots.   *)

EntryText(h) == [m \in 1 .. NameLen[h.name] |-> IF m = 1 THEN h ELSE Ext]
Wiped(n) == [m \in 1 .. n |-> Deleted]

LEMMA TextIs ==
  /\ \A h \in Heads : Text(EntryText(h), NameLen[h.name]) /\ EntryText(h)[1] = h
  /\ \A n \in Nat \ {0} : Text(Wiped(n), n) /\ Wiped(n)[1] = Deleted
  <1>1. ASSUME NEW h \in Heads
        PROVE  Text(EntryText(h), NameLen[h.name]) /\ EntryText(h)[1] = h
    <2> DEFINE n == NameLen[h.name]
    <2>1. n \in Nat /\ n >= 1  BY SlotKinds
    <2>2. EntryText(h) = [m \in 1 .. n |-> IF m = 1 THEN h ELSE Ext]  BY DEF EntryText
    <2>3. DOMAIN EntryText(h) = 1 .. n /\ EntryText(h)[1] = h
          /\ \A m \in 2 .. n : EntryText(h)[m] = Ext
      BY <2>1, <2>2
    <2> QED BY <2>1, <2>3 DEF Text
  <1>2. ASSUME NEW n \in Nat \ {0} PROVE Text(Wiped(n), n) /\ Wiped(n)[1] = Deleted
    <2>1. DOMAIN Wiped(n) = 1 .. n /\ \A m \in 1 .. n : Wiped(n)[m] = Deleted  BY DEF Wiped
    <2>2. Wiped(n)[1] = Deleted /\ \A m \in 2 .. n : Wiped(n)[m] = Deleted  BY <2>1
    <2> QED BY <2>1, <2>2, SlotKinds DEF Text
  <1> QED BY <1>1, <1>2

LEMMA SameLocate ==
  ASSUME NEW v, NEW w, w.fat = v.fat
  PROVE  /\ \A p, e : Locate(w, p, e) = Locate(v, p, e)
         /\ \A p, at, q, e, n : LeadsTo(v, p, at, q, e, n) => LeadsTo(w, p, at, q, e, n)
  <1>1. ReadFat(w) = ReadFat(v)  BY DEF ReadFat
  <1>2. \A p, k : NthCluster(w, p, k) = NthCluster(v, p, k)  BY <1>1 DEF NthCluster
  <1>3. \A p, e : Locate(w, p, e) = Locate(v, p, e)  BY <1>2 DEF Locate
  <1> QED BY <1>3 DEF LeadsTo

LEMMA WriteText ==
  ASSUME NEW v, VolOK(v), NEW T, TableOK(v, T), Ordered(v, T), NEW c \in DOMAIN T,
         NEW p, NEW at \in Int, NEW e, NEW n, LeadsTo(v, p, at, T[c], e, n),
         NEW seq, Text(seq, n), Spot(View(v, T[c]), e, n)
  PROVE  Rewritten(v, PutSlots(v, p, at, seq), T, c, e,
                   IF IsHead(seq[1]) THEN {EntryAt(c, e, seq[1])} ELSE {})
  <1>1. SlotsOK(v) /\ DOMAIN seq = 1 .. n  BY DEF Ordered, Text
  <1>2. Patched(v, PutSlots(v, p, at, seq), T[c], e, seq)  BY <1>1, PutSlotsPatch
  <1> QED BY <1>2, PutSlotsKeeps, PatchRewrites, Zenon

\* init_dir_entry, init_ext_entry
LEMMA WriteEntry ==
  ASSUME NEW v, VolOK(v), NEW T, TableOK(v, T), Ordered(v, T), NEW c \in DOMAIN T,
         NEW p, NEW at \in Int, NEW e, NEW n, LeadsTo(v, p, at, T[c], e, n),
         NEW h \in Heads, n = NameLen[h.name], Spot(View(v, T[c]), e, n)
  PROVE  Rewritten(v, PutEntry(v, p, at, h), T, c, e, {EntryAt(c, e, h)})
  <1>1. PutEntry(v, p, at, h) = PutSlots(v, p, at, EntryText(h))  BY DEF PutEntry, EntryText
  <1> DEFINE seq == EntryText(h)
  <1>2. Text(seq, n) /\ seq[1] = h /\ IsHead(h)  BY TextIs, SlotKinds
  <1> HIDE DEF seq
  <1>3. Rewritten(v, PutSlots(v, p, at, seq), T, c, e,
                  IF IsHead(seq[1]) THEN {EntryAt(c, e, seq[1])} ELSE {})
    BY <1>2, WriteText
  <1>4. (IF IsHead(seq[1]) THEN {EntryAt(c, e, seq[1])} ELSE {}) = {EntryAt(c, e, h)}  BY <1>2
  <1>5. PutEntry(v, p, at, h) = PutSlots(v, p, at, seq)  BY <1>1 DEF seq
  <1> QED BY <1>3, <1>4, <1>5

\* delete_dir_entry, of a whole entry
LEMMA WipeEntry ==
  ASSUME NEW v, VolOK(v), NEW T, TableOK(v, T), Ordered(v, T), NEW c \in DOMAIN T,
         NEW p, NEW at \in Int, NEW e, NEW n, LeadsTo(v, p, at, T[c], e, n),
         e \in HeadsAt(View(v, T[c])), n = NameLen[View(v, T[c])[e].name]
  PROVE  Rewritten(v, DeleteEntry(v, p, at, 0, n), T, c, e, {})
  <1>1. n \in Nat \ {0} /\ Spot(View(v, T[c]), e, n)
    BY WholeEntry, Zenon DEF Ordered, HeadsAt
  <1>2. DeleteEntry(v, p, at, 0, n) = PutSlots(v, p, at, Wiped(n))
    <2>1. at + 0 = at /\ n - 0 = n  BY <1>1
    <2> QED BY <2>1, Zenon DEF DeleteEntry, Wiped
  <1>3. Text(Wiped(n), n) /\ ~IsHead(Wiped(n)[1])  BY <1>1, TextIs, SlotKinds
  <1> QED BY <1>1, <1>2, <1>3, WriteText, Zenon

\* the head of an entry alone
LEMMA WriteHead ==
  ASSUME NEW v, VolOK(v), NEW T, TableOK(v, T), Ordered(v, T), NEW c \in DOMAIN T,
         NEW p, NEW at \in Int, NEW e, NEW n, LeadsTo(v, p, at, T[c], e, n),
         e \in HeadsAt(View(v, T[c])), n = NameLen[View(v, T[c])[e].name],
         NEW h \in Heads, n = NameLen[h.name]
  PROVE  Rewritten(v, PutSlots(v, p, at, <<h>>), T, c, e, {EntryAt(c, e, h)})
  <1> DEFINE q == T[c]
             w == PutSlots(v, p, at, <<h>>)
             s == View(v, q)
  <1>1. n \in Nat \ {0} /\ Spot(s, e, n)
    BY WholeEntry, Zenon DEF Ordered, HeadsAt
  <1>2. Patched(v, w, q, e, <<h>>)
    <2>1. LeadsTo(v, p, at, q, e, 1)  BY <1>1, LeadsShorter
    <2>2. DOMAIN <<h>> = 1 .. 1  OBVIOUS
    <2> QED BY <2>1, <2>2, PutSlotsPatch, Zenon DEF Ordered
  <1>3. Patched(v, w, q, e, EntryText(h))
    <2> HIDE DEF w, q
    <2>1. DOMAIN w.slots = DOMAIN v.slots /\ SlotsStay(v, w, Of(q))  BY <1>2 DEF Patched
    <2>2. ASSUME NEW j \in Idx(q)
          PROVE  View(w, q)[j] = IF j - e + 1 \in DOMAIN EntryText(h) THEN EntryText(h)[j - e + 1]
                                 ELSE View(v, q)[j]
      <3>1. View(w, q)[j] = IF j - e + 1 \in DOMAIN <<h>> THEN <<h>>[j - e + 1] ELSE s[j]
        BY <1>2 DEF Patched
      <3>2. DOMAIN <<h>> = {1} /\ <<h>>[1] = h  OBVIOUS
      <3>3. DOMAIN EntryText(h) = 1 .. n /\ EntryText(h)[1] = h
            /\ \A m \in 2 .. n : EntryText(h)[m] = Ext
        BY <1>1 DEF EntryText
      <3>4. CASE j - e + 1 = 1  BY <1>1, <3>1, <3>2, <3>3, <3>4
      <3>5. CASE j - e + 1 \in 2 .. n
        <4>1. s[j] = Ext
          <5>1. e \in Nat /\ n \in Nat  BY <1>1 DEF Spot
          <5>2. j \in Int
            <6>1. Len(q) \in Nat /\ SlotsPerClu \in Nat  BY LenProperties, VolumeAssumption DEF TableOK, q
            <6> QED BY <6>1 DEF Idx
          <5>3. j - e \in 1 .. n - 1 /\ e + (j - e) = j  BY <3>5, <5>1, <5>2
          <5>4. \A m \in 1 .. n - 1 : s[e + m] = Ext  BY Zenon DEF Ordered, InOrder, HeadsAt, s, q
          <5> QED BY <5>3, <5>4
        <4>2. EntryText(h)[j - e + 1] = Ext /\ j - e + 1 \in DOMAIN EntryText(h)
              /\ j - e + 1 \notin DOMAIN <<h>>
          BY <1>1, <3>2, <3>3, <3>5
        <4> QED BY <3>1, <4>1, <4>2
      <3>6. CASE j - e + 1 \notin 1 .. n
        <4>1. j - e + 1 # 1  BY <1>1, <3>6
        <4> QED BY <3>1, <3>2, <3>3, <3>6, <4>1
      <3>7. j - e + 1 \in 1 .. n => j - e + 1 = 1 \/ j - e + 1 \in 2 .. n  BY <1>1
      <3> QED BY <3>4, <3>5, <3>6, <3>7
    <2> QED BY <2>1, <2>2 DEF Patched
  <1>4. Text(EntryText(h), n) /\ EntryText(h)[1] = h /\ IsHead(h)  BY TextIs, SlotKinds
  <1>5. SameFat(v, w) /\ w.hint = v.hint  BY PutSlotsKeeps
  <1> HIDE DEF w
  <1>6. Rewritten(v, w, T, c, e, {EntryAt(c, e, h)})
    BY <1>1, <1>3, <1>4, <1>5, PatchRewrites, Zenon
  <1> QED BY <1>6 DEF w

\* rename_file, where the new name needs no more slots than the old one
LEMMA RenameInPlace ==
  ASSUME NEW v, VolOK(v), NEW T, TableOK(v, T), Ordered(v, T), NEW c \in DOMAIN T,
         NEW p, NEW at \in Int, NEW e, NEW n, LeadsTo(v, p, at, T[c], e, n),
         e \in HeadsAt(View(v, T[c])), n = NameLen[View(v, T[c])[e].name],
         NEW h \in Heads, NEW k, k = NameLen[h.name], k <= n
  PROVE  Rewritten(v, DeleteEntry(PutEntry(v, p, at, h), p, at, k, n), T, c, e, {EntryAt(c, e, h)})
  <1> DEFINE q == T[c]
             u == PutSlots(v, p, at, EntryText(h))
             w == PutSlots(u, p, at + k, Wiped(n - k))
             s == View(v, q)
             both == [m \in 1 .. n |-> IF m <= k THEN EntryText(h)[m] ELSE Deleted]
  <1>1. n \in Nat \ {0} /\ Spot(s, e, n) /\ e \in Nat
    <2>1. n \in Nat \ {0} /\ Spot(s, e, n)  BY WholeEntry DEF Ordered, HeadsAt
    <2> QED BY <2>1 DEF Spot
  <1>2. k \in Nat /\ k >= 1 /\ n - k \in Nat  BY <1>1, SlotKinds
  <1>3. Patched(v, u, q, e, EntryText(h))
    <2>1. LeadsTo(v, p, at, q, e, k)  BY <1>2, LeadsShorter
    <2>2. DOMAIN EntryText(h) = 1 .. k  BY DEF EntryText
    <2> QED BY <2>1, <2>2, PutSlotsPatch DEF Ordered
  <1>4. SameFat(v, u) /\ VolOK(u) /\ u.hint = v.hint  BY PutSlotsKeeps
  <1>5. SlotsOK(u)  BY <1>3 DEF Patched, SlotsOK, Ordered
  <1> HIDE DEF u, q
  <1>6. LeadsTo(u, p, at + k, q, e + k, n - k)
    <2>1. LeadsTo(u, p, at, q, e, n)  BY <1>4, SameLocate DEF SameFat, SameClusters, q
    <2>2. /\ q \in Seq(Clusters) /\ \A a, b \in 1 .. Len(q) : q[a] = q[b] => a = b
          /\ \A m \in 0 .. n - 1 : e + m \in Idx(q) /\ Locate(u, p, at + m) = Loc(q, e + m)
      BY <2>1 DEF LeadsTo
    <2>3. ASSUME NEW m \in 0 .. (n - k) - 1
          PROVE  (e + k) + m \in Idx(q) /\ Locate(u, p, (at + k) + m) = Loc(q, (e + k) + m)
      <3>1. k + m \in 0 .. n - 1 /\ (e + k) + m = e + (k + m) /\ (at + k) + m = at + (k + m)
        BY <1>1, <1>2
      <3> QED BY <2>2, <3>1
    <2> QED BY <1>1, <1>2, <2>2, <2>3 DEF LeadsTo
  <1>7. Patched(u, w, q, e + k, Wiped(n - k))
    <2>1. DOMAIN Wiped(n - k) = 1 .. n - k /\ at + k \in Int  BY <1>2 DEF Wiped
    <2> QED BY <1>4, <1>5, <1>6, <2>1, PutSlotsPatch
  <1>8. SameFat(u, w) /\ w.hint = u.hint  BY <1>4, PutSlotsKeeps
  <1> HIDE DEF w
  <1>9. Patched(v, w, q, e, both)
    <2>1. DOMAIN w.slots = DOMAIN v.slots  BY <1>3, <1>7 DEF Patched
    <2>2. SlotsStay(v, w, Of(q))  BY <1>3, <1>7 DEF Patched, SlotsStay
    <2>3. ASSUME NEW j \in Idx(q)
          PROVE  View(w, q)[j] = IF j - e + 1 \in DOMAIN both THEN both[j - e + 1] ELSE View(v, q)[j]
      <3>1. j \in Int
        <4>1. Len(q) \in Nat /\ SlotsPerClu \in Nat  BY LenProperties, VolumeAssumption DEF TableOK, q
        <4> QED BY <4>1 DEF Idx
      <3>2. DOMAIN EntryText(h) = 1 .. k /\ DOMAIN Wiped(n - k) = 1 .. n - k
            /\ \A m \in 1 .. n - k : Wiped(n - k)[m] = Deleted
        BY DEF EntryText, Wiped
      <3>3. View(w, q)[j] = IF j - (e + k) + 1 \in 1 .. n - k THEN Wiped(n - k)[j - (e + k) + 1]
                            ELSE View(u, q)[j]
        BY <1>7, <3>2, Zenon DEF Patched
      <3>4. View(u, q)[j] = IF j - e + 1 \in 1 .. k THEN EntryText(h)[j - e + 1] ELSE View(v, q)[j]
        BY <1>3, <3>2 DEF Patched
      <3>5. CASE j - e + 1 \in 1 .. k
        <4>1. j - (e + k) + 1 \notin 1 .. n - k /\ j - e + 1 \in 1 .. n /\ j - e + 1 <= k
          BY <1>1, <1>2, <3>1, <3>5
        <4> QED BY <3>3, <3>4, <3>5, <4>1
      <3>6. CASE j - e + 1 \in k + 1 .. n
        <4>1. j - (e + k) + 1 \in 1 .. n - k /\ j - e + 1 \in 1 .. n /\ ~(j - e + 1 <= k)
          BY <1>1, <1>2, <3>1, <3>6
        <4> QED BY <3>2, <3>3, <4>1
      <3>7. CASE j - e + 1 \notin 1 .. n
        <4>1. j - (e + k) + 1 \notin 1 .. n - k /\ j - e + 1 \notin 1 .. k
          BY <1>1, <1>2, <3>1, <3>7
        <4> QED BY <3>3, <3>4, <3>7, <4>1
      <3>8. j - e + 1 \in 1 .. n => j - e + 1 \in 1 .. k \/ j - e + 1 \in k + 1 .. n
        BY <1>1, <1>2, <3>1
      <3> QED BY <3>5, <3>6, <3>7, <3>8
    <2> HIDE DEF both
    <2> QED BY <2>1, <2>2, <2>3 DEF Patched
  <1>10. Text(both, n) /\ both[1] = h
    <2>1. EntryText(h)[1] = h /\ \A m \in 2 .. k : EntryText(h)[m] = Ext
      BY <1>2 DEF EntryText
    <2>2. DOMAIN both = 1 .. n /\ both[1] = h  BY <1>1, <1>2, <2>1
    <2>3. \A m \in 2 .. k : both[m] = Ext  BY <1>1, <1>2, <2>1
    <2>4. \A m \in 2 .. n : both[m] \in {Ext, Deleted}  BY <1>1, <1>2, <2>1
    <2> HIDE DEF both
    <2> QED BY <2>2, <2>3, <2>4 DEF Text
  <1>11. SameFat(v, w) /\ w.hint = v.hint  BY <1>4, <1>8 DEF SameFat, SameClusters
  <1>12. Rewritten(v, w, T, c, e, {EntryAt(c, e, h)})
    <2>1. IsHead(h)  BY SlotKinds
    <2> HIDE DEF both
    <2> QED BY <1>1, <1>9, <1>10, <1>11, <2>1, PatchRewrites, Zenon DEF q
  <1>13. w = DeleteEntry(PutEntry(v, p, at, h), p, at, k, n)
    <2>1. PutEntry(v, p, at, h) = u  BY DEF PutEntry, EntryText, u
    <2> QED BY <2>1 DEF DeleteEntry, Wiped, w
  <1> QED BY <1>12, <1>13
-----------------------------------------------------------------------------
(* Entries, inodes and clusters: the catalogue of a volume.                *)

Catalogue(E, v, ino, pnd, T) ==
    /\ Good(v, ino) /\ Dirs(ino, pnd) /\ NamesTrue(E, ino, pnd, T)
    /\ DataTrue(Lone(E, ino), v, ino, T)

IsDirectory(f) == f.st = "linked" /\ f.type = "dir"

\* The entry of an inode: there is one, and no other.
LEMMA OwnEntry ==
  ASSUME NEW E, NEW ino, NEW pnd, NEW T, NamesTrue(E, ino, pnd, T),
         NEW i \in Inodes \ {Root}, ino[i].st = "linked"
  PROVE  \E x \in E : /\ Home(E, ino, i, x) /\ Has(ino, i, x)
                      /\ \A y \in E : Has(ino, i, y) => y = x
  <1>1. PICK x \in E : Home(E, ino, i, x)  BY DEF NamesTrue, HomesTrue
  <1>2. x.head.name = ino[i].name /\ x.dir = ino[ino[i].parent].start
    BY <1>1 DEF Home, Agrees
  <1>3. Has(ino, i, x)  BY <1>2 DEF Has
  <1>4. ASSUME NEW y \in E, Has(ino, i, y) PROVE y = x
    <2>1. y.dir = x.dir /\ y.head.name = x.head.name  BY <1>2, <1>4 DEF Has
    <2> QED BY <2>1 DEF NamesTrue, EntriesTrue
  <1> QED BY <1>1, <1>3, <1>4

LEMMA HasIsHome ==
  ASSUME NEW E, NEW ino, NEW pnd, NEW T, NamesTrue(E, ino, pnd, T),
         NEW i \in Inodes \ {Root}, NEW x \in E, Has(ino, i, x)
  PROVE  Home(E, ino, i, x)
  <1>1. ino[i].st = "linked"  BY DEF Has
  <1> QED BY <1>1, OwnEntry

\* Directories with the same first cluster are one.
LEMMA SameDirectory ==
  ASSUME NEW v, NEW ino, Good(v, ino), NEW i \in Inodes, NEW j \in Inodes,
         Owns(ino[i]), Owns(ino[j]), ino[i].start = ino[j].start
  PROVE  i = j
  <1> SUFFICES ASSUME i # j PROVE FALSE  OBVIOUS
  <1>1. /\ Whole(v, ino[i], Clus(v, ino[i])) /\ Whole(v, ino[j], Clus(v, ino[j]))
        /\ Of(Clus(v, ino[i])) \cap Of(Clus(v, ino[j])) = {}
    BY DEF Good, Apart
  <1>2. \A f, q : Whole(v, f, q) => f.start \in Of(q)
    <2> TAKE f, q
    <2> HAVE Whole(v, f, q)
    <2>1. Len(q) \in Nat /\ Len(q) > 0 /\ f.start = q[1]  BY LenProperties DEF Whole, Through, ChainOf, Chain
    <2> QED BY <2>1 DEF Of
  <1> QED BY <1>1, <1>2

LEMMA LoneIs ==
  ASSUME NEW L, NEW v, NEW ino, NEW T, ChainsTrue(L, v, ino, T), NEW x \in L
  PROVE  /\ Stranger(v, ino, HeadChain(x.head), ClusAt(v, x))
         /\ x.head.size \in 1 .. Len(ClusAt(v, x))
         /\ x.head.type = "dir" => /\ T[x.head.clu] = ClusAt(v, x)
                                   /\ x.head.size = Len(T[x.head.clu])
  BY DEF ChainsTrue

\* Each directory has an inode, or an entry that tells of it.
LEMMA DirectoryIs ==
  ASSUME NEW E, NEW v, NEW ino, NEW pnd, NEW T, Catalogue(E, v, ino, pnd, T), NEW c \in DOMAIN T
  PROVE  \/ \E d \in Inodes : /\ IsDirectory(ino[d]) /\ ino[d].start = c /\ Owns(ino[d])
                              /\ T[c] = Clus(v, ino[d]) /\ Whole(v, ino[d], T[c])
                              /\ ino[d].size = Len(T[c])
         \/ \E x \in Lone(E, ino) : /\ x.head.type = "dir" /\ x.head.clu = c
                                    /\ T[c] = ClusAt(v, x) /\ Stranger(v, ino, HeadChain(x.head), T[c])
  <1>1. Good(v, ino) /\ Dirs(ino, pnd) /\ NamesTrue(E, ino, pnd, T)
        /\ ChainsTrue(Lone(E, ino), v, ino, T)
    BY DEF Catalogue, DataTrue
  <1>2. ASSUME NEW d \in Inodes, IsDirectory(ino[d]), ino[d].start = c
        PROVE  /\ Owns(ino[d]) /\ T[c] = Clus(v, ino[d]) /\ Whole(v, ino[d], T[c])
               /\ ino[d].size = Len(T[c])
    <2>1. Owns(ino[d])  BY <1>1, <1>2, DirOwns DEF Good, IsDirectory
    <2>2. T[c] = Clus(v, ino[d]) /\ ino[d].size = Len(T[c])
      BY <1>1, <1>2 DEF ChainsTrue, IsDirectory
    <2> QED BY <1>1, <2>1, <2>2 DEF Good, Apart
  <1>3. CASE c = RootClu
    <2>1. Root \in Inodes /\ IsDirectory(ino[Root]) /\ ino[Root].start = c
      BY <1>1, <1>3, VolumeAssumption DEF Dirs, IsDirectory
    <2> QED BY <1>2, <2>1
  <1>4. CASE c # RootClu
    <2>1. PICK x \in E : x.head.type = "dir" /\ x.head.clu = c
      BY <1>1, <1>4 DEF NamesTrue, DirsTrue
    <2>2. CASE x \in Lone(E, ino)
      <3>1. /\ Stranger(v, ino, HeadChain(x.head), ClusAt(v, x))
            /\ x.head.type = "dir" => T[x.head.clu] = ClusAt(v, x)
        BY <1>1, <2>2, LoneIs
      <3>2. T[c] = ClusAt(v, x)  BY <2>1, <3>1
      <3>3. Stranger(v, ino, HeadChain(x.head), T[c])  BY <3>1, <3>2
      <3> QED BY <2>1, <2>2, <3>2, <3>3
    <2>3. CASE x \notin Lone(E, ino)
      <3>1. PICK i \in Inodes \ {Root} : Has(ino, i, x)
        BY <2>1, <2>3 DEF Lone
      <3>2. Home(E, ino, i, x) /\ ino[i].st = "linked"  BY <1>1, <3>1, HasIsHome DEF Has
      <3>3. Agrees(ino[i], x.head)  BY <3>2 DEF Home
      <3>4. IsDirectory(ino[i])  BY <2>1, <3>2, <3>3 DEF Agrees, IsDirectory
      <3>5. ino[i].start # EOC  BY <1>1, <3>4, DirOwns DEF Good, IsDirectory, Owns
      <3>6. ino[i].start = c  BY <2>1, <3>3, <3>5 DEF Agrees
      <3> QED BY <1>2, <3>4, <3>6
    <2> QED BY <2>2, <2>3
  <1> QED BY <1>3, <1>4

LEMMA TableIs ==
  ASSUME NEW E, NEW v, NEW ino, NEW pnd, NEW T, Catalogue(E, v, ino, pnd, T)
  PROVE  TableOK(v, T)
  <1>1. ASSUME NEW c \in DOMAIN T
        PROVE  /\ T[c] \in Seq(Clusters) /\ Len(T[c]) > 0 /\ T[c][1] = c
               /\ \A j, k \in 1 .. Len(T[c]) : T[c][j] = T[c][k] => j = k
               /\ Of(T[c]) \subseteq v.bitmap
    <2>1. \E p : Through(v, p, T[c]) /\ Of(T[c]) \subseteq v.bitmap /\ p.dir = c
      <3>1. CASE \E d \in Inodes : ino[d].start = c /\ Whole(v, ino[d], T[c])
        BY <3>1 DEF Whole, ChainOf, Chain
      <3>2. CASE \E x \in Lone(E, ino) : x.head.clu = c /\ Stranger(v, ino, HeadChain(x.head), T[c])
        BY <3>2 DEF Stranger, HeadChain, Chain
      <3> QED BY <3>1, <3>2, DirectoryIs
    <2> QED BY <2>1 DEF Through
  <1>2. ASSUME NEW c \in DOMAIN T, NEW d \in DOMAIN T, c # d
        PROVE  Of(T[c]) \cap Of(T[d]) = {}
    <2> DEFINE Ino(b) == \E i \in Inodes : ino[i].start = b /\ Owns(ino[i]) /\ T[b] = Clus(v, ino[i])
               Ent(b) == \E x \in Lone(E, ino) : /\ x.head.clu = b /\ T[b] = ClusAt(v, x)
                                                 /\ Stranger(v, ino, HeadChain(x.head), T[b])
    <2>1. (Ino(c) \/ Ent(c)) /\ (Ino(d) \/ Ent(d))  BY DirectoryIs
    <2>2. ASSUME NEW a \in DOMAIN T, NEW b \in DOMAIN T, Ino(a), Ent(b)
          PROVE  Of(T[a]) \cap Of(T[b]) = {}
      BY <2>2 DEF Stranger
    <2>3. CASE Ino(c) /\ Ino(d)
      <3>1. PICK i \in Inodes : ino[i].start = c /\ Owns(ino[i]) /\ T[c] = Clus(v, ino[i])
        BY <2>3
      <3>2. PICK j \in Inodes : ino[j].start = d /\ Owns(ino[j]) /\ T[d] = Clus(v, ino[j])
        BY <2>3
      <3>3. i # j  BY <1>2, <3>1, <3>2
      <3> QED BY <3>1, <3>2, <3>3 DEF Catalogue, Good, Apart
    <2>4. CASE Ent(c) /\ Ent(d)
      <3>1. PICK x \in Lone(E, ino) : x.head.clu = c /\ T[c] = ClusAt(v, x)  BY <2>4
      <3>2. PICK y \in Lone(E, ino) : y.head.clu = d /\ T[d] = ClusAt(v, y)  BY <2>4
      <3>3. x # y  BY <1>2, <3>1, <3>2
      <3> QED BY <3>1, <3>2, <3>3 DEF Catalogue, DataTrue, ChainsTrue
    <2> HIDE DEF Ino, Ent
    <2> QED BY <2>1, <2>2, <2>3, <2>4
  <1> QED BY <1>1, <1>2 DEF TableOK
-----------------------------------------------------------------------------
(* One inode gives clusters back and takes others: what is known of the    *)
(* clusters of all the rest stays true.                                    *)

SameOwner(f, g) ==
    \/ g.st = f.st /\ g.type = f.type /\ g.start = f.start /\ g.size = f.size /\ g.flags = f.flags
    \/ ~Owns(f) /\ ~Owns(g)

DataSteps(v, ino, w, jno, t) ==
    /\ Good(v, ino) /\ Good(w, jno) /\ StrangersStay(v, ino, w, jno) /\ t \in Inodes
    /\ OthersStay(v, w, UsedBy(v, ino[t]))
    /\ \A j \in Inodes : j # t => SameOwner(ino[j], jno[j])
    /\ w.bitmap \subseteq (v.bitmap \ UsedBy(v, ino[t])) \cup UsedBy(w, jno[t])

\* The table after it.
TableSteps(v, ino, T, w, jno, T2, t) ==
    /\ IsDirectory(jno[t]) => T2[jno[t].start] = Clus(w, jno[t]) /\ jno[t].size = Len(T2[jno[t].start])
    /\ \A c \in DOMAIN T : c \notin UsedBy(v, ino[t]) \cup UsedBy(w, jno[t]) => T2[c] = T[c]

LEMMA OtherChains ==
  ASSUME NEW v, NEW ino, NEW w, NEW jno, NEW t, DataSteps(v, ino, w, jno, t),
         NEW j \in Inodes, j # t, Owns(ino[j])
  PROVE  /\ Owns(jno[j]) /\ Clus(w, jno[j]) = Clus(v, ino[j])
         /\ Of(Clus(v, ino[j])) \cap UsedBy(v, ino[t]) = {}
         /\ Of(Clus(v, ino[j])) \cap UsedBy(w, jno[t]) = {}
         /\ ino[j].start \in Of(Clus(v, ino[j]))
  <1> DEFINE q == Clus(v, ino[j])
  <1>1. Whole(v, ino[j], q)  BY DEF DataSteps, Good, Apart
  <1>2. Of(q) \cap UsedBy(v, ino[t]) = {}  BY DEF DataSteps, Good, Apart, UsedBy
  <1>3. SameOwner(ino[j], jno[j])  BY DEF DataSteps
  <1>4. Owns(jno[j]) /\ ChainOf(jno[j]) = ChainOf(ino[j])
    BY <1>3 DEF SameOwner, Owns, ChainOf
  <1> HIDE DEF q
  <1>5. Through(v, ChainOf(ino[j]), q) /\ Of(q) \subseteq v.bitmap \ UsedBy(v, ino[t])
    BY <1>1, <1>2 DEF Whole
  <1>6. Through(w, ChainOf(jno[j]), q)  BY <1>4, <1>5 DEF DataSteps, OthersStay
  <1>7. Clus(w, jno[j]) = q  BY <1>6, ChainIs DEF Clus, DataSteps, Good, VolOK
  <1>8. Of(q) \cap UsedBy(w, jno[t]) = {}
    <2>1. CASE Owns(jno[t])  BY <1>4, <1>7, <2>1 DEF DataSteps, Good, Apart, UsedBy
    <2>2. CASE ~Owns(jno[t])  BY <2>2 DEF UsedBy
    <2> QED BY <2>1, <2>2
  <1>9. ino[j].start \in Of(q)
    <2>1. Len(q) \in Nat /\ Len(q) > 0 /\ ino[j].start = q[1]
      BY <1>5, LenProperties DEF Through, ChainOf, Chain
    <2> QED BY <2>1 DEF Of
  <1> QED BY <1>2, <1>4, <1>7, <1>8, <1>9 DEF q

LEMMA OtherStrangers ==
  ASSUME NEW v, NEW ino, NEW w, NEW jno, NEW t, DataSteps(v, ino, w, jno, t), NEW x,
         Stranger(v, ino, HeadChain(x.head), ClusAt(v, x))
  PROVE  /\ ClusAt(w, x) = ClusAt(v, x) /\ Stranger(w, jno, HeadChain(x.head), ClusAt(w, x))
         /\ Of(ClusAt(v, x)) \cap UsedBy(v, ino[t]) = {}
         /\ Of(ClusAt(v, x)) \cap UsedBy(w, jno[t]) = {}
         /\ x.head.clu \in Of(ClusAt(v, x))
  <1> DEFINE q == ClusAt(v, x)
  <1>1. Stranger(w, jno, HeadChain(x.head), q)  BY DEF DataSteps, StrangersStay
  <1>2. ClusAt(w, x) = q  BY <1>1, ChainIs DEF ClusAt, Stranger, DataSteps, Good, VolOK
  <1>3. Of(q) \cap UsedBy(v, ino[t]) = {} /\ Of(q) \cap UsedBy(w, jno[t]) = {}
    BY <1>1 DEF Stranger, UsedBy, DataSteps
  <1> HIDE DEF q
  <1>4. x.head.clu \in Of(q)
    <2>1. Len(q) \in Nat /\ Len(q) > 0 /\ x.head.clu = q[1]
      BY <1>1, LenProperties DEF Stranger, Through, HeadChain, Chain
    <2> QED BY <2>1 DEF Of
  <1> QED BY <1>1, <1>2, <1>3, <1>4 DEF q

LEMMA DataStep ==
  ASSUME NEW v, NEW ino, NEW w, NEW jno, NEW t, DataSteps(v, ino, w, jno, t),
         NEW E, NEW pnd, NEW T, NamesTrue(E, ino, pnd, T), NEW L, L \subseteq E,
         DataTrue(L, v, ino, T), NEW T2, TableSteps(v, ino, T, w, jno, T2, t)
  PROVE  DataTrue(L, w, jno, T2)
  <1>1. ASSUME NEW d \in Inodes, IsDirectory(jno[d])
        PROVE  T2[jno[d].start] = Clus(w, jno[d]) /\ jno[d].size = Len(T2[jno[d].start])
    <2>1. CASE d = t  BY <1>1, <2>1 DEF TableSteps
    <2>2. CASE d # t
      <3>1. SameOwner(ino[d], jno[d])  BY <2>2 DEF DataSteps
      <3>2. IsDirectory(ino[d]) /\ jno[d].start = ino[d].start /\ jno[d].size = ino[d].size
        <4>1. Owns(jno[d])  BY <1>1, DirOwns DEF DataSteps, Good, IsDirectory
        <4> QED BY <1>1, <3>1, <4>1 DEF SameOwner, IsDirectory
      <3>3. Owns(ino[d])  BY <3>2, DirOwns DEF DataSteps, Good, IsDirectory
      <3>4. Clus(w, jno[d]) = Clus(v, ino[d])
            /\ ino[d].start \notin UsedBy(v, ino[t]) \cup UsedBy(w, jno[t])
        BY <2>2, <3>3, OtherChains
      <3>5. ino[d].start \in DOMAIN T  BY <3>2 DEF NamesTrue, DirsTrue, IsDirectory
      <3>6. T2[ino[d].start] = T[ino[d].start]  BY <3>4, <3>5 DEF TableSteps
      <3>7. T[ino[d].start] = Clus(v, ino[d]) /\ ino[d].size = Len(T[ino[d].start])
        BY <3>2 DEF DataTrue, ChainsTrue, IsDirectory
      <3> QED BY <3>2, <3>4, <3>6, <3>7
    <2> QED BY <2>1, <2>2
  <1>2. ASSUME NEW x \in L
        PROVE  /\ Stranger(w, jno, HeadChain(x.head), ClusAt(w, x)) /\ ClusAt(w, x) = ClusAt(v, x)
               /\ x.head.size \in 1 .. Len(ClusAt(w, x))
               /\ x.head.type = "dir" => /\ T2[x.head.clu] = ClusAt(w, x)
                                         /\ x.head.size = Len(T2[x.head.clu])
    <2>1. /\ Stranger(v, ino, HeadChain(x.head), ClusAt(v, x)) /\ x.head.size \in 1 .. Len(ClusAt(v, x))
          /\ x.head.type = "dir" => /\ T[x.head.clu] = ClusAt(v, x)
                                    /\ x.head.size = Len(T[x.head.clu])
      BY LoneIs DEF DataTrue
    <2>2. /\ ClusAt(w, x) = ClusAt(v, x) /\ Stranger(w, jno, HeadChain(x.head), ClusAt(w, x))
          /\ x.head.clu \notin UsedBy(v, ino[t]) \cup UsedBy(w, jno[t])
      BY <2>1, OtherStrangers
    <2>3. ASSUME x.head.type = "dir" PROVE T2[x.head.clu] = T[x.head.clu]
      <3>1. x.head.clu \in DOMAIN T  BY <2>3 DEF NamesTrue, DirsTrue
      <3> QED BY <2>2, <3>1 DEF TableSteps
    <2> QED BY <2>1, <2>2, <2>3
  <1>3. ChainsTrue(L, w, jno, T2)
    <2>1. ASSUME NEW x \in L, NEW y \in L, x # y
          PROVE  Of(ClusAt(w, x)) \cap Of(ClusAt(w, y)) = {}
      BY <1>2, <2>1 DEF DataTrue, ChainsTrue
    <2> QED BY <1>1, <1>2, <2>1 DEF ChainsTrue, IsDirectory
  <1>4. ASSUME NEW c \in SystemClus PROVE Stranger(w, jno, Chain(c, 1, 3), <<c>>)
    <2>1. Stranger(v, ino, Chain(c, 1, 3), <<c>>)  BY DEF DataTrue, NothingLost
    <2> QED BY <2>1 DEF DataSteps, StrangersStay
  <1>5. ASSUME NEW x \in L PROVE Of(ClusAt(w, x)) \cap SystemClus = {}
    BY <1>2 DEF DataTrue, NothingLost
  <1>6. ASSUME NEW c \in w.bitmap
        PROVE  \/ c \in SystemClus
               \/ \E i \in Inodes : Owns(jno[i]) /\ c \in Of(Clus(w, jno[i]))
               \/ \E x \in L : c \in Of(ClusAt(w, x))
    <2>1. CASE c \in UsedBy(w, jno[t])
      BY <2>1 DEF UsedBy, DataSteps
    <2>2. CASE c \in v.bitmap \ UsedBy(v, ino[t])
      <3>1. \/ c \in SystemClus
            \/ \E i \in Inodes : Owns(ino[i]) /\ c \in Of(Clus(v, ino[i]))
            \/ \E x \in L : c \in Of(ClusAt(v, x))
        BY <2>2 DEF DataTrue, NothingLost
      <3>2. ASSUME NEW i \in Inodes, Owns(ino[i]), c \in Of(Clus(v, ino[i]))
            PROVE  Owns(jno[i]) /\ c \in Of(Clus(w, jno[i]))
        <4>1. i # t  BY <2>2, <3>2 DEF UsedBy
        <4> QED BY <3>2, <4>1, OtherChains
      <3> QED BY <1>2, <3>1, <3>2
    <2> QED BY <2>1, <2>2 DEF DataSteps
  <1>7. NothingLost(L, w, jno)  BY <1>4, <1>5, <1>6 DEF NothingLost
  <1> QED BY <1>3, <1>7 DEF DataTrue
-----------------------------------------------------------------------------
(* An inode for the clusters of an entry, and an inode that is let go.     *)

\* Chains are the same; t gets an inode that owns what x tells of.
Attaches(L, v, ino, w, jno, t, x) ==
    /\ Good(v, ino) /\ Good(w, jno) /\ ChainsSame(v, w) /\ t \in Inodes
    /\ \A j \in Inodes : j # t => jno[j] = ino[j]
    /\ ~Owns(ino[t]) /\ Owns(jno[t]) /\ x \in L
    /\ jno[t].start = x.head.clu /\ jno[t].type = x.head.type /\ jno[t].size = x.head.size
    /\ Clus(w, jno[t]) = ClusAt(v, x)

LEMMA SameChains ==
  ASSUME NEW v, NEW w, ChainsSame(v, w)
  PROVE  /\ \A f : Clus(w, f) = Clus(v, f)
         /\ \A x : ClusAt(w, x) = ClusAt(v, x)
         /\ \A p, q : Through(w, p, q) <=> Through(v, p, q)
  <1>1. w.fat = v.fat  BY DEF ChainsSame
  <1>2. \A p : ChainSeq(w, p) = ChainSeq(v, p)
    BY <1>1 DEF ChainSeq, ChainLen, NthCluster, ReadFat
  <1> QED BY <1>1, <1>2 DEF Clus, ClusAt, Through

LEMMA AttachData ==
  ASSUME NEW L, NEW v, NEW ino, NEW w, NEW jno, NEW t, NEW x, Attaches(L, v, ino, w, jno, t, x),
         NEW T, DataTrue(L, v, ino, T)
  PROVE  DataTrue(L \ {x}, w, jno, T)
  <1> DEFINE r == ClusAt(v, x)
  <1>1. /\ \A f : Clus(w, f) = Clus(v, f)
        /\ \A y : ClusAt(w, y) = ClusAt(v, y)
        /\ \A p, q : Through(w, p, q) <=> Through(v, p, q)
    BY SameChains DEF Attaches
  <1>2. w.bitmap = v.bitmap  BY DEF Attaches, ChainsSame
  <1>3. Clus(w, jno[t]) = r  BY DEF Attaches
  <1>4. ASSUME NEW p, NEW q, Stranger(v, ino, p, q), Of(q) \cap Of(r) = {}
        PROVE  Stranger(w, jno, p, q)
    <2>1. ASSUME NEW j \in Inodes, Owns(jno[j]) PROVE Of(q) \cap Of(Clus(w, jno[j])) = {}
      <3>1. CASE j = t  BY <1>3, <1>4, <3>1
      <3>2. CASE j # t
        <4>1. jno[j] = ino[j]  BY <3>2 DEF Attaches
        <4> QED BY <1>1, <1>4, <2>1, <4>1 DEF Stranger
      <3> QED BY <3>1, <3>2
    <2> QED BY <1>1, <1>2, <1>4, <2>1 DEF Stranger
  <1>5. x \in L /\ \A y \in L \ {x} : Of(ClusAt(v, y)) \cap Of(r) = {}
    BY DEF Attaches, DataTrue, ChainsTrue
  <1>6. ASSUME NEW d \in Inodes, IsDirectory(jno[d])
        PROVE  T[jno[d].start] = Clus(w, jno[d]) /\ jno[d].size = Len(T[jno[d].start])
    <2>1. CASE d = t
      <3>1. x.head.type = "dir" /\ jno[t].start = x.head.clu /\ jno[t].size = x.head.size
        BY <1>6, <2>1 DEF Attaches, IsDirectory
      <3>2. T[x.head.clu] = r /\ x.head.size = Len(T[x.head.clu])
        BY <1>5, <3>1, LoneIs DEF DataTrue
      <3> QED BY <1>3, <2>1, <3>1, <3>2
    <2>2. CASE d # t
      <3>1. jno[d] = ino[d]  BY <2>2 DEF Attaches
      <3> QED BY <1>1, <1>6, <3>1 DEF DataTrue, ChainsTrue, IsDirectory
    <2> QED BY <2>1, <2>2
  <1>7. ASSUME NEW y \in L \ {x}
        PROVE  /\ Stranger(w, jno, HeadChain(y.head), ClusAt(w, y))
               /\ y.head.size \in 1 .. Len(ClusAt(w, y))
               /\ y.head.type = "dir" => /\ T[y.head.clu] = ClusAt(w, y)
                                         /\ y.head.size = Len(T[y.head.clu])
    <2>1. /\ Stranger(v, ino, HeadChain(y.head), ClusAt(v, y)) /\ y.head.size \in 1 .. Len(ClusAt(v, y))
          /\ y.head.type = "dir" => /\ T[y.head.clu] = ClusAt(v, y)
                                    /\ y.head.size = Len(T[y.head.clu])
      BY LoneIs DEF DataTrue
    <2>2. Stranger(w, jno, HeadChain(y.head), ClusAt(v, y))  BY <1>4, <1>5, <2>1
    <2>3. ClusAt(w, y) = ClusAt(v, y)  BY <1>1
    <2> QED BY <2>1, <2>2, <2>3
  <1>8. ChainsTrue(L \ {x}, w, jno, T)
    <2>1. ASSUME NEW y \in L \ {x}, NEW z \in L \ {x}, y # z
          PROVE  Of(ClusAt(w, y)) \cap Of(ClusAt(w, z)) = {}
      BY <1>1, <2>1 DEF DataTrue, ChainsTrue
    <2> QED BY <1>6, <1>7, <2>1 DEF ChainsTrue, IsDirectory
  <1>9. ASSUME NEW c \in SystemClus PROVE Stranger(w, jno, Chain(c, 1, 3), <<c>>)
    <2>1. Stranger(v, ino, Chain(c, 1, 3), <<c>>)  BY DEF DataTrue, NothingLost
    <2>2. Of(r) \cap SystemClus = {}  BY <1>5 DEF DataTrue, NothingLost
    <2>3. Of(<<c>>) = {c}
      <3>1. Len(<<c>>) = 1 /\ <<c>>[1] = c  OBVIOUS
      <3> QED BY <3>1 DEF Of
    <2> QED BY <1>4, <2>1, <2>2, <2>3
  <1>10. ASSUME NEW c \in w.bitmap
         PROVE  \/ c \in SystemClus
                \/ \E i \in Inodes : Owns(jno[i]) /\ c \in Of(Clus(w, jno[i]))
                \/ \E y \in L \ {x} : c \in Of(ClusAt(w, y))
    <2>1. \/ c \in SystemClus
          \/ \E i \in Inodes : Owns(ino[i]) /\ c \in Of(Clus(v, ino[i]))
          \/ \E y \in L : c \in Of(ClusAt(v, y))
      BY <1>2 DEF DataTrue, NothingLost
    <2>2. ASSUME NEW i \in Inodes, Owns(ino[i]), c \in Of(Clus(v, ino[i]))
          PROVE  Owns(jno[i]) /\ c \in Of(Clus(w, jno[i]))
      <3>1. i # t  BY <2>2 DEF Attaches
      <3>2. jno[i] = ino[i]  BY <3>1 DEF Attaches
      <3> QED BY <1>1, <2>2, <3>2
    <2>3. ASSUME c \in Of(r) PROVE \E i \in Inodes : Owns(jno[i]) /\ c \in Of(Clus(w, jno[i]))
      <3>1. t \in Inodes /\ Owns(jno[t])  BY DEF Attaches
      <3> QED BY <1>3, <2>3, <3>1
    <2> QED BY <1>1, <2>1, <2>2, <2>3
  <1>11. NothingLost(L \ {x}, w, jno)
    <2>1. ASSUME NEW y \in L \ {x} PROVE Of(ClusAt(w, y)) \cap SystemClus = {}
      BY <1>1 DEF DataTrue, NothingLost
    <2> QED BY <1>9, <1>10, <2>1 DEF NothingLost
  <1> QED BY <1>8, <1>11 DEF DataTrue

\* The inode t is given up, and its entry x tells of all that it had.
LetsGo(v, ino, jno, t, x, T) ==
    /\ Good(v, ino) /\ Good(v, jno) /\ t \in Inodes
    /\ \A j \in Inodes : j # t => jno[j] = ino[j]
    /\ Owns(ino[t]) /\ ~Owns(jno[t]) /\ ino[t].st = "linked"
    /\ HeadChain(x.head) = ChainOf(ino[t]) /\ x.head.type = ino[t].type

LEMMA LetGoData ==
  ASSUME NEW v, NEW ino, NEW jno, NEW t, NEW x, NEW T, LetsGo(v, ino, jno, t, x, T),
         NEW L, DataTrue(L, v, ino, T)
  PROVE  DataTrue(L \cup {x}, v, jno, T)
  <1> DEFINE r == ClusAt(v, x)
             f == ino[t]
  <1>1. Whole(v, f, Clus(v, f)) /\ Clus(v, f) = r /\ f.start = x.head.clu /\ f.size = x.head.size
    BY DEF LetsGo, Good, Apart, Clus, ClusAt, HeadChain, ChainOf, Chain
  <1>2. ASSUME NEW p, NEW q, Stranger(v, ino, p, q)
        PROVE  Stranger(v, jno, p, q) /\ Of(q) \cap Of(r) = {}
    <2>1. ASSUME NEW j \in Inodes, Owns(jno[j]) PROVE Of(q) \cap Of(Clus(v, jno[j])) = {}
      <3>1. j # t  BY <2>1 DEF LetsGo
      <3>2. jno[j] = ino[j]  BY <3>1 DEF LetsGo
      <3> QED BY <1>2, <2>1, <3>2 DEF Stranger
    <2>2. Of(q) \cap Of(r) = {}
      <3>1. t \in Inodes /\ Owns(ino[t])  BY DEF LetsGo
      <3> QED BY <1>1, <1>2, <3>1 DEF Stranger
    <2> QED BY <1>2, <2>1, <2>2 DEF Stranger
  <1>3. Stranger(v, jno, HeadChain(x.head), r)
    <2>1. Through(v, HeadChain(x.head), r) /\ Of(r) \subseteq v.bitmap
      BY <1>1 DEF Whole, LetsGo
    <2>2. ASSUME NEW j \in Inodes, Owns(jno[j]) PROVE Of(r) \cap Of(Clus(v, jno[j])) = {}
      <3>1. j # t  BY <2>2 DEF LetsGo
      <3>2. jno[j] = ino[j]  BY <3>1 DEF LetsGo
      <3> QED BY <1>1, <2>2, <3>1, <3>2 DEF LetsGo, Good, Apart
    <2> QED BY <2>1, <2>2 DEF Stranger
  <1>4. ASSUME NEW d \in Inodes, IsDirectory(jno[d])
        PROVE  T[jno[d].start] = Clus(v, jno[d]) /\ jno[d].size = Len(T[jno[d].start])
    <2>1. Owns(jno[d])  BY <1>4, DirOwns DEF LetsGo, Good, IsDirectory
    <2>2. d # t  BY <2>1 DEF LetsGo
    <2>3. jno[d] = ino[d]  BY <2>2 DEF LetsGo
    <2> QED BY <1>4, <2>3 DEF DataTrue, ChainsTrue, IsDirectory
  <1>5. /\ x.head.size \in 1 .. Len(r)
        /\ x.head.type = "dir" => T[x.head.clu] = r /\ x.head.size = Len(T[x.head.clu])
    <2>1. x.head.size \in 1 .. Len(r)  BY <1>1 DEF Whole
    <2>2. ASSUME x.head.type = "dir" PROVE T[x.head.clu] = r /\ x.head.size = Len(T[x.head.clu])
      <3>1. IsDirectory(f) /\ t \in Inodes  BY <2>2 DEF LetsGo, IsDirectory
      <3>2. T[f.start] = Clus(v, f) /\ f.size = Len(T[f.start])
        BY <3>1 DEF DataTrue, ChainsTrue, IsDirectory
      <3> QED BY <1>1, <3>2
    <2> QED BY <2>1, <2>2
  <1>6. ASSUME NEW y \in L \cup {x}
        PROVE  /\ Stranger(v, jno, HeadChain(y.head), ClusAt(v, y))
               /\ y.head.size \in 1 .. Len(ClusAt(v, y))
               /\ y.head.type = "dir" => /\ T[y.head.clu] = ClusAt(v, y)
                                         /\ y.head.size = Len(T[y.head.clu])
    <2>1. CASE y = x  BY <1>3, <1>5, <2>1
    <2>2. CASE y \in L
      <3>1. /\ Stranger(v, ino, HeadChain(y.head), ClusAt(v, y)) /\ y.head.size \in 1 .. Len(ClusAt(v, y))
            /\ y.head.type = "dir" => /\ T[y.head.clu] = ClusAt(v, y)
                                      /\ y.head.size = Len(T[y.head.clu])
        BY <2>2, LoneIs DEF DataTrue
      <3> QED BY <1>2, <3>1
    <2> QED BY <2>1, <2>2
  <1>7. ASSUME NEW y \in L PROVE Of(ClusAt(v, y)) \cap Of(r) = {}
    <2>1. Stranger(v, ino, HeadChain(y.head), ClusAt(v, y))  BY LoneIs DEF DataTrue
    <2> QED BY <1>2, <2>1
  <1>8. ChainsTrue(L \cup {x}, v, jno, T)
    <2>1. ASSUME NEW y \in L \cup {x}, NEW z \in L \cup {x}, y # z
          PROVE  Of(ClusAt(v, y)) \cap Of(ClusAt(v, z)) = {}
      <3>1. CASE y = x /\ z \in L  BY <1>7, <3>1
      <3>2. CASE z = x /\ y \in L  BY <1>7, <3>2
      <3>3. CASE y \in L /\ z \in L  BY <2>1, <3>3 DEF DataTrue, ChainsTrue
      <3> QED BY <2>1, <3>1, <3>2, <3>3
    <2> QED BY <1>4, <1>6, <2>1 DEF ChainsTrue, IsDirectory
  <1>9. ASSUME NEW c \in SystemClus
        PROVE  Stranger(v, jno, Chain(c, 1, 3), <<c>>) /\ c \notin Of(r)
    <2>1. Stranger(v, ino, Chain(c, 1, 3), <<c>>)  BY DEF DataTrue, NothingLost
    <2>2. c \in Of(<<c>>)
      <3>1. Len(<<c>>) = 1 /\ <<c>>[1] = c  OBVIOUS
      <3> QED BY <3>1 DEF Of
    <2> QED BY <1>2, <2>1, <2>2
  <1>10. ASSUME NEW c \in v.bitmap
         PROVE  \/ c \in SystemClus
                \/ \E i \in Inodes : Owns(jno[i]) /\ c \in Of(Clus(v, jno[i]))
                \/ \E y \in L \cup {x} : c \in Of(ClusAt(v, y))
    <2>1. \/ c \in SystemClus
          \/ \E i \in Inodes : Owns(ino[i]) /\ c \in Of(Clus(v, ino[i]))
          \/ \E y \in L : c \in Of(ClusAt(v, y))
      BY DEF DataTrue, NothingLost
    <2>2. ASSUME NEW i \in Inodes, Owns(ino[i]), c \in Of(Clus(v, ino[i]))
          PROVE  c \in Of(r) \/ (Owns(jno[i]) /\ c \in Of(Clus(v, jno[i])))
      <3>1. CASE i = t  BY <1>1, <2>2, <3>1
      <3>2. CASE i # t
        <4>1. jno[i] = ino[i]  BY <3>2 DEF LetsGo
        <4> QED BY <2>2, <4>1
      <3> QED BY <3>1, <3>2
    <2> QED BY <2>1, <2>2
  <1>11. NothingLost(L \cup {x}, v, jno)
    <2>1. ASSUME NEW y \in L \cup {x} PROVE Of(ClusAt(v, y)) \cap SystemClus = {}
      <3>1. CASE y = x  BY <1>9, <3>1, Zenon
      <3>2. CASE y \in L  BY <3>2 DEF DataTrue, NothingLost
      <3> QED BY <3>1, <3>2
    <2> QED BY <1>9, <1>10, <2>1 DEF NothingLost
  <1> QED BY <1>8, <1>11 DEF DataTrue
-----------------------------------------------------------------------------
(* One name comes, goes or changes: t is the inode that has it, if any, X  *)
(* what is written over of its entry, Y what is there instead.             *)

Named(ino, t) == t \in Inodes \ {Root} /\ ino[t].st = "linked"

\* The directory as the inode f knows it.
Knows(ino, f) ==
    /\ f.dir.dir = ino[f.parent].start /\ f.dir.flags \in {1, 3}
    /\ f.dir.flags = 1 => ino[f.parent].flags = 1

\* Other inodes than t have their names, and what their entries tell of them.
NamesStay(ino, jno, t) ==
    \A j \in Inodes : j # t =>
        /\ jno[j].st = "linked" <=> ino[j].st = "linked"
        /\ ino[j].st = "linked" =>
              /\ jno[j].type = ino[j].type /\ jno[j].start = ino[j].start
              /\ j # Root => /\ jno[j].name = ino[j].name /\ jno[j].parent = ino[j].parent
                             /\ jno[j].entry = ino[j].entry /\ jno[j].size = ino[j].size
                             /\ jno[j].flags = ino[j].flags /\ jno[j].dirty = ino[j].dirty
                             /\ jno[j].dir \in {ino[j].dir, ChainOf(ino[ino[j].parent])}

\* A directory stays where it is and a chain, or has nothing in it.
DirsStay(ino, jno, t) ==
    \A d \in Inodes : IsDirectory(ino[d]) =>
        \/ /\ IsDirectory(jno[d]) /\ jno[d].start = ino[d].start
           /\ ino[d].flags = 1 => jno[d].flags = 1
        \/ d = t /\ ~IsDirectory(jno[d])
           /\ \A j \in Inodes \ {Root} : Named(ino, j) => ino[j].parent # t

InodesStep(v, ino, pnd, t, jno, pn2) ==
    /\ Good(v, ino) /\ Dirs(ino, pnd) /\ Dirs(jno, pn2)
    /\ \A i \in Inodes : InodeOK(jno[i])
    /\ t # Root /\ NamesStay(ino, jno, t) /\ DirsStay(ino, jno, t)

\* Where the inode t has its name.
Placed(ino, jno, t) ==
    /\ jno[t].parent \in Inodes /\ IsDirectory(jno[jno[t].parent])
    /\ jno[t].entry \in Nat /\ Knows(jno, jno[t])
    /\ jno[t].type = "dir" => jno[t].parent = Root /\ jno[t].dir.flags = 1
    /\ \A j \in Inodes \ {Root} : j # t /\ Named(ino, j) /\ ino[j].parent = jno[t].parent
                                  => ino[j].name # jno[t].name

EntriesStep(E, ino, t, X, Y, jno, T2) ==
    /\ X \subseteq E /\ \A x \in X : Named(ino, t) /\ Has(ino, t, x)
    /\ \A y \in Y : /\ Named(jno, t) /\ y.dir \in DOMAIN T2 /\ y.head \in Heads
                    /\ y.dir = jno[jno[t].parent].start /\ Agrees(jno[t], y.head)
                    /\ jno[t].type = "dir" => y.at = jno[t].entry
                    /\ \A z \in E \ X : z.dir = y.dir /\ z.head.name = y.head.name => z = y
    /\ Named(jno, t) => Placed(ino, jno, t) /\ \E y : Y = {y}

\* The table has those directories that have entries.
TableStep(E, T, X, Y, T2) ==
    /\ RootClu \in DOMAIN T2
    /\ \A c \in DOMAIN T2 : \/ c \in DOMAIN T /\ \A x \in X : x.head.type = "dir" => x.head.clu # c
                            \/ \E y \in Y : y.head.type = "dir" /\ y.head.clu = c
    /\ \A c \in DOMAIN T \ DOMAIN T2 : /\ \E x \in X : x.head.type = "dir" /\ x.head.clu = c
                                       /\ \A z \in E : z.dir # c
    /\ \A y \in Y : y.head.type = "dir" =>
          /\ y.dir = RootClu /\ y.head.clu \in DOMAIN T2 \ {RootClu}
          /\ \A z \in E \ X : z.head.type = "dir" /\ z.head.clu = y.head.clu => z = y

\* A name looked up in vain is not the one that comes.
MissingStep(Y, pnd, jno, pn2) ==
    \A d \in Inodes : pn2[d] # None =>
        pn2[d] = pnd[d] /\ \A y \in Y : y.dir = jno[d].start => y.head.name # pn2[d]

NamesStep(E, v, ino, pnd, T, t, X, Y, jno, pn2, T2) ==
    /\ InodesStep(v, ino, pnd, t, jno, pn2) /\ EntriesStep(E, ino, t, X, Y, jno, T2)
    /\ TableStep(E, T, X, Y, T2) /\ MissingStep(Y, pnd, jno, pn2)

LEMMA ParentStays ==
  ASSUME NEW E, NEW v, NEW ino, NEW pnd, NEW T, NEW t, NEW jno, NEW pn2, NamesTrue(E, ino, pnd, T),
         InodesStep(v, ino, pnd, t, jno, pn2), NEW j, Named(ino, j)
  PROVE  /\ ino[j].parent \in Inodes /\ IsDirectory(ino[ino[j].parent])
         /\ jno[ino[j].parent].start = ino[ino[j].parent].start
         /\ IsDirectory(jno[ino[j].parent])
         /\ ino[ino[j].parent].flags = 1 => jno[ino[j].parent].flags = 1
  <1> DEFINE d == ino[j].parent
  <1>1. d \in Inodes /\ IsDirectory(ino[d])
    BY DEF NamesTrue, HomesTrue, Named, IsDirectory
  <1>2. j \in Inodes \ {Root} /\ DirsStay(ino, jno, t)  BY DEF Named, InodesStep
  <1>3. /\ IsDirectory(jno[d]) /\ jno[d].start = ino[d].start
        /\ ino[d].flags = 1 => jno[d].flags = 1
    BY <1>1, <1>2 DEF DirsStay
  <1> QED BY <1>1, <1>3

LEMMA HasStays ==
  ASSUME NEW E, NEW v, NEW ino, NEW pnd, NEW T, NEW t, NEW jno, NEW pn2, NamesTrue(E, ino, pnd, T),
         InodesStep(v, ino, pnd, t, jno, pn2), NEW j \in Inodes \ {Root}, j # t, NEW x
  PROVE  Has(jno, j, x) <=> Has(ino, j, x)
  <1>1. jno[j].st = "linked" <=> ino[j].st = "linked"
    BY DEF InodesStep, NamesStay
  <1>2. ASSUME ino[j].st = "linked" PROVE Has(jno, j, x) <=> Has(ino, j, x)
    <2>1. Named(ino, j)  BY <1>2 DEF Named
    <2>2. jno[j].name = ino[j].name /\ jno[j].parent = ino[j].parent
      BY <1>2 DEF InodesStep, NamesStay
    <2>3. jno[ino[j].parent].start = ino[ino[j].parent].start
      BY <2>1, ParentStays
    <2> QED BY <1>1, <1>2, <2>2, <2>3 DEF Has
  <1> QED BY <1>1, <1>2 DEF Has

\* What the inode t has is not another's.
LEMMA OneHas ==
  ASSUME NEW E, NEW v, NEW ino, Good(v, ino), NEW pnd, NEW T, NamesTrue(E, ino, pnd, T),
         NEW i, Named(ino, i), NEW j, Named(ino, j), NEW x, Has(ino, i, x), Has(ino, j, x)
  PROVE  i = j
  <1> DEFINE a == ino[i].parent
             b == ino[j].parent
  <1>1. i \in Inodes \ {Root} /\ j \in Inodes \ {Root} /\ ino[i].st = "linked" /\ ino[j].st = "linked"
    BY DEF Named
  <1>2. a \in Inodes /\ IsDirectory(ino[a]) /\ b \in Inodes /\ IsDirectory(ino[b])
    BY <1>1 DEF NamesTrue, HomesTrue, IsDirectory
  <1>3. Owns(ino[a]) /\ Owns(ino[b])  BY <1>2, DirOwns DEF Good, IsDirectory
  <1>4. ino[a].start = ino[b].start /\ ino[i].name = ino[j].name  BY DEF Has
  <1>5. a = b  BY <1>2, <1>3, <1>4, SameDirectory
  <1> QED BY <1>1, <1>4, <1>5 DEF NamesTrue, HomesTrue
LEMMA EntriesKept ==
  ASSUME NEW E, NEW v, NEW ino, NEW pnd, NEW T, NEW t, NEW X, NEW Y, NEW jno, NEW pn2, NEW T2,
         NamesTrue(E, ino, pnd, T), NamesStep(E, v, ino, pnd, T, t, X, Y, jno, pn2, T2)
  PROVE  EntriesTrue((E \ X) \cup Y, T2)
  <1> DEFINE E2 == (E \ X) \cup Y
  <1>1. ASSUME NEW y \in Y, NEW z \in Y PROVE y = z
    BY <1>1 DEF NamesStep, EntriesStep
  <1>2. ASSUME NEW z \in E2 PROVE z.dir \in DOMAIN T2 /\ z.head \in Heads
    <2>1. CASE z \in Y  BY <2>1 DEF NamesStep, EntriesStep
    <2>2. CASE z \in E \ X
      <3>1. z.dir \in DOMAIN T /\ z.head \in Heads  BY <2>2 DEF NamesTrue, EntriesTrue
      <3>2. z.dir \in DOMAIN T2  BY <2>2, <3>1 DEF NamesStep, TableStep
      <3> QED BY <3>1, <3>2
    <2> QED BY <2>1, <2>2
  <1>3. ASSUME NEW x \in E2, NEW z \in E2, x.dir = z.dir, x.head.name = z.head.name PROVE x = z
    <2>1. CASE x \in Y /\ z \in Y  BY <1>1, <2>1
    <2>2. CASE x \in Y /\ z \in E \ X  BY <1>3, <2>2 DEF NamesStep, EntriesStep
    <2>3. CASE z \in Y /\ x \in E \ X  BY <1>3, <2>3 DEF NamesStep, EntriesStep
    <2>4. CASE z \in E \ X /\ x \in E \ X  BY <1>3, <2>4 DEF NamesTrue, EntriesTrue
    <2> QED BY <2>1, <2>2, <2>3, <2>4
  <1> QED BY <1>2, <1>3 DEF EntriesTrue

LEMMA DirsKept ==
  ASSUME NEW E, NEW v, NEW ino, NEW pnd, NEW T, NEW t, NEW X, NEW Y, NEW jno, NEW pn2, NEW T2,
         NamesTrue(E, ino, pnd, T), NamesStep(E, v, ino, pnd, T, t, X, Y, jno, pn2, T2)
  PROVE  DirsTrue((E \ X) \cup Y, jno, T2)
  <1> DEFINE E2 == (E \ X) \cup Y
  <1>1. ASSUME NEW d \in Inodes, IsDirectory(jno[d]) PROVE jno[d].start \in DOMAIN T2
    <2>1. CASE d = Root
      BY <2>1 DEF NamesStep, InodesStep, Dirs, TableStep
    <2>2. CASE d # Root /\ d = t
      <3>1. Named(jno, t)  BY <1>1, <2>2 DEF Named, IsDirectory
      <3>2. PICK y \in Y : TRUE  BY <3>1 DEF NamesStep, EntriesStep
      <3>3. Agrees(jno[t], y.head)  BY <3>2 DEF NamesStep, EntriesStep
      <3>4. jno[t].start # EOC
        <4>1. Owns(jno[t])  BY <1>1, <2>2, DirOwns DEF NamesStep, InodesStep, IsDirectory
        <4> QED BY <4>1 DEF Owns
      <3> QED BY <1>1, <2>2, <3>2, <3>3, <3>4 DEF NamesStep, TableStep, Agrees, IsDirectory
    <2>3. CASE d # Root /\ d # t
      <3>1. IsDirectory(ino[d]) /\ jno[d].start = ino[d].start
        BY <1>1, <2>3 DEF NamesStep, InodesStep, NamesStay, IsDirectory
      <3>2. ino[d].start \in DOMAIN T  BY <3>1 DEF NamesTrue, DirsTrue, IsDirectory
      <3>3. ASSUME NEW x \in X, x.head.type = "dir", x.head.clu = ino[d].start PROVE FALSE
        <4>1. Named(ino, t) /\ Has(ino, t, x) /\ x \in E
          BY DEF NamesStep, EntriesStep
        <4>2. t \in Inodes \ {Root} /\ Home(E, ino, t, x)
          <5>1. t \in Inodes \ {Root}  BY <4>1 DEF Named
          <5> QED BY <4>1, <5>1, HasIsHome
        <4>3. Agrees(ino[t], x.head)  BY <4>2 DEF Home
        <4>4. IsDirectory(ino[t])  BY <3>3, <4>1, <4>3 DEF Agrees, Has, IsDirectory
        <4>5. Good(v, ino)  BY DEF NamesStep, InodesStep
        <4>6. Owns(ino[t]) /\ Owns(ino[d])
          BY <3>1, <4>2, <4>4, <4>5, DirOwns DEF Good, IsDirectory
        <4>7. ino[t].start = ino[d].start  BY <3>3, <4>3, <4>6 DEF Agrees, Owns
        <4> QED BY <2>3, <4>2, <4>5, <4>6, <4>7, SameDirectory
      <3>4. ino[d].start \in DOMAIN T2
        <4> SUFFICES ASSUME ino[d].start \notin DOMAIN T2 PROVE FALSE  OBVIOUS
        <4>1. \E x \in X : x.head.type = "dir" /\ x.head.clu = ino[d].start
          BY <3>2 DEF NamesStep, TableStep
        <4> QED BY <3>3, <4>1
      <3> QED BY <3>1, <3>4
    <2> QED BY <2>1, <2>2, <2>3
  <1>2. ASSUME NEW c \in DOMAIN T2 \ {RootClu} PROVE \E z \in E2 : z.head.type = "dir" /\ z.head.clu = c
    <2>1. CASE \E y \in Y : y.head.type = "dir" /\ y.head.clu = c  BY <2>1
    <2>2. CASE c \in DOMAIN T /\ \A x \in X : x.head.type = "dir" => x.head.clu # c
      <3>1. PICK z \in E : z.head.type = "dir" /\ z.head.clu = c
        BY <2>2 DEF NamesTrue, DirsTrue
      <3> QED BY <2>2, <3>1
    <2> QED BY <2>1, <2>2 DEF NamesStep, TableStep
  <1>3. ASSUME NEW z \in E2, z.head.type = "dir"
        PROVE  z.dir = RootClu /\ z.head.clu \in DOMAIN T2 \ {RootClu}
    <2>1. CASE z \in Y  BY <1>3, <2>1 DEF NamesStep, TableStep
    <2>2. CASE z \in E \ X
      <3>1. z.dir = RootClu /\ z.head.clu \in DOMAIN T \ {RootClu}
        BY <1>3, <2>2 DEF NamesTrue, DirsTrue
      <3>2. ASSUME NEW x \in X, x.head.type = "dir" PROVE x.head.clu # z.head.clu
        BY <1>3, <2>2, <3>2 DEF NamesTrue, DirsTrue, NamesStep, EntriesStep
      <3>3. z.head.clu \in DOMAIN T2
        BY <3>1, <3>2 DEF NamesStep, TableStep
      <3> QED BY <3>1, <3>3
    <2> QED BY <2>1, <2>2
  <1>4. ASSUME NEW x \in E2, NEW z \in E2, x.head.type = "dir", z.head.type = "dir",
               x.head.clu = z.head.clu
        PROVE  x = z
    <2>1. CASE x \in Y /\ z \in Y  BY <2>1 DEF NamesStep, EntriesStep
    <2>2. CASE x \in Y /\ z \in E \ X  BY <1>4, <2>2 DEF NamesStep, TableStep
    <2>3. CASE z \in Y /\ x \in E \ X  BY <1>4, <2>3 DEF NamesStep, TableStep
    <2>4. CASE z \in E \ X /\ x \in E \ X  BY <1>4, <2>4 DEF NamesTrue, DirsTrue
    <2> QED BY <2>1, <2>2, <2>3, <2>4
  <1>5. RootClu \in DOMAIN T2  BY DEF NamesStep, TableStep
  <1> HIDE DEF E2
  <1>6. DirsTrue(E2, jno, T2)  BY <1>1, <1>2, <1>3, <1>4, <1>5 DEF DirsTrue, IsDirectory
  <1> QED BY <1>6 DEF E2
LEMMA HomesKept ==
  ASSUME NEW E, NEW v, NEW ino, NEW pnd, NEW T, NEW t, NEW X, NEW Y, NEW jno, NEW pn2, NEW T2,
         NamesTrue(E, ino, pnd, T), NamesStep(E, v, ino, pnd, T, t, X, Y, jno, pn2, T2)
  PROVE  HomesTrue((E \ X) \cup Y, jno)
  <1> DEFINE E2 == (E \ X) \cup Y
  <1>0. Good(v, ino) /\ InodesStep(v, ino, pnd, t, jno, pn2) /\ NamesStay(ino, jno, t)
    BY DEF NamesStep, InodesStep
  <1>1. ASSUME NEW i \in Inodes \ {Root}, i # t, jno[i].st = "linked"
        PROVE  /\ Named(ino, i) /\ jno[i].type = ino[i].type /\ jno[i].start = ino[i].start
               /\ jno[i].name = ino[i].name /\ jno[i].parent = ino[i].parent
               /\ jno[i].entry = ino[i].entry /\ jno[i].size = ino[i].size
               /\ jno[i].flags = ino[i].flags /\ jno[i].dirty = ino[i].dirty
               /\ jno[i].dir \in {ino[i].dir, ChainOf(ino[ino[i].parent])}
    BY <1>0, <1>1 DEF NamesStay, Named
  <1>2. ASSUME NEW i \in Inodes \ {Root}, i # t, jno[i].st = "linked"
        PROVE  \E x \in E2 : Home(E2, jno, i, x)
    <2>1. Named(ino, i)  BY <1>1, <1>2
    <2>2. PICK x \in E : Home(E, ino, i, x) /\ Has(ino, i, x)
      BY <2>1, OwnEntry DEF Named
    <2>3. x \notin X
      <3> SUFFICES ASSUME x \in X PROVE FALSE  OBVIOUS
      <3>1. Named(ino, t) /\ Has(ino, t, x)  BY DEF NamesStep, EntriesStep
      <3> QED BY <1>0, <1>2, <2>1, <2>2, <3>1, OneHas
    <2>4. Agrees(jno[i], x.head)  BY <1>1, <1>2, <2>2 DEF Home, Agrees
    <2>5. x.dir = jno[jno[i].parent].start
      BY <1>0, <1>1, <1>2, <2>1, <2>2, ParentStays DEF Home
    <2>6. jno[i].type = "dir" => x.at = jno[i].entry  BY <1>1, <1>2, <2>2 DEF Home
    <2> QED BY <2>2, <2>3, <2>4, <2>5, <2>6 DEF Home
  <1>3. ASSUME NEW i \in Inodes \ {Root}, i # t, jno[i].st = "linked"
        PROVE  /\ jno[i].parent \in Inodes /\ IsDirectory(jno[jno[i].parent])
               /\ jno[i].entry \in Nat /\ Knows(jno, jno[i])
               /\ jno[i].type = "dir" => jno[i].parent = Root /\ jno[i].dir.flags = 1
    <2> DEFINE d == ino[i].parent
    <2>1. /\ Named(ino, i) /\ jno[i].type = ino[i].type /\ jno[i].start = ino[i].start
          /\ jno[i].name = ino[i].name /\ jno[i].parent = d
          /\ jno[i].entry = ino[i].entry /\ jno[i].size = ino[i].size
          /\ jno[i].flags = ino[i].flags /\ jno[i].dirty = ino[i].dirty
          /\ jno[i].dir \in {ino[i].dir, ChainOf(ino[d])}
      BY <1>1, <1>3
    <2>2. /\ d \in Inodes /\ IsDirectory(ino[d]) /\ jno[d].start = ino[d].start
          /\ IsDirectory(jno[d]) /\ (ino[d].flags = 1 => jno[d].flags = 1)
      BY <1>0, <2>1, ParentStays
    <2>3. /\ ino[i].entry \in Nat /\ Knows(ino, ino[i])
          /\ ino[i].type = "dir" => ino[i].parent = Root /\ ino[i].dir.flags = 1
      BY <2>1 DEF NamesTrue, HomesTrue, Named, Knows
    <2>4. ino[d].flags \in {1, 3} /\ ino[Root].flags = 1
      <3>1. InodeOK(ino[d]) /\ ino[d] # Free
        BY <1>0, <2>2 DEF Good, IsDirectory, Free
      <3> QED BY <1>0, <3>1, OwnsIs DEF InodesStep, Dirs
    <2>5. CASE jno[i].dir = ino[i].dir
      <3>1. Knows(jno, jno[i])  BY <2>1, <2>2, <2>3, <2>5 DEF Knows
      <3>2. jno[i].type = "dir" => jno[i].dir.flags = 1  BY <2>1, <2>3, <2>5
      <3> QED BY <2>1, <2>2, <2>3, <3>1, <3>2
    <2>6. CASE jno[i].dir = ChainOf(ino[d])
      <3>1. jno[i].dir.dir = ino[d].start /\ jno[i].dir.flags = ino[d].flags
        BY <2>6 DEF ChainOf, Chain
      <3>2. Knows(jno, jno[i])  BY <2>1, <2>2, <2>4, <3>1 DEF Knows
      <3>3. jno[i].type = "dir" => jno[i].dir.flags = 1  BY <2>1, <2>3, <2>4, <3>1
      <3> QED BY <2>1, <2>2, <2>3, <3>2, <3>3
    <2> QED BY <2>1, <2>5, <2>6
  <1>4. ASSUME Named(jno, t)
        PROVE  Placed(ino, jno, t) /\ \E x \in E2 : Home(E2, jno, t, x)
    <2>1. PICK y : Y = {y}  BY <1>4, Zenon DEF NamesStep, EntriesStep
    <2>2. Home(E2, jno, t, y)  BY <2>1 DEF NamesStep, EntriesStep, Home
    <2> QED BY <1>4, <2>1, <2>2 DEF NamesStep, EntriesStep
  <1>5. ASSUME NEW i \in Inodes \ {Root}, NEW j \in Inodes \ {Root}, jno[i].st = "linked",
               jno[j].st = "linked", jno[i].parent = jno[j].parent, jno[i].name = jno[j].name
        PROVE  i = j
    <2>1. CASE i # t /\ j # t
      BY <1>1, <1>5, <2>1 DEF NamesTrue, HomesTrue, Named
    <2>2. ASSUME NEW k \in Inodes \ {Root}, k # t, jno[k].st = "linked", Named(jno, t),
                 jno[k].parent = jno[t].parent, jno[k].name = jno[t].name
          PROVE  FALSE
      BY <1>1, <1>4, <2>2 DEF Placed
    <2>3. CASE i = t /\ j # t  BY <1>5, <2>2, <2>3 DEF Named
    <2>4. CASE i # t /\ j = t  BY <1>5, <2>2, <2>4 DEF Named
    <2> QED BY <2>1, <2>3, <2>4
  <1> HIDE DEF E2
  <1>6. ASSUME NEW i \in Inodes \ {Root}, jno[i].st = "linked"
        PROVE  /\ jno[i].parent \in Inodes /\ IsDirectory(jno[jno[i].parent])
               /\ jno[i].entry \in Nat /\ Knows(jno, jno[i])
               /\ jno[i].type = "dir" => jno[i].parent = Root /\ jno[i].dir.flags = 1
               /\ \E x \in E2 : Home(E2, jno, i, x)
    <2>1. CASE i # t  BY <1>2, <1>3, <1>6, <2>1
    <2>2. CASE i = t
      <3>1. Named(jno, t)  BY <1>6, <2>2 DEF Named
      <3> QED BY <1>4, <2>2, <3>1 DEF Placed
    <2> QED BY <2>1, <2>2
  <1>7. HomesTrue(E2, jno)  BY <1>5, <1>6 DEF HomesTrue, IsDirectory, Knows
  <1> QED BY <1>7 DEF E2

LEMMA NamesKept ==
  ASSUME NEW E, NEW v, NEW ino, NEW pnd, NEW T, NEW t, NEW X, NEW Y, NEW jno, NEW pn2, NEW T2,
         NamesTrue(E, ino, pnd, T), NamesStep(E, v, ino, pnd, T, t, X, Y, jno, pn2, T2)
  PROVE  NamesTrue((E \ X) \cup Y, jno, pn2, T2)
  <1> DEFINE E2 == (E \ X) \cup Y
  <1>1. ASSUME NEW d \in Inodes, pn2[d] # None
        PROVE  pn2[d] \in Names /\ \A x \in E2 : x.dir = jno[d].start => x.head.name # pn2[d]
    <2>1. pn2[d] = pnd[d] /\ \A y \in Y : y.dir = jno[d].start => y.head.name # pn2[d]
      BY <1>1 DEF NamesStep, MissingStep
    <2>2. pn2[d] \in Names /\ \A x \in E : x.dir = ino[d].start => x.head.name # pn2[d]
      BY <1>1, <2>1 DEF NamesTrue, NamesMissing
    <2>3. IsDirectory(ino[d]) /\ IsDirectory(jno[d])
      BY <1>1, <2>1 DEF NamesStep, InodesStep, Dirs, IsDirectory
    <2>4. jno[d].start = ino[d].start
      <3>1. DirsStay(ino, jno, t)  BY DEF NamesStep, InodesStep
      <3> QED BY <2>3, <3>1 DEF DirsStay
    <2> QED BY <2>1, <2>2, <2>4
  <1>2. NamesMissing(E2, jno, pn2)  BY <1>1 DEF NamesMissing
  <1> QED BY <1>2, EntriesKept, DirsKept, HomesKept DEF NamesTrue

HasClusters(x) == x.head.type = "dir" \/ x.head.size # 0

LEMMA LoneAre ==
  ASSUME NEW E, NEW v, NEW ino, NEW pnd, NEW T, NEW t, NEW X, NEW Y, NEW jno, NEW pn2, NEW T2,
         NamesTrue(E, ino, pnd, T), NamesStep(E, v, ino, pnd, T, t, X, Y, jno, pn2, T2)
  PROVE  Lone((E \ X) \cup Y, jno) =
           {z \in E \ (X \cup Y) : /\ HasClusters(z)
                                   /\ \A i \in Inodes \ {Root} : i # t => ~Has(ino, i, z)}
  <1> DEFINE E2 == (E \ X) \cup Y
             Z == {z \in E \ (X \cup Y) : /\ HasClusters(z)
                                          /\ \A i \in Inodes \ {Root} : i # t => ~Has(ino, i, z)}
  <1>0. InodesStep(v, ino, pnd, t, jno, pn2)  BY DEF NamesStep
  <1>1. ASSUME NEW z \in Y PROVE z \notin Lone(E2, jno)
    <2>1. Named(jno, t) /\ z.dir = jno[jno[t].parent].start /\ Agrees(jno[t], z.head)
      BY DEF NamesStep, EntriesStep
    <2>2. t \in Inodes \ {Root} /\ Has(jno, t, z)  BY <2>1 DEF Named, Has, Agrees
    <2> QED BY <2>2 DEF Lone
  <1>2. ASSUME NEW z \in E \ (X \cup Y), t \in Inodes \ {Root} PROVE ~Has(jno, t, z)
    <2> SUFFICES ASSUME Has(jno, t, z) PROVE FALSE  OBVIOUS
    <2>1. Named(jno, t)  BY <1>2 DEF Has, Named
    <2>2. PICK y \in Y : TRUE  BY <2>1 DEF NamesStep, EntriesStep
    <2>3. y.dir = jno[jno[t].parent].start /\ Agrees(jno[t], y.head)
      BY <2>2 DEF NamesStep, EntriesStep
    <2>4. z.dir = y.dir /\ z.head.name = y.head.name  BY <2>3 DEF Has, Agrees
    <2> QED BY <2>2, <2>4 DEF NamesStep, EntriesStep
  <1>3. ASSUME NEW z, NEW i \in Inodes \ {Root}, i # t PROVE Has(jno, i, z) <=> Has(ino, i, z)
    BY <1>0, <1>3, HasStays
  <1>4. ASSUME NEW z \in E \ (X \cup Y)
        PROVE  (\A i \in Inodes \ {Root} : ~Has(jno, i, z))
                <=> \A i \in Inodes \ {Root} : i # t => ~Has(ino, i, z)
    BY <1>2, <1>3
  <1>5. ASSUME NEW z PROVE z \in Lone(E2, jno) <=> z \in Z
    <2>1. CASE z \in Y  BY <1>1, <2>1
    <2>2. CASE z \in E \ (X \cup Y)  BY <1>4, <2>2 DEF Lone, HasClusters
    <2>3. CASE z \notin E2  BY <2>3 DEF Lone
    <2> QED BY <2>1, <2>2, <2>3
  <1> QED BY <1>5

\* The whole entry of t is written over, or t had none, and what is written is new.
LEMMA LoneSame ==
  ASSUME NEW E, NEW v, NEW ino, NEW pnd, NEW T, NEW t, NEW X, NEW Y, NEW jno, NEW pn2, NEW T2,
         NamesTrue(E, ino, pnd, T), NamesStep(E, v, ino, pnd, T, t, X, Y, jno, pn2, T2),
         \A z \in E : Named(ino, t) /\ Has(ino, t, z) => z \in X, Y \cap (E \ X) = {}
  PROVE  Lone((E \ X) \cup Y, jno) = Lone(E, ino)
  <1>1. ASSUME NEW z
        PROVE  z \in Lone(E, ino) <=>
                 z \in {y \in E \ (X \cup Y) : /\ HasClusters(y)
                                               /\ \A i \in Inodes \ {Root} : i # t => ~Has(ino, i, y)}
    <2>1. CASE z \notin E  BY <2>1 DEF Lone
    <2>2. CASE z \in X
      <3>1. t \in Inodes \ {Root} /\ Has(ino, t, z)
        BY <2>2 DEF NamesStep, EntriesStep, Named
      <3> QED BY <2>2, <3>1 DEF Lone
    <2>3. CASE z \in E \ X
      <3>1. z \notin Y  BY <2>3
      <3>2. t \in Inodes \ {Root} => ~Has(ino, t, z)  BY <2>3 DEF Named, Has
      <3> QED BY <2>3, <3>1, <3>2 DEF Lone, HasClusters
    <2> QED BY <2>1, <2>2, <2>3
  <1>2. Lone(E, ino) = {y \in E \ (X \cup Y) : /\ HasClusters(y)
                                               /\ \A i \in Inodes \ {Root} : i # t => ~Has(ino, i, y)}
    BY <1>1
  <1> QED BY <1>2, LoneAre

LEMMA LoneAttached ==
  ASSUME NEW E, NEW v, NEW ino, NEW pnd, NEW T, NEW t, NEW x \in E, NEW jno, NEW pn2, NEW T2,
         NamesTrue(E, ino, pnd, T), NamesStep(E, v, ino, pnd, T, t, {}, {x}, jno, pn2, T2),
         ~Named(ino, t)
  PROVE  Lone((E \ {}) \cup {x}, jno) = Lone(E, ino) \ {x}
  <1> DEFINE Z == {y \in E \ ({} \cup {x}) : /\ HasClusters(y)
                                             /\ \A i \in Inodes \ {Root} : i # t => ~Has(ino, i, y)}
  <1>1. \A z : t \in Inodes \ {Root} => ~Has(ino, t, z)  BY DEF Named, Has
  <1>2. ASSUME NEW z PROVE z \in Z <=> z \in Lone(E, ino) \ {x}
    BY <1>1 DEF Lone, HasClusters
  <1>3. Lone((E \ {}) \cup {x}, jno) = Z
    <2>1. ASSUME NEW X, NEW Y, X = {}, Y = {x}
          PROVE  Lone((E \ X) \cup Y, jno) =
                   {z \in E \ (X \cup Y) : /\ HasClusters(z)
                                           /\ \A i \in Inodes \ {Root} : i # t => ~Has(ino, i, z)}
      <3>1. NamesStep(E, v, ino, pnd, T, t, X, Y, jno, pn2, T2)  BY <2>1
      <3> QED BY <3>1, LoneAre
    <2> QED BY <2>1, Zenon
  <1> HIDE DEF Z
  <1> QED BY <1>2, <1>3

LEMMA LoneLetGo ==
  ASSUME NEW E, NEW v, NEW ino, NEW pnd, NEW T, NEW t, NEW x \in E, NEW jno, NEW pn2, NEW T2,
         NamesTrue(E, ino, pnd, T), NamesStep(E, v, ino, pnd, T, t, {}, {}, jno, pn2, T2),
         Named(ino, t), Has(ino, t, x)
  PROVE  Lone((E \ {}) \cup {}, jno) =
           IF HasClusters(x) THEN Lone(E, ino) \cup {x} ELSE Lone(E, ino)
  <1> DEFINE Z == {y \in E \ ({} \cup {}) : /\ HasClusters(y)
                                            /\ \A i \in Inodes \ {Root} : i # t => ~Has(ino, i, y)}
  <1>1. Lone((E \ {}) \cup {}, jno) = Z  BY LoneAre
  <1>2. Good(v, ino) /\ t \in Inodes \ {Root}  BY DEF NamesStep, InodesStep, Named
  <1>3. ASSUME NEW i \in Inodes \ {Root}, i # t, Has(ino, i, x) PROVE FALSE
    <2>1. Named(ino, i)  BY <1>3 DEF Has, Named
    <2> QED BY <1>2, <1>3, <2>1, OneHas
  <1>4. ASSUME NEW z \in E, Has(ino, t, z) PROVE z = x
    <2>1. ino[t].st = "linked"  BY DEF Named
    <2>2. \E w \in E : \A y \in E : Has(ino, t, y) => y = w  BY <1>2, <2>1, OwnEntry
    <2> QED BY <1>4, <2>2
  <1>5. ASSUME NEW z PROVE z \in Z <=> z \in (IF HasClusters(x) THEN Lone(E, ino) \cup {x} ELSE Lone(E, ino))
    <2>1. CASE z = x
      <3>1. z \notin Lone(E, ino)  BY <1>2, <2>1 DEF Lone
      <3>2. z \in Z <=> HasClusters(x)  BY <1>3, <2>1
      <3> QED BY <2>1, <3>1, <3>2
    <2>2. CASE z # x
      <3>1. z \in E => ~Has(ino, t, z)  BY <1>4, <2>2
      <3>2. z \in Z <=> z \in Lone(E, ino)  BY <1>2, <3>1 DEF Lone, HasClusters
      <3> QED BY <2>2, <3>2
    <2> QED BY <2>1, <2>2
  <1> HIDE DEF Z
  <1> QED BY <1>1, <1>5
=============================================================================
