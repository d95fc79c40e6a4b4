------------------------------ MODULE ExfatAlloc ------------------------------
(***************************************************************************)
(* The clusters of a mounted exFAT volume: the allocation bitmap, the file *)
(* allocation table, the search pointer and the count of used clusters     *)
(* (exfat_core.c), as operators over a record v with the fields            *)
(*                                                                         *)
(*   bitmap  the clusters whose bit is set                                 *)
(*   fat     what FAT_read returns for each cluster                        *)
(*   srch    clu_srch_ptr, where an allocation without a hint starts       *)
(*   used    used_clusters, Unknown until somebody asks for it             *)
(*                                                                         *)
(* and any others.  Clusters are numbered from 2, as in the code.          *)
(***************************************************************************)
EXTENDS Integers, Sequences, FiniteSets

CONSTANTS NumClusters,   \* num_clusters: one past the last cluster
          BitsPerByte    \* bits in one byte of the bitmap: 8 in the code

ASSUME AllocAssumption ==
    /\ NumClusters \in Nat /\ NumClusters > 2
    /\ BitsPerByte \in Nat \ {0}

EOC == -1                \* CLUSTER_32(~0): no cluster, end of a chain
Nil == 0                 \* CLUSTER_32(0)
Bad == -2                \* no such cluster: FAT_read or the sector read fails
Unknown == -1            \* used_clusters == ~0

Clusters == 2 .. NumClusters - 1

\* What f says is written over g.
Over(f, g) ==
    [x \in DOMAIN f \cup DOMAIN g |-> IF x \in DOMAIN f THEN f[x] ELSE g[x]]

\* FAT_read, of any cluster number.
ReadFat(v) == [c \in Clusters \cup {Nil, EOC, Bad} |-> IF c \in Clusters THEN v.fat[c] ELSE Bad]

\* The k-th cluster of a CHAIN_T p = [dir, size, flags], for a caller that
\* does not look at its length: flags 3 is a contiguous run, 1 a FAT chain.
NthCluster(v, p, k) ==
    LET next == ReadFat(v)
        walk[n \in Nat] == IF n = 0 THEN p.dir ELSE next[walk[n - 1]]
        c == IF p.flags = 3 THEN p.dir + k ELSE walk[k]
    IN IF c \in Clusters \cup {EOC} THEN c ELSE Bad

\* The clusters a loop over a chain visits: the contiguous ones are counted by
\* its size, which is looked at after the first; the chained ones end with EOC.
ChainLen(v, p) ==
    IF p.flags = 3 THEN IF p.size < 1 THEN 1 ELSE p.size
    ELSE CHOOSE n \in 0 .. NumClusters :
            /\ n = NumClusters \/ NthCluster(v, p, n) \notin Clusters
            /\ \A m \in 0 .. n - 1 : NthCluster(v, p, m) \in Clusters

ChainSeq(v, p) == [k \in 1 .. ChainLen(v, p) |-> NthCluster(v, p, k - 1)]

ChainSet(v, p) == LET cl == ChainSeq(v, p) IN {cl[k] : k \in DOMAIN cl} \cap Clusters

LastCluster(v, p) ==
    IF p.flags = 3 THEN p.dir + p.size - 1 ELSE NthCluster(v, p, ChainLen(v, p) - 1)

\* exfat_chain_cont_cluster: writes into the FAT what a contiguous run meant.
ChainCont(v, first, len) ==
    IF len = 0 THEN v
    ELSE LET links == [c \in first .. first + len - 1 |->
                         IF c < first + len - 1 THEN c + 1 ELSE EOC]
         IN [v EXCEPT !.fat = Over(links, @)]

ByteOf(c) == (c - 2) \div BitsPerByte
NumBytes == ByteOf(NumClusters - 1) + 1

\* test_alloc_bitmap: the bytes are visited once each, round and round from that
\* of c, whose bits below c are masked out of the first look and have no second.
SearchSpace(v, c) ==
    {x \in Clusters \ v.bitmap : ByteOf(x) = ByteOf(c) => x >= c}

Round(c, x) == (ByteOf(x) - ByteOf(c) + NumBytes) % NumBytes

TestAlloc(v, c) ==
    LET space == SearchSpace(v, c)
    IN IF space = {} THEN EOC
       ELSE CHOOSE x \in space :
            \A y \in space :
               Round(c, x) < Round(c, y) \/ (Round(c, x) = Round(c, y) /\ x <= y)

\* The end of exfat_alloc_cluster: the cluster new is marked; one elsewhere than
\* hinted, or behind the end, cannot continue a contiguous run.
AllocAt(v, want, flags, hint, new) ==
    LET kind == IF want >= NumClusters \/ (new # hint /\ flags = 3) THEN 1 ELSE flags
    IN IF hint = EOC THEN [clu |-> EOC, flags |-> flags, v |-> v]
       ELSE IF new = EOC THEN [clu |-> EOC, flags |-> flags, v |-> [v EXCEPT !.srch = hint]]
       ELSE [clu |-> new, flags |-> kind,
             v |-> [v EXCEPT !.bitmap = @ \cup {new},
                             !.fat[new] = IF kind = 1 THEN EOC ELSE @,
                             !.srch = hint,
                             !.used = IF @ = Unknown THEN @ ELSE @ + 1]]

\* Mutant of AllocCluster: a wanted cluster behind the end is not replaced by 2.
AllocUnclamped(v, want, flags) ==
    LET hint == IF want = EOC THEN TestAlloc(v, v.srch) ELSE want
    IN AllocAt(v, want, flags, hint, TestAlloc(v, hint))

\* exfat_alloc_cluster for one cluster, all that directories and page writes ask
\* for.  want is the cluster behind the last one of the chain, or EOC.
AllocCluster(v, want, flags) ==
    LET hint == IF want = EOC THEN TestAlloc(v, v.srch)
                ELSE IF want >= NumClusters THEN 2 ELSE want
    IN AllocAt(v, want, flags, hint, TestAlloc(v, hint))

\* Mutant of FreeCluster: used_clusters is forgotten.
FreeUncounted(v, p) ==
    IF p.dir \in {Nil, EOC} \/ p.size <= 0 THEN v
    ELSE [v EXCEPT !.bitmap = @ \ ChainSet(v, p)]

\* exfat_free_cluster: the FAT keeps what it says of freed clusters.
FreeCluster(v, p) ==
    IF p.dir \in {Nil, EOC} \/ p.size <= 0 THEN v
    ELSE [v EXCEPT !.bitmap = @ \ ChainSet(v, p),
                   !.used = IF @ = Unknown THEN @ ELSE @ - Cardinality(ChainSet(v, p))]

\* exfat_count_used_clusters.
CountUsed(v) == Cardinality(v.bitmap)
=============================================================================
