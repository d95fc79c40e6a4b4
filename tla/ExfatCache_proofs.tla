------------------------- MODULE ExfatCache_proofs -------------------------
(***************************************************************************)
(* Theorems about ExfatCache for every number of buffers, of lists and of  *)
(* sectors: a search through the pointers of the hash lists ends and finds *)
(* the buffer that has the sector, whatever was read, failed to be read,   *)
(* locked and released before; what is locked stays, one lock inside the   *)
(* other; and the cache implements SectorCache.                            *)
(***************************************************************************)
EXTENDS ExfatCache, FiniteSetTheorems, SequenceTheorems, TLAPS

-----------------------------------------------------------------------------
(* Natural numbers: a set of them has a least member; what holds of 0 and  *)
(* of a successor holds of all (as a statement about a set, which needs no *)
(* theorem with an operator as its parameter).                             *)

LEMMA LeastNat ==
  ASSUME NEW S \in SUBSET Nat, S # {}
  PROVE  \E n \in S : \A m \in S : n <= m
  <1>1. PICK n \in S : \A m \in S : ~(<<m, n>> \in OpToRel(<, Nat))
    BY NatLessThanWellFounded, WFMin
  <1>2. \A m \in S : ~(m < n)  BY <1>1 DEF OpToRel
  <1>3. \A m \in S : n <= m  BY <1>2
  <1> QED BY <1>3

LEMMA AllNat ==
  ASSUME NEW S, 0 \in S, \A n \in Nat : n \in S => n + 1 \in S
  PROVE  Nat \subseteq S
  <1> SUFFICES ASSUME Nat \ S # {} PROVE FALSE
    OBVIOUS
  <1>1. PICK n \in Nat \ S : \A m \in Nat \ S : n <= m
    BY LeastNat
  <1>2. n # 0  OBVIOUS
  <1>3. n - 1 \in Nat /\ n - 1 < n /\ (n - 1) + 1 = n  BY <1>2
  <1>4. n - 1 \in S  BY <1>1, <1>3
  <1> QED BY <1>3, <1>4

(* The walk from a through g: the recursive function of Find exists.       *)
LEMMA WalkExists ==
  ASSUME NEW T, NEW g \in [T -> T], NEW a \in T
  PROVE  \E w \in [Nat -> T] :
           w = [n \in Nat |-> g[IF n = 0 THEN a ELSE w[n - 1]]]
  <1> DEFINE Part(n) == {w \in [0 .. n -> T] :
                           \A k \in 0 .. n : w[k] = g[IF k = 0 THEN a ELSE w[k - 1]]}
             S == {n \in Nat : Part(n) # {}}
  <1>1. 0 \in S
    <2>1. [k \in 0 .. 0 |-> g[a]] \in Part(0)  OBVIOUS
    <2> QED BY <2>1
  <1>2. ASSUME NEW n \in Nat, n \in S PROVE n + 1 \in S
    <2>1. PICK w \in Part(n) : TRUE  BY <1>2
    <2> DEFINE v == [k \in 0 .. n + 1 |-> IF k = n + 1 THEN g[w[n]] ELSE w[k]]
    <2>2. w \in [0 .. n -> T] /\ n \in 0 .. n  BY <2>1
    <2>3. v \in [0 .. n + 1 -> T]  BY <2>2
    <2>4. ASSUME NEW k \in 0 .. n + 1
          PROVE  v[k] = g[IF k = 0 THEN a ELSE v[k - 1]]
      <3>1. CASE k = n + 1
        <4>1. k # 0 /\ k - 1 = n /\ n # n + 1 /\ n \in 0 .. n + 1  BY <3>1
        <4>2. v[n] = w[n]  BY <4>1
        <4> QED BY <3>1, <4>1, <4>2
      <3>2. CASE k # n + 1
        <4>1. k \in 0 .. n /\ v[k] = w[k]  BY <3>2
        <4>2. w[k] = g[IF k = 0 THEN a ELSE w[k - 1]]  BY <2>1, <4>1
        <4>3. k # 0 => k - 1 \in 0 .. n + 1 /\ k - 1 # n + 1  BY <4>1
        <4>4. k # 0 => v[k - 1] = w[k - 1]  BY <4>3
        <4> QED BY <4>1, <4>2, <4>4
      <3> QED BY <3>1, <3>2
    <2>5. v \in Part(n + 1)  BY <2>3, <2>4
    <2>6. n + 1 \in Nat  OBVIOUS
    <2> HIDE DEF Part, v
    <2> QED BY <2>5, <2>6
  <1>3. \A n \in Nat : Part(n) # {}
    <2> HIDE DEF Part
    <2>1. Nat \subseteq S  BY <1>1, <1>2, AllNat
    <2> QED BY <2>1
  <1>4. ASSUME NEW m \in Nat, NEW n \in Nat, NEW v \in Part(m), NEW w \in Part(n)
        PROVE  \A k \in 0 .. m : k \in 0 .. n => v[k] = w[k]
    <2> DEFINE D == {k \in Nat : k <= m /\ k <= n => v[k] = w[k]}
    <2>1. 0 \in D  OBVIOUS
    <2>2. ASSUME NEW k \in Nat, k \in D PROVE k + 1 \in D
      <3> SUFFICES ASSUME k + 1 <= m, k + 1 <= n PROVE v[k + 1] = w[k + 1]
        OBVIOUS
      <3>1. v[k] = w[k]  BY <2>2
      <3>2. k + 1 \in 0 .. m /\ k + 1 \in 0 .. n /\ k + 1 # 0 /\ (k + 1) - 1 = k
        OBVIOUS
      <3>3. v[k + 1] = g[v[k]]  BY <3>2
      <3>4. w[k + 1] = g[w[k]]  BY <3>2
      <3> QED BY <3>1, <3>3, <3>4
    <2>3. Nat \subseteq D
      <3> HIDE DEF D
      <3> QED BY <2>1, <2>2, AllNat
    <2> QED BY <2>3
  <1> DEFINE W == [n \in Nat |-> (CHOOSE w \in Part(n) : TRUE)[n]]
  <1>5. \A n \in Nat : (CHOOSE w \in Part(n) : TRUE) \in Part(n)
    <2> HIDE DEF Part
    <2> QED BY <1>3
  <1>6. W \in [Nat -> T]
    <2>1. ASSUME NEW n \in Nat PROVE W[n] \in T
      <3>1. PICK w \in Part(n) : W[n] = w[n]
        <4> HIDE DEF Part
        <4> QED BY <1>5
      <3> QED BY <3>1
    <2> QED BY <2>1
  <1>7. ASSUME NEW n \in Nat PROVE W[n] = g[IF n = 0 THEN a ELSE W[n - 1]]
    <2>1. PICK w \in Part(n) : W[n] = w[n]
      <3> HIDE DEF Part
      <3> QED BY <1>5
    <2>2. w[n] = g[IF n = 0 THEN a ELSE w[n - 1]]  BY <2>1
    <2>3. CASE n = 0  BY <2>1, <2>2, <2>3
    <2>4. CASE n # 0
      <3>1. n - 1 \in Nat  BY <2>4
      <3>2. PICK v \in Part(n - 1) : W[n - 1] = v[n - 1]
        <4> HIDE DEF Part
        <4> QED BY <1>5, <3>1
      <3>3. n - 1 \in 0 .. n - 1 /\ n - 1 \in 0 .. n  BY <3>1
      <3>4. v[n - 1] = w[n - 1]
        <4> HIDE DEF Part
        <4> QED BY <1>4, <3>1, <3>3
      <3> QED BY <2>1, <2>2, <2>4, <3>2, <3>4
    <2> QED BY <2>3, <2>4
  <1>8. W = [n \in Nat |-> g[IF n = 0 THEN a ELSE W[n - 1]]]
    <2>1. W = [n \in Nat |-> W[n]]  OBVIOUS
    <2> HIDE DEF W
    <2> QED BY <1>7, <2>1
  <1> HIDE DEF W
  <1> QED BY <1>6, <1>8

-----------------------------------------------------------------------------
(* The lists as pointers.  `on' are the heads and the buffers that are in  *)
(* a list, `own' the head of the list a buffer is in, and `pos' falls from *)
(* each buffer to the next: so a list has no cycle but through its head.   *)
Shape(l, on, own, pos) ==
    /\ l.next \in [Nodes -> Nodes] /\ l.prev \in [Nodes -> Nodes]
    /\ Heads \subseteq on /\ on \subseteq Nodes
    /\ own \in [Nodes -> Heads] /\ \A h \in Heads : own[h] = h
    /\ pos \in [Nodes -> Nat]
    /\ \A x \in on :
        /\ l.next[x] \in on /\ l.prev[l.next[x]] = x
        /\ l.prev[x] \in on /\ l.next[l.prev[x]] = x
        /\ own[l.next[x]] = own[x]
        /\ x \in Bufs /\ l.next[x] \in Bufs => pos[l.next[x]] < pos[x]

LEMMA HeadsAreNoBuffers == Heads \cap Bufs = {} /\ Heads \subseteq Nat
  <1>1. Heads \subseteq Nat  BY CacheAssumption DEF Heads
  <1> QED BY <1>1, CacheAssumption

(* buf_cache_remove_hash takes a buffer out of its list, and the rest of   *)
(* the list stays one.                                                     *)
LEMMA RemoveKeepsLists ==
  ASSUME NEW l, NEW on, NEW own, NEW pos, Shape(l, on, own, pos),
         NEW b \in on, b \in Bufs
  PROVE  Shape(RemoveHash(l, b), on \ {b}, own, pos)
  <1> DEFINE y == l.prev[b]
             z == l.next[b]
             m == RemoveHash(l, b)
  <1>1. /\ y \in on /\ z \in on /\ b \in Nodes /\ y \in Nodes /\ z \in Nodes
        /\ l.next[y] = b /\ l.prev[z] = b
    BY DEF Shape
  <1>2. ~(pos[b] < pos[b])
    <2>1. pos[b] \in Nat  BY <1>1 DEF Shape
    <2> QED BY <2>1
  <1>3. y # b /\ z # b
    BY <1>1, <1>2 DEF Shape
  <1>4. /\ m.next = [l.next EXCEPT ![y] = z]
        /\ m.prev = [l.prev EXCEPT ![z] = y]
    BY DEF RemoveHash
  <1>5. m.next \in [Nodes -> Nodes] /\ m.prev \in [Nodes -> Nodes]
    BY <1>1, <1>4 DEF Shape
  <1>6. Heads \subseteq on \ {b}
    BY HeadsAreNoBuffers DEF Shape
  <1>7. ASSUME NEW x \in on \ {b}
        PROVE  /\ m.next[x] \in on \ {b} /\ m.prev[m.next[x]] = x
               /\ m.prev[x] \in on \ {b} /\ m.next[m.prev[x]] = x
               /\ own[m.next[x]] = own[x]
               /\ x \in Bufs /\ m.next[x] \in Bufs => pos[m.next[x]] < pos[x]
    <2>1. /\ x \in Nodes /\ l.next[x] \in on /\ l.prev[x] \in on
          /\ l.next[x] \in Nodes /\ l.prev[x] \in Nodes
          /\ l.prev[l.next[x]] = x /\ l.next[l.prev[x]] = x
          /\ own[l.next[x]] = own[x]
      BY DEF Shape
    <2>2. m.next[x] = IF x = y THEN z ELSE l.next[x]
      BY <1>4, <2>1 DEF Shape
    <2>3. m.prev[x] = IF x = z THEN y ELSE l.prev[x]
      BY <1>4, <2>1 DEF Shape
    <2>4. x # y => l.next[x] # b /\ l.next[x] # z
      BY <1>1, <1>3, <2>1
    <2>5. x # z => l.prev[x] # b /\ l.prev[x] # y
      BY <1>1, <1>3, <2>1
    <2>6. m.next[x] \in on \ {b} /\ m.prev[x] \in on \ {b}
      BY <1>1, <1>3, <2>1, <2>2, <2>3, <2>4, <2>5
    <2>7. m.prev[m.next[x]] = x
      <3>1. \A u \in Nodes : m.prev[u] = IF u = z THEN y ELSE l.prev[u]
        BY <1>4 DEF Shape
      <3> QED BY <1>1, <2>1, <2>2, <2>4, <3>1
    <2>8. m.next[m.prev[x]] = x
      <3>1. \A u \in Nodes : m.next[u] = IF u = y THEN z ELSE l.next[u]
        BY <1>4 DEF Shape
      <3> QED BY <1>1, <2>1, <2>3, <2>5, <3>1
    <2>9. own[m.next[x]] = own[x]
      <3>1. own[b] = own[y] /\ own[z] = own[b]  BY <1>1 DEF Shape
      <3> QED BY <2>1, <2>2, <3>1
    <2>10. ASSUME x \in Bufs, m.next[x] \in Bufs PROVE pos[m.next[x]] < pos[x]
      <3>1. CASE x # y  BY <2>2, <2>10, <3>1 DEF Shape
      <3>2. CASE x = y
        <4>1. pos[b] < pos[x]  BY <1>1, <2>10, <3>2 DEF Shape
        <4>2. pos[z] < pos[b]  BY <2>2, <2>10, <3>2 DEF Shape
        <4>3. pos[x] \in Nat /\ pos[b] \in Nat /\ pos[z] \in Nat
          BY <1>1, <2>1 DEF Shape
        <4>4. pos[z] < pos[x]  BY <4>1, <4>2, <4>3
        <4> QED BY <2>2, <3>2, <4>4
      <3> QED BY <3>1, <3>2
    <2> QED BY <2>6, <2>7, <2>8, <2>9, <2>10
  <1>8. on \ {b} \subseteq Nodes  BY DEF Shape
  <1> HIDE DEF m
  <1>9. Shape(m, on \ {b}, own, pos)
    BY <1>5, <1>6, <1>7, <1>8 DEF Shape
  <1> QED BY <1>9 DEF m

(* buf_cache_insert_hash puts a buffer that is in no list in front.        *)
LEMMA InsertKeepsLists ==
  ASSUME NEW l, NEW on, NEW own, NEW pos, Shape(l, on, own, pos),
         NEW b \in Bufs \ on, NEW h \in Heads
  PROVE  Shape(InsertHash(l, b, h), on \cup {b}, [own EXCEPT ![b] = h],
               [pos EXCEPT ![b] = pos[l.next[h]] + 1])
  <1> DEFINE f == l.next[h]
             m == InsertHash(l, b, h)
             o == [own EXCEPT ![b] = h]
             p == [pos EXCEPT ![b] = pos[f] + 1]
  <1>1. /\ b \in Nodes /\ h \in Nodes /\ h \in on /\ f \in on /\ f \in Nodes
        /\ l.prev[f] = h /\ own[h] = h /\ own[f] = h /\ b # h /\ b # f
        /\ b \notin Heads /\ h \notin Bufs
    BY HeadsAreNoBuffers DEF Shape, Nodes
  <1>2. /\ m.next = [[l.next EXCEPT ![b] = f] EXCEPT ![h] = b]
        /\ m.prev = [[l.prev EXCEPT ![b] = h] EXCEPT ![f] = b]
    BY DEF InsertHash
  <1>3. m.next \in [Nodes -> Nodes] /\ m.prev \in [Nodes -> Nodes]
    <2>1. l.next \in [Nodes -> Nodes] /\ l.prev \in [Nodes -> Nodes]
      BY DEF Shape
    <2> HIDE DEF m
    <2> QED BY <1>1, <1>2, <2>1
  <1>4. \A u \in Nodes :
          /\ m.next[u] = IF u = h THEN b ELSE IF u = b THEN f ELSE l.next[u]
          /\ m.prev[u] = IF u = f THEN b ELSE IF u = b THEN h ELSE l.prev[u]
          /\ o[u] = IF u = b THEN h ELSE own[u]
    BY <1>2 DEF Shape
  <1>5. pos[f] \in Nat /\ pos[f] + 1 \in Nat  BY <1>1 DEF Shape
  <1>6. \A u \in Nodes : p[u] = IF u = b THEN pos[f] + 1 ELSE pos[u]
    BY DEF Shape
  <1>7. o \in [Nodes -> Heads] /\ p \in [Nodes -> Nat]
    BY <1>5 DEF Shape
  <1>8. \A g \in Heads : o[g] = g
    BY <1>1, <1>4 DEF Shape, Nodes
  <1>9. ASSUME NEW x \in on \cup {b}
        PROVE  /\ m.next[x] \in on \cup {b} /\ m.prev[m.next[x]] = x
               /\ m.prev[x] \in on \cup {b} /\ m.next[m.prev[x]] = x
               /\ o[m.next[x]] = o[x]
               /\ x \in Bufs /\ m.next[x] \in Bufs => p[m.next[x]] < p[x]
    <2>1. CASE x = b
      <3>1. m.next[x] = f /\ m.prev[x] = h /\ o[x] = h
        BY <1>1, <1>4, <2>1
      <3>2. p[m.next[x]] = pos[f] /\ p[x] = pos[f] + 1
        BY <1>1, <1>6, <2>1, <3>1
      <3>3. p[m.next[x]] < p[x]  BY <1>5, <3>2
      <3> QED BY <1>1, <1>4, <2>1, <3>1, <3>3
    <2>2. CASE x = h
      <3>1. m.next[x] = b /\ x \notin Bufs /\ m.prev[b] = h /\ o[b] = h /\ o[x] = h
        BY <1>1, <1>4, <2>2
      <3>2. f = h => m.prev[x] = b  BY <1>1, <1>4, <2>2
      <3>3. f # h => m.prev[x] = l.prev[x] /\ l.prev[x] \in on /\ l.prev[x] # h
                     /\ l.next[l.prev[x]] = x /\ l.prev[x] # b
        BY <1>1, <1>4, <2>2 DEF Shape
      <3>4. m.prev[x] \in on \cup {b} /\ m.next[m.prev[x]] = x
        <4>1. CASE f = h  BY <1>1, <1>4, <2>2, <3>2, <4>1
        <4>2. CASE f # h
          <5>1. l.prev[x] \in Nodes  BY <3>3, <4>2 DEF Shape
          <5> QED BY <1>4, <3>3, <4>2, <5>1
        <4> QED BY <4>1, <4>2
      <3> QED BY <2>2, <3>1, <3>4
    <2>3. CASE x # b /\ x # h
      <3>1. /\ x \in on /\ x \in Nodes /\ l.next[x] \in on /\ l.prev[x] \in on
            /\ l.next[x] \in Nodes /\ l.prev[x] \in Nodes
            /\ l.prev[l.next[x]] = x /\ l.next[l.prev[x]] = x
            /\ own[l.next[x]] = own[x]
        BY <2>3 DEF Shape
      <3>2. m.next[x] = l.next[x] /\ l.next[x] # f /\ l.next[x] # b
        BY <1>1, <1>4, <2>3, <3>1
      <3>3. m.prev[m.next[x]] = x /\ o[m.next[x]] = o[x]
        BY <1>4, <2>3, <3>1, <3>2
      <3>4. m.prev[x] \in on \cup {b} /\ m.next[m.prev[x]] = x
        <4>1. CASE x = f  BY <1>1, <1>4, <2>3, <4>1
        <4>2. CASE x # f
          <5>1. l.prev[x] # h /\ l.prev[x] # b  BY <1>1, <3>1, <4>2
          <5> QED BY <1>4, <2>3, <3>1, <4>2, <5>1
        <4> QED BY <4>1, <4>2
      <3>5. ASSUME x \in Bufs, m.next[x] \in Bufs PROVE p[m.next[x]] < p[x]
        <4>1. pos[l.next[x]] < pos[x]  BY <3>1, <3>2, <3>5 DEF Shape
        <4> QED BY <1>6, <2>3, <3>1, <3>2, <4>1
      <3> QED BY <3>1, <3>2, <3>3, <3>4, <3>5
    <2> QED BY <2>1, <2>2, <2>3
  <1>10. Heads \subseteq on \cup {b} /\ on \cup {b} \subseteq Nodes
    BY <1>1 DEF Shape
  <1> HIDE DEF m, o, p
  <1>11. Shape(m, on \cup {b}, o, p)
    BY <1>3, <1>7, <1>8, <1>9, <1>10 DEF Shape
  <1> QED BY <1>11 DEF m, o, p

-----------------------------------------------------------------------------
(* A walk through a list comes back to its head and has then met every     *)
(* buffer of the list.                                                     *)

LEMMA FiniteNodes == IsFiniteSet(Nodes) /\ Cardinality(Nodes) \in Nat
  <1>1. Size \in Nat /\ HashSize \in Nat
    BY CacheAssumption DEF Size
  <1>2. IsFiniteSet(1 .. Size)  BY <1>1, FS_Interval
  <1>3. IsFiniteSet(Heads)
    <2>1. 0 \in Int /\ HashSize - 1 \in Int  BY <1>1
    <2> QED BY <2>1, FS_Interval DEF Heads
  <1>4. IsFiniteSet(Bufs)
    <2> DEFINE f == [k \in 1 .. Size |-> Array[k]]
    <2>1. f \in Surjection(1 .. Size, Bufs)
      BY DEF Surjection, Bufs
    <2> HIDE DEF f
    <2> QED BY <1>2, <2>1, FS_Surjection
  <1>5. IsFiniteSet(Nodes)  BY <1>3, <1>4, FS_Union DEF Nodes
  <1> QED BY <1>5, FS_CardinalityType

LEMMA HashIsHead == \A s \in Sectors \cup {None} : Hash(s) \in Heads
  <1>1. HashSize \in Nat /\ HashSize > 1 /\ SectorsPerClu \in Nat \ {0}
        /\ Sectors \subseteq Nat
    BY CacheAssumption
  <1>2. HashSize - 2 \in 0 .. HashSize - 1  BY <1>1
  <1>3. \A n \in Nat : n % HashSize \in 0 .. HashSize - 1  BY <1>1
  <1>4. \A s \in Nat : s \div SectorsPerClu \in Nat  BY <1>1
  <1>5. \A s \in Nat : s + s \div SectorsPerClu \in Nat  BY <1>4
  <1> QED BY <1>1, <1>2, <1>3, <1>5 DEF Hash, Heads

LEMMA HighestNode ==
  ASSUME NEW pos \in [Nodes -> Nat], NEW A \in SUBSET Nodes, A # {}
  PROVE  \E x \in A : \A y \in A : pos[y] <= pos[x]
  <1> DEFINE Highest(B) == \E x \in B : \A y \in B : pos[y] <= pos[x]
             Bad == {B \in SUBSET Nodes : B # {} /\ ~Highest(B)}
             sizes == {Cardinality(B) : B \in Bad}
  <1> SUFFICES ASSUME Bad # {} PROVE FALSE
    OBVIOUS
  <1>1. \A B \in SUBSET Nodes : IsFiniteSet(B) /\ Cardinality(B) \in Nat
    BY FiniteNodes, FS_Subset, FS_CardinalityType
  <1>2. sizes \subseteq Nat /\ sizes # {}
    <2> HIDE DEF Highest
    <2> QED BY <1>1
  <1>3. PICK n \in sizes : \A m \in sizes : n <= m
    <2> HIDE DEF sizes
    <2> QED BY <1>2, LeastNat
  <1>4. PICK B \in Bad : n = Cardinality(B)
    <2> HIDE DEF Highest
    <2> QED OBVIOUS
  <1>5. PICK x \in B : TRUE  BY <1>4
  <1>6. B \in SUBSET Nodes /\ IsFiniteSet(B) /\ Cardinality(B) \in Nat
    BY <1>1, <1>4
  <1>7. Cardinality(B \ {x}) = Cardinality(B) - 1
    BY <1>5, <1>6, FS_RemoveElement
  <1>8. B \ {x} \notin Bad
    <2>1. SUFFICES ASSUME B \ {x} \in Bad PROVE FALSE
      OBVIOUS
    <2>2. Cardinality(B \ {x}) \in sizes  BY <2>1
    <2>3. n <= Cardinality(B) - 1  BY <1>3, <1>7, <2>2
    <2> QED BY <1>4, <1>6, <2>3
  <1>9. pos[x] \in Nat /\ \A y \in B : pos[y] \in Nat
    BY <1>5, <1>6
  <1>10. Highest(B)
    <2>1. CASE B \ {x} = {}
      <3>1. \A y \in B : y = x  BY <2>1
      <3>2. \A y \in B : pos[y] <= pos[x]  BY <1>9, <3>1
      <3> QED BY <1>5, <3>2
    <2>2. CASE B \ {x} # {}
      <3>1. B \ {x} \in SUBSET Nodes  BY <1>6
      <3>2. Highest(B \ {x})  BY <1>8, <2>2, <3>1
      <3>3. PICK z \in B \ {x} : \A y \in B \ {x} : pos[y] <= pos[z]
        BY <3>2
      <3>4. CASE pos[x] <= pos[z]
        <4>1. \A y \in B : pos[y] <= pos[z]  BY <3>3, <3>4
        <4> QED BY <4>1
      <3>5. CASE pos[z] <= pos[x]
        <4>1. \A y \in B : pos[y] <= pos[x]
          <5> TAKE y \in B
          <5>1. CASE y = x  BY <1>9, <5>1
          <5>2. CASE y # x
            <6>1. pos[y] <= pos[z]  BY <3>3, <5>2
            <6> QED BY <1>9, <3>5, <6>1
          <5> QED BY <5>1, <5>2
        <4> QED BY <1>5, <4>1
      <3>6. pos[x] <= pos[z] \/ pos[z] <= pos[x]  BY <1>9
      <3> QED BY <3>4, <3>5, <3>6
    <2> QED BY <2>1, <2>2
  <1> QED BY <1>4, <1>10

IsWalk(w, l, h) == w = [n \in Nat |-> l.next[IF n = 0 THEN h ELSE w[n - 1]]]

LEMMA WalkStays ==
  ASSUME NEW l, NEW on, NEW own, NEW pos, Shape(l, on, own, pos),
         NEW h \in Heads, NEW w, IsWalk(w, l, h)
  PROVE  /\ w[0] = l.next[h]
         /\ \A n \in Nat : w[n + 1] = l.next[w[n]]
         /\ \A n \in Nat : w[n] \in on /\ own[w[n]] = h
  <1>1. w[0] = l.next[h]  BY DEF IsWalk
  <1>2. ASSUME NEW n \in Nat PROVE w[n + 1] = l.next[w[n]]
    <2>1. n + 1 \in Nat /\ n + 1 # 0 /\ (n + 1) - 1 = n  OBVIOUS
    <2>2. w[n + 1] = l.next[IF n + 1 = 0 THEN h ELSE w[(n + 1) - 1]]
      BY <2>1 DEF IsWalk
    <2> QED BY <2>1, <2>2
  <1> DEFINE S == {n \in Nat : w[n] \in on /\ own[w[n]] = h}
  <1>3. 0 \in S
    <2>1. h \in on /\ own[h] = h  BY DEF Shape
    <2> QED BY <1>1, <2>1 DEF Shape
  <1>4. ASSUME NEW n \in Nat, n \in S PROVE n + 1 \in S
    <2>1. n + 1 \in Nat  OBVIOUS
    <2>2. w[n] \in on /\ own[w[n]] = h  BY <1>4
    <2>3. l.next[w[n]] \in on /\ own[l.next[w[n]]] = h  BY <2>2 DEF Shape
    <2> QED BY <1>2, <2>1, <2>3
  <1>5. Nat \subseteq S
    <2> HIDE DEF S
    <2> QED BY <1>3, <1>4, AllNat
  <1> QED BY <1>1, <1>2, <1>5

LEMMA WalkReturns ==
  ASSUME NEW l, NEW on, NEW own, NEW pos, Shape(l, on, own, pos),
         NEW h \in Heads, NEW w, IsWalk(w, l, h)
  PROVE  \E n \in 0 .. Cardinality(Nodes) : w[n] = h
  <1> DEFINE C == Cardinality(Nodes)
  <1>1. C \in Nat  BY FiniteNodes
  <1> SUFFICES ASSUME \A n \in 0 .. C : w[n] # h PROVE FALSE
    OBVIOUS
  <1>2. \A n \in Nat : w[n] \in on /\ own[w[n]] = h /\ w[n + 1] = l.next[w[n]]
    BY WalkStays
  <1>3. ASSUME NEW n \in 0 .. C PROVE w[n] \in Bufs
    <2>1. n \in Nat  BY <1>1
    <2>2. w[n] \in Nodes /\ w[n] # own[w[n]]
      BY <1>2, <1>3, <2>1 DEF Shape
    <2> QED BY <2>2 DEF Nodes, Shape
  <1>4. \A n \in Nat : pos[w[n]] \in Nat
    BY <1>2 DEF Shape
  <1>5. ASSUME NEW n \in Nat, n + 1 <= C PROVE pos[w[n + 1]] < pos[w[n]]
    <2>1. n \in 0 .. C /\ n + 1 \in 0 .. C  BY <1>1, <1>5
    <2>2. w[n] \in Bufs /\ w[n + 1] \in Bufs  BY <1>3, <2>1
    <2> QED BY <1>2, <2>2 DEF Shape
  <1> HIDE DEF C
  <1> DEFINE S == {d \in Nat : \A n \in Nat : n + 1 + d <= C
                                   => pos[w[n + 1 + d]] < pos[w[n]]}
  <1>6. 0 \in S  BY <1>1, <1>5
  <1>7. ASSUME NEW d \in Nat, d \in S PROVE d + 1 \in S
    <2>1. ASSUME NEW n \in Nat, n + 1 + (d + 1) <= C
          PROVE  pos[w[n + 1 + (d + 1)]] < pos[w[n]]
      <3>1. /\ n + 1 + d <= C /\ n + 1 + d \in Nat
            /\ (n + 1 + d) + 1 = n + 1 + (d + 1) /\ (n + 1 + d) + 1 <= C
        BY <1>1, <2>1
      <3>2. pos[w[n + 1 + d]] < pos[w[n]]  BY <1>7, <3>1
      <3>3. pos[w[(n + 1 + d) + 1]] < pos[w[n + 1 + d]]  BY <1>5, <3>1
      <3>4. /\ pos[w[(n + 1 + d) + 1]] \in Nat /\ pos[w[n + 1 + d]] \in Nat
            /\ pos[w[n]] \in Nat
        BY <1>4, <3>1
      <3>5. pos[w[(n + 1 + d) + 1]] < pos[w[n]]  BY <3>2, <3>3, <3>4
      <3> QED BY <3>1, <3>5
    <2>2. d + 1 \in Nat  OBVIOUS
    <2> QED BY <2>1, <2>2
  <1>8. Nat \subseteq S
    <2> HIDE DEF S
    <2> QED BY <1>6, <1>7, AllNat
  <1>9. ASSUME NEW m \in 0 .. C, NEW n \in 0 .. C, m < n PROVE w[m] # w[n]
    <2>1. PICK d \in Nat : n = m + 1 + d
      <3>1. n - m - 1 \in Nat /\ n = m + 1 + (n - m - 1)  BY <1>1, <1>9
      <3> QED BY <3>1
    <2>2. m \in Nat /\ m + 1 + d <= C  BY <1>1, <2>1
    <2>3. pos[w[n]] < pos[w[m]]  BY <1>8, <2>1, <2>2
    <2>4. pos[w[m]] \in Nat  BY <1>4, <2>2
    <2> QED BY <2>3, <2>4
  <1> DEFINE f == [n \in 0 .. C |-> w[n]]
  <1>10. f \in [0 .. C -> Nodes]
    <2>1. \A n \in 0 .. C : w[n] \in Nodes  BY <1>3 DEF Nodes
    <2> QED BY <2>1
  <1>11. IsFiniteSet(0 .. C) /\ Cardinality(0 .. C) = C + 1
    <2>1. 0 \in Int /\ C \in Int /\ ~(0 > C) /\ C - 0 + 1 = C + 1  BY <1>1
    <2> QED BY <2>1, FS_Interval
  <1>12. Cardinality(Nodes) < Cardinality(0 .. C)  BY <1>1, <1>11 DEF C
  <1>13. PICK m, n \in 0 .. C : m # n /\ f[m] = f[n]
    <2> HIDE DEF f
    <2> QED BY <1>10, <1>11, <1>12, FiniteNodes, FS_PigeonHole
  <1>14. w[m] = w[n] /\ (m < n \/ n < m)  BY <1>1, <1>13
  <1> QED BY <1>9, <1>14

(* The walk up to where it is at the head again, where it first is.        *)
LEMMA WalkMeetsAll ==
  ASSUME NEW l, NEW on, NEW own, NEW pos, Shape(l, on, own, pos),
         NEW h \in Heads, NEW w, IsWalk(w, l, h)
  PROVE  \E N \in 0 .. Cardinality(Nodes) :
           /\ w[N] = h
           /\ \A n \in 0 .. N - 1 : w[n] # h
           /\ \A b \in on \cap Bufs : own[b] = h => \E n \in 0 .. N - 1 : w[n] = b
  <1> DEFINE R == {n \in Nat : w[n] = h}
  <1>1. Cardinality(Nodes) \in Nat  BY FiniteNodes
  <1>2. PICK c \in 0 .. Cardinality(Nodes) : w[c] = h  BY WalkReturns
  <1>3. c \in R  BY <1>1, <1>2
  <1>4. PICK N \in R : \A n \in R : N <= n
    <2> HIDE DEF R
    <2>1. R \in SUBSET Nat  BY DEF R
    <2> QED BY <1>3, <2>1, LeastNat
  <1>5. N \in Nat /\ w[N] = h /\ N \in 0 .. Cardinality(Nodes)
    BY <1>1, <1>2, <1>3, <1>4
  <1>6. \A n \in 0 .. N - 1 : w[n] # h
    <2> TAKE n \in 0 .. N - 1
    <2>1. n \in Nat /\ ~(N <= n)  BY <1>5
    <2> QED BY <1>4, <2>1
  <1> DEFINE A == {b \in on \cap Bufs : own[b] = h /\ \A n \in 0 .. N - 1 : w[n] # b}
  <1>7. A = {}
    <2> SUFFICES ASSUME A # {} PROVE FALSE
      OBVIOUS
    <2>1. A \in SUBSET Nodes  BY DEF Nodes
    <2>2. PICK x \in A : \A y \in A : pos[y] <= pos[x]
      <3> HIDE DEF A
      <3>1. pos \in [Nodes -> Nat]  BY DEF Shape
      <3> QED BY <2>1, <3>1, HighestNode
    <2>3. /\ x \in on /\ x \in Bufs /\ own[x] = h
          /\ \A n \in 0 .. N - 1 : w[n] # x
      OBVIOUS
    <2> DEFINE y == l.prev[x]
    <2>4. y \in on /\ l.next[y] = x /\ own[y] = h /\ y \in Nodes
      BY <2>3 DEF Shape
    <2>5. x # h  BY <2>3, HeadsAreNoBuffers
    <2> HIDE DEF y, A
    <2>6. CASE y \in Heads
      <3>1. y = h  BY <2>4, <2>6 DEF Shape
      <3>2. w[0] = x  BY <2>4, <3>1, WalkStays
      <3>3. N # 0  BY <1>5, <2>5, <3>2
      <3>4. 0 \in 0 .. N - 1  BY <1>5, <3>3
      <3> QED BY <2>3, <3>2, <3>4
    <2>7. CASE y \in Bufs
      <3>1. pos[x] < pos[y]  BY <2>3, <2>4, <2>7 DEF Shape
      <3>2. pos[x] \in Nat /\ pos[y] \in Nat
        BY <2>3, <2>4 DEF Shape, Nodes
      <3>3. ~(pos[y] <= pos[x])  BY <3>1, <3>2
      <3>4. y \notin A  BY <2>2, <3>3
      <3>5. PICK n \in 0 .. N - 1 : w[n] = y
        BY <2>4, <2>7, <3>4 DEF A
      <3>6. n \in Nat  BY <1>5
      <3>7. w[n + 1] = x  BY <2>4, <3>5, <3>6, WalkStays
      <3>8. n + 1 # N  BY <1>5, <2>5, <3>7
      <3>9. n + 1 \in 0 .. N - 1  BY <1>5, <3>8
      <3> QED BY <2>3, <3>7, <3>9
    <2> QED BY <2>4, <2>6, <2>7 DEF Nodes
  <1> QED BY <1>5, <1>6, <1>7

-----------------------------------------------------------------------------
(* What the pointers and the sectors of the buffers have to do with each   *)
(* other.  A buffer that is in no list still points to the head where it   *)
(* was put last, and a buffer with a sector is in the list of the sector.  *)
Lists(on, own, pos) ==
    /\ Shape(links, on, own, pos)
    /\ \A b \in Bufs \ on : links.prev[b] \in Heads /\ sec[b] = None
    /\ \A b \in Bufs : sec[b] # None => own[b] = Hash(sec[b])

ListsOK == \E on, own, pos : Lists(on, own, pos)

SectorsOnce == \A b, c \in Bufs : sec[b] # None /\ sec[b] = sec[c] => b = c

SecOK == sec \in [Bufs -> Sectors \cup {None}]

LEMMA InListIsOn ==
  ASSUME NEW on, NEW own, NEW pos, Lists(on, own, pos), NEW b \in Bufs
  PROVE  InList(links, b) <=> b \in on
  <1>1. ASSUME b \in on PROVE InList(links, b)
    BY <1>1 DEF Lists, Shape, InList
  <1>2. ASSUME b \notin on PROVE ~InList(links, b)
    <2>1. links.prev[b] \in on  BY <1>2 DEF Lists, Shape
    <2>2. links.next[links.prev[b]] \in on  BY <2>1 DEF Lists, Shape
    <2> QED BY <1>2, <2>2 DEF InList
  <1> QED BY <1>1, <1>2

(* A search ends, and finds the one buffer that has the sector if there is *)
(* one.                                                                    *)
LEMMA FindIsRight ==
  ASSUME ListsOK, SectorsOnce, SecOK, NEW s \in Sectors
  PROVE  IF \E b \in Bufs : sec[b] = s
           THEN Find(s) \in Bufs /\ {b \in Bufs : sec[b] = s} = {Find(s)}
           ELSE Find(s) = None
  <1>1. PICK on, own, pos : Lists(on, own, pos)  BY DEF ListsOK
  <1>2. Shape(links, on, own, pos)  BY <1>1 DEF Lists
  <1> DEFINE h == Hash(s)
             walk == CHOOSE w : IsWalk(w, links, h)
             ends == {n \in 0 .. Cardinality(Nodes) :
                        walk[n] = h \/ (walk[n] \in Bufs /\ sec[walk[n]] = s)}
             b0 == walk[CHOOSE n \in ends : \A m \in ends : n <= m]
  <1>3. Find(s) = IF ends = {} THEN Endless ELSE IF b0 = h THEN None ELSE b0
    BY DEF Find, IsWalk
  <1>4. h \in Heads /\ h \in Nodes /\ h \notin Bufs
    BY HashIsHead, HeadsAreNoBuffers DEF Nodes
  <1> HIDE DEF h
  <1>5. IsWalk(walk, links, h)
    <2>1. links.next \in [Nodes -> Nodes]  BY <1>2 DEF Shape
    <2>2. \E w : IsWalk(w, links, h)
      BY <1>4, <2>1, WalkExists DEF IsWalk
    <2> QED BY <2>2
  <1> HIDE DEF walk
  <1>6. PICK N \in 0 .. Cardinality(Nodes) :
          /\ walk[N] = h
          /\ \A n \in 0 .. N - 1 : walk[n] # h
          /\ \A b \in on \cap Bufs : own[b] = h => \E n \in 0 .. N - 1 : walk[n] = b
    BY <1>2, <1>4, <1>5, WalkMeetsAll
  <1>7. Cardinality(Nodes) \in Nat  BY FiniteNodes
  <1>8. N \in ends  BY <1>6
  <1>9. PICK e \in ends : e = (CHOOSE n \in ends : \A m \in ends : n <= m)
                          /\ \A m \in ends : e <= m
    <2>1. ends \in SUBSET Nat  BY <1>7
    <2> HIDE DEF ends
    <2>2. \E n \in ends : \A m \in ends : n <= m
      BY <1>8, <2>1, LeastNat
    <2> QED BY <2>2
  <1>10. Find(s) = IF walk[e] = h THEN None ELSE walk[e]
    BY <1>3, <1>8, <1>9
  <1>11. e \in Nat /\ N \in Nat /\ e <= N
    BY <1>7, <1>8, <1>9
  <1>12. CASE \E b \in Bufs : sec[b] = s
    <2>1. PICK b \in Bufs : sec[b] = s  BY <1>12
    <2>2. s # None  BY CacheAssumption
    <2>3. b \in on /\ own[b] = h
      BY <1>1, <2>1, <2>2 DEF Lists, h
    <2>4. PICK n \in 0 .. N - 1 : walk[n] = b  BY <1>6, <2>3
    <2>5. n \in 0 .. Cardinality(Nodes) /\ n < N  BY <1>7, <1>11
    <2>6. n \in ends  BY <2>1, <2>4, <2>5
    <2>7. e <= n  BY <1>9, <2>6
    <2>8. e \in 0 .. N - 1  BY <1>11, <2>5, <2>7
    <2>9. walk[e] # h  BY <1>6, <2>8
    <2>10. walk[e] \in Bufs /\ sec[walk[e]] = s  BY <1>9, <2>9
    <2>11. Find(s) = walk[e]  BY <1>10, <2>9
    <2>12. \A c \in Bufs : sec[c] = s <=> c = walk[e]
      BY <2>2, <2>10 DEF SectorsOnce
    <2> QED BY <1>12, <2>10, <2>11, <2>12
  <1>13. CASE ~\E b \in Bufs : sec[b] = s
    <2>1. walk[e] = h  BY <1>9, <1>13
    <2> QED BY <1>10, <1>13, <2>1
  <1> QED BY <1>12, <1>13

-----------------------------------------------------------------------------
(* After a mount all buffers are in the list of ~0.                        *)

LEMMA SizeIsNat == Size \in Nat /\ Size > 1
  BY CacheAssumption DEF Size

LEMMA ArrayIsBuffers ==
  /\ \A k \in 1 .. Size : Array[k] \in Bufs
  /\ \A b \in Bufs : \E k \in 1 .. Size : Array[k] = b
  BY DEF Bufs

LEMMA PushedIs ==
  /\ Pushed \in [1 .. Size -> Bufs] /\ Pushed \in Seq(Bufs) /\ Len(Pushed) = Size
  /\ \A k \in 1 .. Size : Pushed[k] = Array[Size + 1 - k]
  /\ \A j, k \in 1 .. Size : Pushed[j] = Pushed[k] => j = k
  /\ \A b \in Bufs : \E k \in 1 .. Size : Pushed[k] = b
  <1>1. \A k \in 1 .. Size : Pushed[k] = Array[Size + 1 - k]
    BY DEF Pushed
  <1>2. \A k \in 1 .. Size : Size + 1 - k \in 1 .. Size /\ Size + 1 - (Size + 1 - k) = k
    BY SizeIsNat
  <1>3. Pushed \in [1 .. Size -> Bufs]
    BY <1>1, <1>2, ArrayIsBuffers DEF Pushed
  <1>4. Pushed \in Seq(Bufs) /\ Len(Pushed) = Size
    BY <1>3, SizeIsNat
  <1>5. ASSUME NEW j \in 1 .. Size, NEW k \in 1 .. Size, Pushed[j] = Pushed[k]
        PROVE  j = k
    <2>1. Size + 1 - j = Size + 1 - k
      BY <1>1, <1>2, <1>5, CacheAssumption
    <2> QED BY <2>1, SizeIsNat
  <1>6. ASSUME NEW b \in Bufs PROVE \E k \in 1 .. Size : Pushed[k] = b
    <2>1. PICK k \in 1 .. Size : Array[k] = b  BY ArrayIsBuffers
    <2>2. Pushed[Size + 1 - k] = b  BY <1>1, <1>2, <2>1
    <2> QED BY <1>2, <2>2
  <1> QED BY <1>1, <1>3, <1>4, <1>5, <1>6

Ring == <<Hash(None)>> \o Pushed

LEMMA RingIs ==
  /\ DOMAIN Ring = 1 .. Size + 1 /\ Ring[1] = Hash(None)
  /\ \A k \in 2 .. Size + 1 : Ring[k] = Pushed[k - 1] /\ Ring[k] \in Bufs
  /\ \A k \in 1 .. Size + 1 : Ring[k] \in Bufs \cup {Hash(None)}
  /\ \A j, k \in 1 .. Size + 1 : Ring[j] = Ring[k] => j = k
  /\ \A x \in Bufs \cup {Hash(None)} : \E k \in 1 .. Size + 1 : Ring[k] = x
  <1> DEFINE one == <<Hash(None)>>
  <1>1. Hash(None) \in Heads /\ Hash(None) \notin Bufs /\ Hash(None) \in Nodes
    BY HashIsHead, HeadsAreNoBuffers DEF Nodes
  <1>2. one \in Seq(Nodes) /\ Len(one) = 1 /\ one[1] = Hash(None)
    BY <1>1
  <1>3. Pushed \in Seq(Nodes) /\ Len(Pushed) = Size
    <2>1. Bufs \subseteq Nodes  BY DEF Nodes
    <2> QED BY <2>1, PushedIs, SeqMonotonic
  <1> HIDE DEF one
  <1>4. /\ one \o Pushed \in Seq(Nodes) /\ Len(one \o Pushed) = 1 + Size
        /\ \A k \in 1 .. 1 + Size : (one \o Pushed)[k] =
             IF k <= 1 THEN one[k] ELSE Pushed[k - 1]
    <2>1. /\ one \o Pushed \in Seq(Nodes)
          /\ Len(one \o Pushed) = Len(one) + Len(Pushed)
          /\ \A k \in 1 .. Len(one) + Len(Pushed) : (one \o Pushed)[k] =
               IF k <= Len(one) THEN one[k] ELSE Pushed[k - Len(one)]
      BY <1>2, <1>3, ConcatProperties
    <2> QED BY <1>2, <1>3, <2>1
  <1>5. Ring = one \o Pushed  BY DEF Ring, one
  <1>6. 1 + Size = Size + 1 /\ 1 \in 1 .. Size + 1  BY SizeIsNat
  <1>7. DOMAIN Ring = 1 .. Size + 1  BY <1>4, <1>5, <1>6
  <1>8. Ring[1] = Hash(None)  BY <1>2, <1>4, <1>5, <1>6
  <1>9. ASSUME NEW k \in 2 .. Size + 1
        PROVE  Ring[k] = Pushed[k - 1] /\ Ring[k] \in Bufs /\ k - 1 \in 1 .. Size
    <2>1. k \in 1 .. 1 + Size /\ ~(k <= 1) /\ k - 1 \in 1 .. Size  BY SizeIsNat
    <2> QED BY <1>4, <1>5, <2>1, PushedIs
  <1>10. \A k \in 1 .. Size + 1 : k = 1 \/ k \in 2 .. Size + 1  BY SizeIsNat
  <1>11. ASSUME NEW j \in 1 .. Size + 1, NEW k \in 1 .. Size + 1, Ring[j] = Ring[k]
         PROVE  j = k
    <2>1. CASE j = 1 \/ k = 1  BY <1>1, <1>8, <1>9, <1>10, <1>11, <2>1
    <2>2. CASE j # 1 /\ k # 1
      <3>1. j \in 2 .. Size + 1 /\ k \in 2 .. Size + 1  BY <1>10, <2>2
      <3>2. /\ j - 1 \in 1 .. Size /\ k - 1 \in 1 .. Size
            /\ Pushed[j - 1] = Pushed[k - 1]
        BY <1>9, <1>11, <3>1
      <3>3. j - 1 = k - 1  BY <3>2, PushedIs
      <3> QED BY <3>1, <3>3
    <2> QED BY <2>1, <2>2
  <1>12. ASSUME NEW x \in Bufs \cup {Hash(None)}
         PROVE  \E k \in 1 .. Size + 1 : Ring[k] = x
    <2>1. CASE x = Hash(None)  BY <1>6, <1>8, <2>1
    <2>2. CASE x \in Bufs
      <3>1. PICK k \in 1 .. Size : Pushed[k] = x  BY <2>2, PushedIs
      <3>2. k + 1 \in 2 .. Size + 1 /\ (k + 1) - 1 = k /\ k + 1 \in 1 .. Size + 1
        BY SizeIsNat
      <3>3. Ring[k + 1] = x  BY <1>9, <3>1, <3>2
      <3> QED BY <3>2, <3>3
    <2> QED BY <2>1, <2>2
  <1>13. \A k \in 1 .. Size + 1 : Ring[k] \in Bufs \cup {Hash(None)}
    BY <1>8, <1>9, <1>10
  <1> QED BY <1>7, <1>8, <1>9, <1>11, <1>12, <1>13

LEMMA MountMakesLists ==
  \E own, pos : /\ Shape(AllInList, Nodes, own, pos)
                /\ \A b \in Bufs : own[b] = Hash(None)
  <1> DEFINE H == Hash(None)
             At(k) == Ring[(k % (Size + 1)) + 1]
             place == [x \in Bufs \cup {H} |-> CHOOSE k \in DOMAIN Ring : Ring[k] = x]
             l == AllInList
             own == [x \in Nodes |-> IF x \in Heads THEN x ELSE H]
             pos == [x \in Nodes |-> IF x \in Bufs THEN Size + 1 - place[x] ELSE 0]
  <1>1. H \in Heads /\ H \notin Bufs /\ H \in Nodes /\ Heads \cap Bufs = {}
    BY HashIsHead, HeadsAreNoBuffers DEF Nodes
  <1>2. DOMAIN place = Bufs \cup {H}  OBVIOUS
  <1>3. /\ l.next = [x \in Nodes |-> IF x \in DOMAIN place THEN At(place[x]) ELSE x]
        /\ l.prev = [x \in Nodes |-> IF x \in DOMAIN place THEN At(place[x] + Size - 1) ELSE x]
    BY DEF AllInList, Ring
  <1>4. ASSUME NEW x \in Bufs \cup {H}
        PROVE  place[x] \in 1 .. Size + 1 /\ Ring[place[x]] = x
    BY RingIs
  <1>5. ASSUME NEW k \in 1 .. Size + 1 PROVE place[Ring[k]] = k
    <2>1. Ring[k] \in Bufs \cup {H}  BY RingIs
    <2>2. place[Ring[k]] \in 1 .. Size + 1 /\ Ring[place[Ring[k]]] = Ring[k]
      BY <1>4, <2>1
    <2> HIDE DEF place
    <2> QED BY <2>2, RingIs
  <1>6. place[H] = 1
    <2>1. 1 \in 1 .. Size + 1  BY SizeIsNat
    <2> HIDE DEF place
    <2> QED BY <1>5, <2>1, RingIs
  <1> HIDE DEF place
  <1>7. ASSUME NEW k \in 1 .. Size + 1
        PROVE  /\ At(k) = IF k = Size + 1 THEN Ring[1] ELSE Ring[k + 1]
               /\ At(k + Size - 1) = IF k = 1 THEN Ring[Size + 1] ELSE Ring[k - 1]
    <2>1. k = Size + 1 => At(k) = Ring[1]
      <3>1. (Size + 1) % (Size + 1) = 0  BY SizeIsNat
      <3> QED BY <3>1
    <2>2. k # Size + 1 => At(k) = Ring[k + 1]
      <3> SUFFICES ASSUME k # Size + 1 PROVE At(k) = Ring[k + 1]
        OBVIOUS
      <3>1. k \in Nat /\ Size + 1 \in Nat /\ k < Size + 1  BY SizeIsNat
      <3>2. k % (Size + 1) = k  BY <3>1
      <3> QED BY <3>2
    <2>3. k = 1 => At(k + Size - 1) = Ring[Size + 1]
      <3>1. 1 + Size - 1 = Size /\ Size < Size + 1 /\ Size \in Nat
        BY SizeIsNat
      <3>2. Size % (Size + 1) = Size  BY <3>1
      <3> QED BY <3>1, <3>2
    <2>4. k # 1 => At(k + Size - 1) = Ring[k - 1]
      <3> SUFFICES ASSUME k # 1 PROVE At(k + Size - 1) = Ring[k - 1]
        OBVIOUS
      <3>1. /\ k - 2 \in Nat /\ Size + 1 \in Nat /\ k - 2 < Size + 1
            /\ k + Size - 1 = (k - 2) + (Size + 1) /\ (k - 2) + 1 = k - 1
        BY SizeIsNat
      <3>2. \A a, n \in Nat : a < n => (a + n) % n = a  OBVIOUS
      <3>3. ((k - 2) + (Size + 1)) % (Size + 1) = k - 2  BY <3>1, <3>2
      <3> QED BY <3>1, <3>3
    <2> HIDE DEF At
    <2> QED BY <2>1, <2>2, <2>3, <2>4
  <1>8. ASSUME NEW x \in Bufs \cup {H}
        PROVE  /\ l.next[x] = IF place[x] = Size + 1 THEN H ELSE Ring[place[x] + 1]
               /\ l.prev[x] = IF place[x] = 1 THEN Ring[Size + 1] ELSE Ring[place[x] - 1]
    <2>1. x \in Nodes  BY <1>1 DEF Nodes
    <2>2. place[x] \in 1 .. Size + 1  BY <1>4
    <2>3. l.next[x] = At(place[x]) /\ l.prev[x] = At(place[x] + Size - 1)
      BY <1>2, <1>3, <2>1
    <2> HIDE DEF At, l
    <2> QED BY <1>7, <2>2, <2>3, RingIs
  <1>9. ASSUME NEW x \in Nodes, x \notin Bufs \cup {H}
        PROVE  x \in Heads /\ l.next[x] = x /\ l.prev[x] = x
    BY <1>2, <1>3, <1>9 DEF Nodes
  <1> HIDE DEF At, l
  <1>10. /\ 1 \in 1 .. Size + 1 /\ Size + 1 \in 1 .. Size + 1 /\ Size + 1 \in 2 .. Size + 1
         /\ \A k \in 1 .. Size + 1 :
              /\ k # Size + 1 => k + 1 \in 2 .. Size + 1 /\ k + 1 \in 1 .. Size + 1
                                 /\ k + 1 # 1 /\ (k + 1) - 1 = k
              /\ k # 1 => k - 1 \in 1 .. Size + 1 /\ k - 1 # Size + 1 /\ (k - 1) + 1 = k
    BY SizeIsNat
  <1>11. ASSUME NEW x \in Bufs \cup {H}
         PROVE  /\ l.next[x] \in Bufs \cup {H} /\ l.prev[l.next[x]] = x
                /\ l.prev[x] \in Bufs \cup {H} /\ l.next[l.prev[x]] = x
                /\ l.next[x] \in Bufs => place[l.next[x]] = place[x] + 1
    <2>1. place[x] \in 1 .. Size + 1 /\ Ring[place[x]] = x  BY <1>4
    <2>2. l.next[x] \in Bufs \cup {H} /\ l.prev[x] \in Bufs \cup {H}
      BY <1>8, <1>10, <2>1, RingIs, SMTT(60)
    <2>3. l.prev[l.next[x]] = x
          /\ (l.next[x] \in Bufs => place[l.next[x]] = place[x] + 1)
      <3>1. CASE place[x] = Size + 1
        <4>1. l.next[x] = H  BY <1>8, <3>1
        <4>2. l.prev[H] = Ring[Size + 1]  BY <1>6, <1>8
        <4> QED BY <1>1, <2>1, <3>1, <4>1, <4>2
      <3>2. CASE place[x] # Size + 1
        <4>1. l.next[x] = Ring[place[x] + 1]  BY <1>8, <3>2
        <4>2. place[l.next[x]] = place[x] + 1
          BY <1>5, <1>10, <2>1, <3>2, <4>1
        <4>3. l.prev[l.next[x]] = Ring[(place[x] + 1) - 1]
          BY <1>8, <1>10, <2>1, <2>2, <3>2, <4>2
        <4> QED BY <1>10, <2>1, <3>2, <4>2, <4>3
      <3> QED BY <3>1, <3>2
    <2>4. l.next[l.prev[x]] = x
      <3>1. CASE place[x] = 1
        <4>1. l.prev[x] = Ring[Size + 1]  BY <1>8, <3>1
        <4>2. place[l.prev[x]] = Size + 1  BY <1>5, <1>10, <4>1
        <4>3. l.next[l.prev[x]] = H  BY <1>8, <2>2, <4>2
        <4> QED BY <2>1, <3>1, <4>3, RingIs
      <3>2. CASE place[x] # 1
        <4>1. l.prev[x] = Ring[place[x] - 1]  BY <1>8, <3>2
        <4>2. place[l.prev[x]] = place[x] - 1
          BY <1>5, <1>10, <2>1, <3>2, <4>1
        <4>3. l.next[l.prev[x]] = Ring[(place[x] - 1) + 1]
          BY <1>8, <1>10, <2>1, <2>2, <3>2, <4>2
        <4> QED BY <1>10, <2>1, <3>2, <4>3
      <3> QED BY <3>1, <3>2
    <2> QED BY <2>2, <2>3, <2>4
  <1>12. l.next \in [Nodes -> Nodes] /\ l.prev \in [Nodes -> Nodes]
    <2>1. Bufs \cup {H} \subseteq Nodes  BY <1>1 DEF Nodes
    <2>2. \A x \in Nodes : l.next[x] \in Nodes /\ l.prev[x] \in Nodes
      BY <1>9, <1>11, <2>1
    <2>3. l.next = [x \in Nodes |-> l.next[x]] /\ l.prev = [x \in Nodes |-> l.prev[x]]
      BY <1>3
    <2> QED BY <2>2, <2>3
  <1>13. own \in [Nodes -> Heads] /\ (\A g \in Heads : own[g] = g)
         /\ \A b \in Bufs : own[b] = H
    BY <1>1 DEF Nodes
  <1>14. pos \in [Nodes -> Nat]
    <2>1. ASSUME NEW b \in Bufs PROVE Size + 1 - place[b] \in Nat
      <3>1. place[b] \in 1 .. Size + 1  BY <1>4
      <3> QED BY <3>1, SizeIsNat
    <2> QED BY <2>1
  <1>15. ASSUME NEW x \in Nodes
         PROVE  /\ l.next[x] \in Nodes /\ l.prev[l.next[x]] = x
                /\ l.prev[x] \in Nodes /\ l.next[l.prev[x]] = x
                /\ own[l.next[x]] = own[x]
                /\ x \in Bufs /\ l.next[x] \in Bufs => pos[l.next[x]] < pos[x]
    <2>1. l.next[x] \in Nodes /\ l.prev[x] \in Nodes  BY <1>12
    <2>2. CASE x \notin Bufs \cup {H}  BY <1>9, <2>1, <2>2
    <2>3. CASE x \in Bufs \cup {H}
      <3>1. own[x] = H /\ own[l.next[x]] = H
        BY <1>1, <1>11, <1>13, <2>3
      <3>2. ASSUME x \in Bufs, l.next[x] \in Bufs PROVE pos[l.next[x]] < pos[x]
        <4>1. place[l.next[x]] = place[x] + 1  BY <1>11, <2>3, <3>2
        <4>2. pos[x] = Size + 1 - place[x]
              /\ pos[l.next[x]] = Size + 1 - (place[x] + 1)
          BY <2>1, <3>2, <4>1
        <4>3. place[x] \in 1 .. Size + 1  BY <1>4, <2>3
        <4> HIDE DEF pos
        <4> QED BY <4>2, <4>3, SizeIsNat
      <3> QED BY <1>11, <2>1, <2>3, <3>1, <3>2
    <2> QED BY <2>2, <2>3
  <1>16. Heads \subseteq Nodes  BY DEF Nodes
  <1> HIDE DEF own, pos
  <1>17. Shape(l, Nodes, own, pos)
    BY <1>12, <1>13, <1>14, <1>15, <1>16 DEF Shape
  <1> QED BY <1>13, <1>17 DEF l

-----------------------------------------------------------------------------
(* The list by use: a sequence without its k-th member, with another in    *)
(* front or at the end instead.                                            *)

Without(s, k) == SubSeq(s, 1, k - 1) \o SubSeq(s, k + 1, Len(s))

LEMMA WithoutIs ==
  ASSUME NEW T, NEW s \in Seq(T), NEW k \in 1 .. Len(s)
  PROVE  /\ Without(s, k) \in Seq(T) /\ Len(Without(s, k)) = Len(s) - 1
         /\ \A j \in 1 .. Len(s) - 1 :
              Without(s, k)[j] = IF j < k THEN s[j] ELSE s[j + 1]
  <1> DEFINE n == Len(s)
             u == SubSeq(s, 1, k - 1)
             v == SubSeq(s, k + 1, n)
  <1>1. n \in Nat /\ k \in Nat /\ 1 <= k /\ k <= n  BY LenProperties
  <1>2. \A j \in 1 .. n : s[j] \in T  BY ElementOfSeq
  <1>3. /\ u \in Seq(T) /\ Len(u) = k - 1
        /\ \A j \in 1 .. k - 1 : u[j] = s[j]
    <2>1. \A j \in 1 .. k - 1 : s[j] \in T  BY <1>1, <1>2
    <2>2. /\ u \in Seq(T)
          /\ Len(u) = IF 1 <= k - 1 THEN (k - 1) - 1 + 1 ELSE 0
          /\ \A j \in 1 .. (k - 1) - 1 + 1 : u[j] = s[1 + j - 1]
      BY <1>1, <2>1, SubSeqProperties
    <2> HIDE DEF u
    <2> QED BY <1>1, <2>2
  <1>4. /\ v \in Seq(T) /\ Len(v) = n - k
        /\ \A j \in 1 .. n - k : v[j] = s[k + j]
    <2>1. \A j \in k + 1 .. n : s[j] \in T  BY <1>1, <1>2
    <2>2. /\ v \in Seq(T)
          /\ Len(v) = IF k + 1 <= n THEN n - (k + 1) + 1 ELSE 0
          /\ \A j \in 1 .. n - (k + 1) + 1 : v[j] = s[(k + 1) + j - 1]
      BY <1>1, <2>1, SubSeqProperties
    <2> HIDE DEF v, n
    <2>3. n - (k + 1) + 1 = n - k /\ \A j \in Nat : (k + 1) + j - 1 = k + j
      BY <1>1
    <2>4. Len(v) = n - k
      <3>1. k + 1 <= n => Len(v) = n - (k + 1) + 1  BY <2>2
      <3>2. ~(k + 1 <= n) => Len(v) = 0 /\ n - k = 0  BY <1>1, <2>2
      <3> QED BY <2>3, <3>1, <3>2
    <2>5. ASSUME NEW j \in 1 .. n - k PROVE v[j] = s[k + j]
      <3>1. j \in Nat /\ j \in 1 .. n - (k + 1) + 1  BY <1>1, <2>3
      <3> QED BY <2>2, <2>3, <3>1
    <2> QED BY <2>2, <2>4, <2>5
  <1> HIDE DEF u, v
  <1>5. /\ u \o v \in Seq(T) /\ Len(u \o v) = Len(u) + Len(v)
        /\ \A j \in 1 .. Len(u) + Len(v) :
             (u \o v)[j] = IF j <= Len(u) THEN u[j] ELSE v[j - Len(u)]
    BY <1>3, <1>4, ConcatProperties
  <1>6. Len(u) + Len(v) = n - 1  BY <1>1, <1>3, <1>4
  <1>7. ASSUME NEW j \in 1 .. n - 1
        PROVE  (u \o v)[j] = IF j < k THEN s[j] ELSE s[j + 1]
    <2>1. (u \o v)[j] = IF j <= k - 1 THEN u[j] ELSE v[j - (k - 1)]
      BY <1>3, <1>5, <1>6
    <2>2. j < k => j <= k - 1 /\ j \in 1 .. k - 1  BY <1>1
    <2>3. ~(j < k) => /\ ~(j <= k - 1) /\ j - (k - 1) \in 1 .. n - k
                      /\ k + (j - (k - 1)) = j + 1
      BY <1>1
    <2> QED BY <1>3, <1>4, <2>1, <2>2, <2>3
  <1>8. Without(s, k) = u \o v  BY DEF Without, u, v
  <1> QED BY <1>5, <1>6, <1>7, <1>8

LEMMA FrontIs ==
  ASSUME NEW T, NEW s \in Seq(T), NEW k \in 1 .. Len(s), NEW x \in T
  PROVE  /\ <<x>> \o Without(s, k) \in Seq(T)
         /\ Len(<<x>> \o Without(s, k)) = Len(s)
         /\ \A j \in 1 .. Len(s) :
              (<<x>> \o Without(s, k))[j] =
                IF j = 1 THEN x ELSE IF j <= k THEN s[j - 1] ELSE s[j]
  <1> DEFINE n == Len(s)
             r == Without(s, k)
             one == <<x>>
  <1>1. n \in Nat /\ k \in Nat /\ 1 <= k /\ k <= n  BY LenProperties
  <1>2. /\ r \in Seq(T) /\ Len(r) = n - 1
        /\ \A j \in 1 .. n - 1 : r[j] = IF j < k THEN s[j] ELSE s[j + 1]
    BY WithoutIs
  <1>3. one \in Seq(T) /\ Len(one) = 1 /\ one[1] = x  OBVIOUS
  <1> HIDE DEF n, r, one
  <1>4. /\ one \o r \in Seq(T) /\ Len(one \o r) = Len(one) + Len(r)
        /\ \A j \in 1 .. Len(one) + Len(r) :
             (one \o r)[j] = IF j <= Len(one) THEN one[j] ELSE r[j - Len(one)]
    BY <1>2, <1>3, ConcatProperties, ZenonT(60)
  <1>5. Len(one) + Len(r) = n  BY <1>1, <1>2, <1>3
  <1>6. ASSUME NEW j \in 1 .. n
        PROVE  (one \o r)[j] = IF j = 1 THEN x ELSE IF j <= k THEN s[j - 1] ELSE s[j]
    <2>1. (one \o r)[j] = IF j <= 1 THEN one[j] ELSE r[j - 1]
      BY <1>3, <1>4, <1>5
    <2>2. j # 1 => /\ ~(j <= 1) /\ j - 1 \in 1 .. n - 1 /\ (j - 1) + 1 = j
                   /\ (j - 1 < k <=> j <= k)
      BY <1>1
    <2> QED BY <1>2, <1>3, <2>1, <2>2
  <1> QED BY <1>4, <1>5, <1>6 DEF n, r, one

LEMMA EndIs ==
  ASSUME NEW T, NEW s \in Seq(T), NEW k \in 1 .. Len(s), NEW x \in T
  PROVE  /\ Append(Without(s, k), x) \in Seq(T)
         /\ Len(Append(Without(s, k), x)) = Len(s)
         /\ \A j \in 1 .. Len(s) :
              Append(Without(s, k), x)[j] =
                IF j = Len(s) THEN x ELSE IF j < k THEN s[j] ELSE s[j + 1]
  <1> DEFINE n == Len(s)
             r == Without(s, k)
  <1>1. n \in Nat /\ k \in Nat /\ 1 <= k /\ k <= n  BY LenProperties
  <1>2. /\ r \in Seq(T) /\ Len(r) = n - 1
        /\ \A j \in 1 .. n - 1 : r[j] = IF j < k THEN s[j] ELSE s[j + 1]
    BY WithoutIs
  <1> HIDE DEF n, r
  <1>3. /\ Append(r, x) \in Seq(T) /\ Len(Append(r, x)) = Len(r) + 1
        /\ \A j \in 1 .. Len(r) : Append(r, x)[j] = r[j]
        /\ Append(r, x)[Len(r) + 1] = x
    BY <1>2, AppendProperties
  <1>4. Len(r) + 1 = n  BY <1>1, <1>2
  <1>5. ASSUME NEW j \in 1 .. n
        PROVE  Append(r, x)[j] = IF j = n THEN x ELSE IF j < k THEN s[j] ELSE s[j + 1]
    <2>1. j # n => j \in 1 .. Len(r) /\ j \in 1 .. n - 1  BY <1>1, <1>2
    <2> QED BY <1>2, <1>3, <1>4, <2>1
  <1> QED BY <1>3, <1>4, <1>5 DEF n, r

(* The list by use is all buffers, each once, whatever is moved in it.     *)
AllOnce(q) ==
    /\ q \in Seq(Bufs) /\ Len(q) = Size
    /\ \A j, k \in 1 .. Size : q[j] = q[k] => j = k
    /\ \A b \in Bufs : \E k \in 1 .. Size : q[k] = b

LEMMA OthersIs ==
  ASSUME AllOnce(lru), NEW k \in 1 .. Size
  PROVE  Others(lru[k]) = Without(lru, k)
  <1>1. k = CHOOSE n \in 1 .. Size : lru[n] = lru[k]
    BY DEF AllOnce
  <1> QED BY <1>1 DEF Others, Without, AllOnce

LEMMA MoveToMruIs ==
  ASSUME AllOnce(lru), NEW k \in 1 .. Size
  PROVE  /\ AllOnce(MoveToMru(lru[k]))
         /\ \A j \in 1 .. Size : MoveToMru(lru[k])[j] =
              IF j = 1 THEN lru[k] ELSE IF j <= k THEN lru[j - 1] ELSE lru[j]
  <1> DEFINE q == MoveToMru(lru[k])
  <1>1. lru \in Seq(Bufs) /\ Len(lru) = Size /\ lru[k] \in Bufs
    BY ElementOfSeq DEF AllOnce
  <1>2. q = <<lru[k]>> \o Without(lru, k)
    BY OthersIs DEF MoveToMru
  <1> HIDE DEF q
  <1>3. /\ q \in Seq(Bufs) /\ Len(q) = Size
        /\ \A j \in 1 .. Size :
             q[j] = IF j = 1 THEN lru[k] ELSE IF j <= k THEN lru[j - 1] ELSE lru[j]
    BY <1>1, <1>2, FrontIs, SMTT(60)
  <1> DEFINE at(j) == IF j = 1 THEN k ELSE IF j <= k THEN j - 1 ELSE j
  <1>4. \A j \in 1 .. Size : at(j) \in 1 .. Size /\ q[j] = lru[at(j)]
    BY <1>3, SizeIsNat
  <1>5. \A j, m \in 1 .. Size : at(j) = at(m) => j = m
    BY SizeIsNat
  <1>6. \A m \in 1 .. Size : \E j \in 1 .. Size : at(j) = m
    <2> TAKE m \in 1 .. Size
    <2>1. CASE m = k
      <3>1. 1 \in 1 .. Size /\ at(1) = m  BY <2>1, SizeIsNat
      <3> QED BY <3>1
    <2>2. CASE m < k
      <3>1. m + 1 \in 1 .. Size /\ at(m + 1) = m  BY <2>2, SizeIsNat
      <3> QED BY <3>1
    <2>3. CASE k < m
      <3>1. m # 1 /\ ~(m <= k)  BY <2>3, SizeIsNat
      <3>2. at(m) = m  BY <3>1
      <3> QED BY <3>2
    <2>4. m = k \/ m < k \/ k < m  BY SizeIsNat
    <2> QED BY <2>1, <2>2, <2>3, <2>4
  <1> HIDE DEF at
  <1>7. \A j, m \in 1 .. Size : q[j] = q[m] => j = m
    BY <1>4, <1>5 DEF AllOnce
  <1>8. ASSUME NEW b \in Bufs PROVE \E j \in 1 .. Size : q[j] = b
    <2>1. PICK m \in 1 .. Size : lru[m] = b  BY DEF AllOnce
    <2>2. PICK j \in 1 .. Size : at(j) = m  BY <1>6
    <2> QED BY <1>4, <2>1, <2>2
  <1>9. AllOnce(q)  BY <1>3, <1>7, <1>8 DEF AllOnce
  <1> QED BY <1>3, <1>9 DEF q

LEMMA MoveToLruIs ==
  ASSUME AllOnce(lru), NEW k \in 1 .. Size
  PROVE  /\ AllOnce(MoveToLru(lru[k]))
         /\ \A j \in 1 .. Size : MoveToLru(lru[k])[j] =
              IF j = Size THEN lru[k] ELSE IF j < k THEN lru[j] ELSE lru[j + 1]
  <1> DEFINE q == MoveToLru(lru[k])
  <1>1. lru \in Seq(Bufs) /\ Len(lru) = Size /\ lru[k] \in Bufs
    BY ElementOfSeq DEF AllOnce
  <1>2. q = Append(Without(lru, k), lru[k])
    BY OthersIs DEF MoveToLru
  <1> HIDE DEF q
  <1>3. /\ q \in Seq(Bufs) /\ Len(q) = Size
        /\ \A j \in 1 .. Size :
             q[j] = IF j = Size THEN lru[k] ELSE IF j < k THEN lru[j] ELSE lru[j + 1]
    BY <1>1, <1>2, EndIs
  <1> DEFINE at(j) == IF j = Size THEN k ELSE IF j < k THEN j ELSE j + 1
  <1>4. \A j \in 1 .. Size : at(j) \in 1 .. Size /\ q[j] = lru[at(j)]
    BY <1>3, SizeIsNat
  <1>5. \A j, m \in 1 .. Size : at(j) = at(m) => j = m
    BY SizeIsNat
  <1>6. \A m \in 1 .. Size : \E j \in 1 .. Size : at(j) = m
    <2> TAKE m \in 1 .. Size
    <2>1. CASE m = k
      <3>1. Size \in 1 .. Size /\ at(Size) = m  BY <2>1, SizeIsNat
      <3> QED BY <3>1
    <2>2. CASE k < m
      <3>1. m - 1 \in 1 .. Size /\ at(m - 1) = m  BY <2>2, SizeIsNat
      <3> QED BY <3>1
    <2>3. CASE m < k
      <3>1. m # Size /\ m < k  BY <2>3, SizeIsNat
      <3>2. at(m) = m  BY <3>1
      <3> QED BY <3>2
    <2>4. m = k \/ m < k \/ k < m  BY SizeIsNat
    <2> QED BY <2>1, <2>2, <2>3, <2>4
  <1> HIDE DEF at
  <1>7. \A j, m \in 1 .. Size : q[j] = q[m] => j = m
    BY <1>4, <1>5 DEF AllOnce
  <1>8. ASSUME NEW b \in Bufs PROVE \E j \in 1 .. Size : q[j] = b
    <2>1. PICK m \in 1 .. Size : lru[m] = b  BY DEF AllOnce
    <2>2. PICK j \in 1 .. Size : at(j) = m  BY <1>6
    <2> QED BY <1>4, <2>1, <2>2
  <1>9. AllOnce(q)  BY <1>3, <1>7, <1>8 DEF AllOnce
  <1> QED BY <1>3, <1>9 DEF q

-----------------------------------------------------------------------------
(* The inductive invariant behind SearchesFind, and the steps.             *)
SearchInv ==
    /\ AllOnce(lru) /\ SecOK
    /\ ~torn => ListsOK /\ SectorsOnce

LEMMA NoneIsNoSector == None \notin Sectors /\ None \notin Bufs
  BY CacheAssumption

LEMMA RightSearch == SearchInv => SearchesFind
  BY FindIsRight DEF SearchInv, SearchesFind

LEMMA FindOfNone ==
  ASSUME SearchInv, ~torn, NEW s \in Sectors, Find(s) = None
  PROVE  \A b \in Bufs : sec[b] # s
  BY FindIsRight, NoneIsNoSector DEF SearchInv

LEMMA FoundIsInList ==
  ASSUME AllOnce(lru), NEW b \in Bufs
  PROVE  \E k \in 1 .. Size : lru[k] = b
  BY DEF AllOnce

LEMMA HitSearch ==
  ASSUME SearchInv, NEW s \in Sectors, Hit(s)
  PROVE  SearchInv'
  <1>1. UNCHANGED <<links, sec, torn>>  BY DEF Hit
  <1>2. PICK k \in 1 .. Size : lru[k] = Find(s)
    BY FoundIsInList DEF Hit, SearchInv
  <1>3. AllOnce(lru')
    BY <1>2, MoveToMruIs DEF Hit, SearchInv
  <1> QED
    BY <1>1, <1>3
    DEF SearchInv, SecOK, ListsOK, Lists, SectorsOnce

LEMMA RemovedPrev ==
  ASSUME NEW l, NEW on, NEW own, NEW pos, Shape(l, on, own, pos),
         NEW b \in on, b \in Bufs, NEW c \in Nodes, c = b \/ c \notin on
  PROVE  RemoveHash(l, b).prev[c] = l.prev[c]
  <1>1. l.next[b] \in on  BY DEF Shape
  <1>2. l.next[b] # b
    <2>1. pos[b] \in Nat  BY DEF Shape
    <2>2. ~(pos[b] < pos[b])  BY <2>1
    <2> QED BY <2>2 DEF Shape
  <1>3. RemoveHash(l, b).prev = [l.prev EXCEPT ![l.next[b]] = l.prev[b]]
    BY DEF RemoveHash
  <1> QED BY <1>1, <1>2, <1>3 DEF Shape

LEMMA InsertedPrev ==
  ASSUME NEW l, NEW on, NEW own, NEW pos, Shape(l, on, own, pos),
         NEW b \in Bufs \ on, NEW h \in Heads, NEW c \in Nodes \ on
  PROVE  InsertHash(l, b, h).prev[c] = IF c = b THEN h ELSE l.prev[c]
  <1>1. l.next[h] \in on  BY DEF Shape
  <1>2. InsertHash(l, b, h).prev = [[l.prev EXCEPT ![b] = h] EXCEPT ![l.next[h]] = b]
    BY DEF InsertHash
  <1> QED BY <1>1, <1>2 DEF Shape

LEMMA ListsNext ==
  ASSUME NEW on, NEW own, NEW pos, Shape(links', on, own, pos),
         \A b \in Bufs \ on : links'.prev[b] \in Heads /\ sec'[b] = None,
         \A b \in Bufs : sec'[b] # None => own[b] = Hash(sec'[b])
  PROVE  ListsOK'
  <1>1. Lists(on, own, pos)'  BY DEF Lists
  <1> QED BY <1>1 DEF ListsOK

LEMMA MissLists ==
  ASSUME SearchInv, NEW s \in Sectors, Find(s) = None, ~torn,
         NEW b \in Bufs, NEW ok \in BOOLEAN,
         ~(~InList(links, b) /\ RemoveHash(links, b) # links),
         links' = LET with == InsertHash(RemoveHash(links, b), b, Hash(s))
                  IN IF ok THEN with ELSE RemoveHash(with, b),
         sec' = [sec EXCEPT ![b] = IF ok THEN s ELSE None]
  PROVE  ListsOK' /\ SectorsOnce'
  <1> DEFINE without == RemoveHash(links, b)
             with == InsertHash(without, b, Hash(s))
             h == Hash(s)
  <1>1. PICK on, own, pos : Lists(on, own, pos)
    BY DEF SearchInv, ListsOK
  <1>2. Shape(links, on, own, pos)  BY <1>1 DEF Lists
  <1>3. h \in Heads  BY HashIsHead
  <1>4. b \in Nodes  BY DEF Nodes
  <1> DEFINE rest == on \ {b}
             own2 == [own EXCEPT ![b] = h]
             pos2 == [pos EXCEPT ![b] = pos[without.next[h]] + 1]
  <1>5. /\ Shape(without, rest, own, pos)
        /\ \A c \in Nodes \ rest : without.prev[c] = links.prev[c]
    <2>1. CASE b \in on
      <3>1. \A c \in Nodes \ rest : c = b \/ c \notin on  OBVIOUS
      <3> QED BY <1>2, <2>1, <3>1, RemoveKeepsLists, RemovedPrev
    <2>2. CASE b \notin on
      <3>1. without = links  BY <1>1, <2>2, InListIsOn
      <3>2. rest = on  BY <2>2
      <3> QED BY <1>2, <3>1, <3>2
    <2> QED BY <2>1, <2>2
  <1>6. b \in Bufs \ rest  OBVIOUS
  <1> HIDE DEF without, h, rest
  <1>7. /\ Shape(with, rest \cup {b}, own2, pos2)
        /\ \A c \in Nodes \ rest :
             with.prev[c] = IF c = b THEN h ELSE links.prev[c]
    BY <1>3, <1>5, <1>6, InsertKeepsLists, InsertedPrev DEF h
  <1>8. own2[b] = h /\ \A c \in Bufs : c # b => own2[c] = own[c]
    BY <1>2, <1>4 DEF Shape, Nodes
  <1>9. /\ sec'[b] = IF ok THEN s ELSE None
        /\ \A c \in Bufs : c # b => sec'[c] = sec[c]
    BY DEF SearchInv, SecOK
  <1> HIDE DEF with, own2, pos2
  <1>10. SectorsOnce'
    <2>1. \A c \in Bufs : sec[c] # s  BY FindOfNone
    <2>2. SectorsOnce  BY DEF SearchInv
    <2> QED BY <1>9, <2>1, <2>2 DEF SectorsOnce
  <1>11. ASSUME NEW c \in Bufs, sec'[c] # None PROVE own2[c] = Hash(sec'[c])
    <2>1. CASE c = b  BY <1>8, <1>9, <1>11, <2>1 DEF h
    <2>2. CASE c # b  BY <1>1, <1>8, <1>9, <1>11, <2>2 DEF Lists
    <2> QED BY <2>1, <2>2
  <1>12. ASSUME NEW c \in Bufs, c \notin rest, c # b
         PROVE  links.prev[c] \in Heads /\ sec'[c] = None
    <2>1. c \in Bufs \ on  BY <1>12 DEF rest
    <2> QED BY <1>1, <1>9, <1>12, <2>1 DEF Lists
  <1>13. ListsOK'
    <2>1. CASE ok
      <3>1. links' = with  BY <2>1 DEF with, without
      <3>2. ASSUME NEW c \in Bufs \ (rest \cup {b})
            PROVE  links'.prev[c] \in Heads /\ sec'[c] = None
        <4>1. c \in Bufs /\ c \notin rest /\ c # b /\ c \in Nodes \ rest
          BY DEF Nodes
        <4> QED BY <1>7, <1>12, <3>1, <4>1
      <3>3. Shape(links', rest \cup {b}, own2, pos2)  BY <1>7, <3>1
      <3> QED BY <1>11, <3>2, <3>3, ListsNext
    <2>2. CASE ~ok
      <3>1. links' = RemoveHash(with, b)  BY <2>2 DEF with, without
      <3>2. Shape(links', (rest \cup {b}) \ {b}, own2, pos2)
        BY <1>7, <3>1, RemoveKeepsLists
      <3>3. ASSUME NEW c \in Bufs \ ((rest \cup {b}) \ {b})
            PROVE  links'.prev[c] \in Heads /\ sec'[c] = None
        <4>1. (c \in Bufs /\ c \notin rest) \/ c = b  OBVIOUS
        <4>2. c \in Nodes /\ (c = b \/ c \notin rest \cup {b})
          BY DEF Nodes
        <4>3. links'.prev[c] = with.prev[c]
          BY <1>7, <3>1, <4>2, RemovedPrev
        <4>4. CASE c = b
          <5>1. with.prev[c] = h  BY <1>4, <1>6, <1>7, <4>4
          <5> QED BY <1>3, <1>9, <2>2, <4>3, <4>4, <5>1
        <4>5. CASE c # b
          <5>1. c \in Nodes \ rest  BY <4>2, <4>5
          <5>2. with.prev[c] = links.prev[c]  BY <1>7, <4>5, <5>1
          <5> QED BY <1>12, <4>3, <4>5, <5>1, <5>2
        <4> QED BY <4>4, <4>5
      <3> QED BY <1>11, <3>2, <3>3, ListsNext
    <2> QED BY <2>1, <2>2
  <1> QED BY <1>10, <1>13

LEMMA MissSearch ==
  ASSUME SearchInv, NEW s \in Sectors, NEW ok \in BOOLEAN, Miss(s, ok)
  PROVE  SearchInv'
  <1>1. Find(s) = None  BY DEF Miss
  <1>2. PICK k \in DOMAIN lru :
          LET b == lru[k]
              without == RemoveHash(links, b)
              with == InsertHash(without, b, Hash(s))
          IN /\ links' = IF ok THEN with ELSE RemoveHash(with, b)
             /\ sec' = [sec EXCEPT ![b] = IF ok THEN s ELSE None]
             /\ lru' = IF ok THEN MoveToMru(b) ELSE MoveToLru(b)
             /\ torn' = (torn \/ (~InList(links, b) /\ without # links))
    BY DEF Miss
  <1>3. k \in 1 .. Size /\ lru[k] \in Bufs
    BY LenProperties, ElementOfSeq DEF SearchInv, AllOnce
  <1>4. AllOnce(lru')
    BY <1>2, <1>3, MoveToMruIs, MoveToLruIs DEF SearchInv
  <1>5. SecOK'
    BY <1>2, <1>3 DEF SearchInv, SecOK
  <1>6. ASSUME ~torn' PROVE ListsOK' /\ SectorsOnce'
    <2>1. ~torn /\ ~(~InList(links, lru[k]) /\ RemoveHash(links, lru[k]) # links)
      BY <1>2, <1>6
    <2> QED BY <1>1, <1>2, <1>3, <2>1, MissLists
  <1> QED BY <1>4, <1>5, <1>6 DEF SearchInv

LEMMA ReleaseSearch ==
  ASSUME SearchInv, NEW s \in Sectors, Release(s)
  PROVE  SearchInv'
  <1>1. /\ UNCHANGED <<links, torn>> /\ Find(s) \in Bufs
        /\ sec' = [sec EXCEPT ![Find(s)] = None]
        /\ lru' = MoveToLru(Find(s))
    BY DEF Release
  <1>2. PICK k \in 1 .. Size : lru[k] = Find(s)
    BY <1>1, FoundIsInList DEF SearchInv
  <1>3. AllOnce(lru')  BY <1>1, <1>2, MoveToLruIs DEF SearchInv
  <1>4. SecOK'  BY <1>1 DEF SearchInv, SecOK
  <1>5. \A c \in Bufs : sec'[c] = None \/ sec'[c] = sec[c]
    BY <1>1 DEF SearchInv, SecOK
  <1>6. ASSUME ~torn' PROVE ListsOK' /\ SectorsOnce'
    <2>1. SectorsOnce'  BY <1>1, <1>5, <1>6 DEF SearchInv, SectorsOnce
    <2>2. PICK on, own, pos : Lists(on, own, pos)
      BY <1>1, <1>6 DEF SearchInv, ListsOK
    <2>3. Lists(on, own, pos)'  BY <1>1, <1>5, <2>2 DEF Lists
    <2> QED BY <2>1, <2>3 DEF ListsOK
  <1> QED BY <1>3, <1>4, <1>6 DEF SearchInv

LEMMA ReleaseAllSearch ==
  ASSUME SearchInv, ReleaseAll
  PROVE  SearchInv'
  <1>1. UNCHANGED <<links, lru, torn>> /\ sec' = [b \in Bufs |-> None]
    BY DEF ReleaseAll
  <1>2. AllOnce(lru') /\ SecOK' /\ SectorsOnce'
    BY <1>1 DEF SearchInv, SecOK, SectorsOnce
  <1>3. ASSUME ~torn' PROVE ListsOK'
    <2>1. PICK on, own, pos : Lists(on, own, pos)
      BY <1>1, <1>3 DEF SearchInv, ListsOK
    <2>2. Lists(on, own, pos)'  BY <1>1, <2>1 DEF Lists
    <2> QED BY <2>2 DEF ListsOK
  <1> QED BY <1>2, <1>3 DEF SearchInv

(* An empty cache: after a mount, and at first.                            *)
LEMMA EmptySearch ==
  ASSUME lru = Pushed, links = AllInList, sec = [b \in Bufs |-> None]
  PROVE  SearchInv
  <1>1. AllOnce(lru)  BY PushedIs DEF AllOnce
  <1>2. SecOK /\ SectorsOnce  BY DEF SecOK, SectorsOnce
  <1>3. PICK own, pos : Shape(AllInList, Nodes, own, pos)
    BY MountMakesLists
  <1>4. Bufs \ Nodes = {}  BY DEF Nodes
  <1>5. Lists(Nodes, own, pos)  BY <1>3, <1>4 DEF Lists
  <1> QED BY <1>1, <1>2, <1>5 DEF SearchInv, ListsOK

LEMMA MountSearch ==
  ASSUME Mount
  PROVE  SearchInv'
  <1>1. lru' = Pushed /\ links' = AllInList /\ sec' = [b \in Bufs |-> None]
    BY DEF Mount
  <1>2. AllOnce(lru')  BY <1>1, PushedIs DEF AllOnce
  <1>3. SecOK' /\ SectorsOnce'  BY <1>1 DEF SecOK, SectorsOnce
  <1>4. PICK own, pos : Shape(AllInList, Nodes, own, pos)
    BY MountMakesLists
  <1>5. Bufs \ Nodes = {}  BY DEF Nodes
  <1>6. Lists(Nodes, own, pos)'  BY <1>1, <1>4, <1>5 DEF Lists
  <1> QED BY <1>2, <1>3, <1>6 DEF SearchInv, ListsOK

LEMMA SameSearch ==
  ASSUME SearchInv, UNCHANGED <<lru, links, sec, torn>>
  PROVE  SearchInv'
  BY DEF SearchInv, AllOnce, SecOK, ListsOK, Lists, SectorsOnce

LEMMA NextSearch == SearchInv /\ [Next]_vars => SearchInv'
  <1> SUFFICES ASSUME SearchInv, [Next]_vars PROVE SearchInv'
    OBVIOUS
  <1>1. ASSUME NEW s \in Sectors, GetEntry(s) PROVE SearchInv'
    <2>1. Hit(s) \/ Miss(s, TRUE) \/ Miss(s, FALSE)
      BY <1>1 DEF GetEntry
    <2> QED BY <2>1, HitSearch, MissSearch
  <1>3. ASSUME NEW s \in Sectors, Release(s) PROVE SearchInv'
    BY <1>3, ReleaseSearch
  <1>4. CASE Lock \/ Finish  BY <1>4, SameSearch DEF Lock, Finish
  <1>5. CASE ReleaseAll  BY <1>5, ReleaseAllSearch
  <1>6. CASE Mount  BY <1>6, MountSearch
  <1>7. CASE UNCHANGED vars  BY <1>7, SameSearch DEF vars, cache
  <1> QED BY <1>1, <1>3, <1>4, <1>5, <1>6, <1>7 DEF Next

LEMMA SearchInvHolds == Spec => []SearchInv
  <1>1. Init => SearchInv  BY EmptySearch DEF Init
  <1> QED BY <1>1, NextSearch, PTL DEF Spec

(* A search for a sector ends, and with the only buffer that has the       *)
(* sector if there is one: for every number of buffers and of lists, after *)
(* any reads, failed reads, locks and releases, until a buffer whose read  *)
(* failed is taken out of a list that has changed behind it.               *)
THEOREM SearchesFindTheSector == Spec => []SearchesFind
  BY SearchInvHolds, RightSearch, PTL

-----------------------------------------------------------------------------
(* What is locked is what the driver has locked and works on: the entry    *)
(* inside is read when it is locked, and what is unlocked inside takes the *)
(* lock of the outer entry only if both are of the same sector.            *)

WorkOK ==
    /\ work \in Seq([sec : Sectors, held : BOOLEAN]) /\ Len(work) <= 2
    /\ Len(work) = 2 => work[1].held

LocksOK ==
    /\ locked \subseteq Bufs
    /\ \A b \in locked : \E k \in DOMAIN work : work[k].held /\ sec[b] = work[k].sec
    /\ \A k \in DOMAIN work : work[k].held /\ ~(k = 1 /\ cut) =>
          \E b \in locked : sec[b] = work[k].sec
    /\ ~Idle /\ ~Top.held => \E b \in Bufs : sec[b] = Top.sec

LockInv == WorkOK /\ (~torn => LocksOK)

CacheInv == SearchInv /\ LockInv

LEMMA FoundHas ==
  ASSUME SearchInv, ~torn, NEW s \in Sectors, Find(s) \in Bufs
  PROVE  sec[Find(s)] = s
  <1>1. Find(s) # None  BY NoneIsNoSector
  <1> QED BY <1>1, FindIsRight DEF SearchInv

LEMMA HoldsIsFound ==
  ASSUME SearchInv, ~torn, NEW s \in Sectors, NEW b \in Bufs, sec[b] = s
  PROVE  Find(s) = b
  BY FindIsRight DEF SearchInv

(* A miss changes nothing of what is locked.                               *)
LEMMA MissKeepsLocked ==
  ASSUME SearchInv, NEW s \in Sectors, NEW ok \in BOOLEAN, Miss(s, ok),
         NEW b \in Bufs, b \in locked
  PROVE  sec'[b] = sec[b]
  <1>1. PICK k \in DOMAIN lru :
          Victim(k) /\ sec' = [sec EXCEPT ![lru[k]] = IF ok THEN s ELSE None]
    BY DEF Miss
  <1>2. lru[k] # b  BY <1>1 DEF Victim
  <1> QED BY <1>1, <1>2 DEF SearchInv, SecOK

LEMMA IdleLocksNone ==
  ASSUME LockInv, ~torn, Idle
  PROVE  locked = {}
  BY DEF LockInv, LocksOK, Idle

LEMMA NoneLocked ==
  ASSUME work' = <<>>, ~torn' => locked' = {}
  PROVE  LockInv'
  BY DEF LockInv, WorkOK, LocksOK, Idle

LEMMA WorkIs ==
  ASSUME WorkOK, ~Idle
  PROVE  /\ Len(work) \in {1, 2} /\ DOMAIN work = 1 .. Len(work)
         /\ \A k \in 1 .. Len(work) : work[k].sec \in Sectors /\ work[k].held \in BOOLEAN
         /\ Top = work[Len(work)] /\ Top.sec \in Sectors
  <1>1. Len(work) \in Nat /\ Len(work) # 0 /\ Len(work) <= 2
    BY EmptySeq DEF WorkOK, Idle
  <1> DEFINE E == [sec : Sectors, held : BOOLEAN]
  <1>2. work \in Seq(E)  BY DEF WorkOK
  <1>3. Len(work) \in {1, 2}
    <2> DEFINE n == Len(work)
    <2>1. n \in Nat /\ n # 0 /\ n <= 2  BY <1>1
    <2> HIDE DEF n
    <2>2. n \in {1, 2}  BY <2>1
    <2> QED BY <2>2 DEF n
  <1>4. DOMAIN work = 1 .. Len(work)  BY <1>2, LenProperties
  <1>5. ASSUME NEW k \in 1 .. Len(work)
        PROVE  work[k].sec \in Sectors /\ work[k].held \in BOOLEAN
    <2> HIDE DEF E
    <2>1. work[k] \in E  BY <1>2, ElementOfSeq
    <2> QED BY <2>1 DEF E
  <1>6. Top.sec \in Sectors  BY <1>3, <1>5 DEF Top
  <1> QED BY <1>3, <1>4, <1>5, <1>6 DEF Top

(* Of the step that reads an entry: what was locked is as it was; a new    *)
(* entry, if one is taken up, is in the cache.                             *)
LEMMA GetEntryTakes ==
  ASSUME SearchInv, SearchInv', LockInv, NEW s \in Sectors, GetEntry(s)
  PROVE  /\ ~Idle => Top.held
         /\ UNCHANGED <<locked, cut>> /\ (~torn' => ~torn)
         /\ \A b \in Bufs : b \in locked => sec'[b] = sec[b]
         /\ \/ UNCHANGED work
            \/ \E e \in [sec : Sectors, held : BOOLEAN] :
                  /\ Len(work) < 2 /\ work' = Append(work, e) /\ ~e.held
                  /\ ~torn' => \E b \in Bufs : sec'[b] = e.sec
  <1>1. (~Idle => Top.held) /\ UNCHANGED cut  BY DEF GetEntry
  <1>2. UNCHANGED locked /\ (~torn' => ~torn)
    <2>1. CASE Hit(s)  BY <2>1 DEF Hit
    <2>2. ASSUME NEW ok \in BOOLEAN, Miss(s, ok)
          PROVE  UNCHANGED locked /\ (~torn' => ~torn)
      BY <2>2 DEF Miss
    <2> QED BY <2>1, <2>2 DEF GetEntry
  <1>3. ASSUME NEW b \in Bufs, b \in locked PROVE sec'[b] = sec[b]
    <2>1. CASE Hit(s)  BY <2>1 DEF Hit
    <2>2. CASE \E ok \in BOOLEAN : Miss(s, ok)
      BY <1>3, <2>2, MissKeepsLocked
    <2> QED BY <2>1, <2>2 DEF GetEntry
  <1>4. ASSUME Hit(s) \/ Miss(s, TRUE), ~torn' PROVE \E b \in Bufs : sec'[b] = s
    <2>1. CASE Hit(s)
      <3>1. Find(s) \in Bufs /\ UNCHANGED sec  BY <2>1 DEF Hit
      <3>2. sec[Find(s)] = s  BY <1>2, <1>4, <3>1, FoundHas
      <3> QED BY <3>1, <3>2
    <2>2. CASE Miss(s, TRUE)
      <3>1. PICK k \in DOMAIN lru : sec' = [sec EXCEPT ![lru[k]] = s]
        BY <2>2 DEF Miss
      <3>2. lru[k] \in Bufs
        BY LenProperties, ElementOfSeq DEF SearchInv, AllOnce
      <3>3. sec'[lru[k]] = s  BY <3>1, <3>2 DEF SearchInv, SecOK
      <3> QED BY <3>2, <3>3
    <2> QED BY <1>4, <2>1, <2>2
  <1>5. ASSUME NEW t \in Sectors
        PROVE  Entry(t, FALSE) \in [sec : Sectors, held : BOOLEAN] /\ ~Entry(t, FALSE).held
               /\ Entry(t, FALSE).sec = t
    BY DEF Entry
  <1>6. CASE UNCHANGED work  BY <1>1, <1>2, <1>3, <1>6
  <1>7. CASE /\ Hit(s) \/ Miss(s, TRUE)
             /\ Len(work) < Depth /\ work' = Append(work, Entry(s, FALSE))
    <2>1. Len(work) < 2  BY <1>7 DEF Depth
    <2> QED BY <1>1, <1>2, <1>3, <1>4, <1>5, <1>7, <2>1
  <1>8. CASE Idle /\ \E b \in Bufs : sec'[b] # None /\ work' = <<Entry(sec'[b], FALSE)>>
    <2>1. PICK b \in Bufs : sec'[b] # None /\ work' = <<Entry(sec'[b], FALSE)>>
      BY <1>8
    <2>2. sec'[b] \in Sectors  BY <2>1 DEF SearchInv, SecOK
    <2> DEFINE e == Entry(sec'[b], FALSE)
    <2>3. e \in [sec : Sectors, held : BOOLEAN] /\ ~e.held /\ e.sec = sec'[b]
      BY <1>5, <2>2
    <2>4. work = <<>> /\ work' = <<e>>  BY <1>8, <2>1 DEF Idle
    <2> HIDE DEF e
    <2>5. Len(work) < 2 /\ work' = Append(work, e)
      BY <2>4
    <2>6. \E c \in Bufs : sec'[c] = e.sec  BY <2>3
    <2> QED BY <1>1, <1>2, <1>3, <2>3, <2>5, <2>6
  <1> QED BY <1>6, <1>7, <1>8 DEF GetEntry

LEMMA GetEntryLock ==
  ASSUME SearchInv, SearchInv', LockInv, NEW s \in Sectors, GetEntry(s)
  PROVE  LockInv'
  <1> DEFINE E == [sec : Sectors, held : BOOLEAN]
  <1>1. /\ ~Idle => Top.held
        /\ UNCHANGED <<locked, cut>> /\ (~torn' => ~torn)
        /\ \A b \in Bufs : b \in locked => sec'[b] = sec[b]
    BY GetEntryTakes
  <1>2. CASE UNCHANGED work
    <2>1. WorkOK'  BY <1>2 DEF LockInv, WorkOK
    <2>2. ASSUME ~torn' PROVE LocksOK'
      <3>1. LocksOK  BY <1>1, <2>2 DEF LockInv
      <3> QED BY <1>1, <1>2, <3>1 DEF LocksOK, Idle, Top
    <2> QED BY <2>1, <2>2 DEF LockInv
  <1>3. ASSUME NEW e \in E,
               Len(work) < 2, work' = Append(work, e), ~e.held,
               ~torn' => \E b \in Bufs : sec'[b] = e.sec
        PROVE  LockInv'
    <2>1. /\ work' \in Seq(E) /\ Len(work') = Len(work) + 1 /\ Len(work) \in Nat
          /\ DOMAIN work = 1 .. Len(work) /\ DOMAIN work' = 1 .. Len(work) + 1
          /\ work'[Len(work) + 1] = e
          /\ \A k \in 1 .. Len(work) : work'[k] = work[k]
      BY <1>3, AppendProperties DEF LockInv, WorkOK
    <2>2. ASSUME Len(work') = 2 PROVE work'[1].held
      <3>1. Len(work) = 1
        <4> DEFINE m == Len(work)
        <4>1. m \in Nat /\ m + 1 = 2  BY <2>1, <2>2
        <4> HIDE DEF m
        <4>2. m = 1  BY <4>1
        <4> QED BY <4>2 DEF m
      <3>2. ~Idle  BY <3>1, EmptySeq DEF Idle
      <3>3. Top.held /\ work'[1] = Top  BY <1>1, <2>1, <3>1, <3>2 DEF Top
      <3> QED BY <3>3
    <2>3. WorkOK'  BY <1>3, <2>1, <2>2 DEF WorkOK
    <2>4. ASSUME ~torn' PROVE LocksOK'
      <3>1. LocksOK  BY <1>1, <2>4 DEF LockInv
      <3>2. locked' \subseteq Bufs  BY <1>1, <3>1 DEF LocksOK
      <3>3. ASSUME NEW b \in locked'
            PROVE  \E k \in DOMAIN work' : work'[k].held /\ sec'[b] = work'[k].sec
        <4>1. b \in locked /\ sec'[b] = sec[b]  BY <1>1, <3>1, <3>3 DEF LocksOK
        <4>2. PICK k \in DOMAIN work : work[k].held /\ sec[b] = work[k].sec
          BY <3>1, <4>1 DEF LocksOK
        <4>3. k \in DOMAIN work' /\ work'[k] = work[k]  BY <2>1
        <4> QED BY <4>1, <4>2, <4>3
      <3>4. ASSUME NEW k \in DOMAIN work', work'[k].held, ~(k = 1 /\ cut')
            PROVE  \E b \in locked' : sec'[b] = work'[k].sec
        <4>1. k # Len(work) + 1  BY <1>3, <2>1, <3>4
        <4>2. k \in DOMAIN work /\ work'[k] = work[k]  BY <2>1, <4>1
        <4>3. PICK b \in locked : sec[b] = work[k].sec
          BY <1>1, <3>1, <3>4, <4>2 DEF LocksOK
        <4>4. b \in locked' /\ sec'[b] = work'[k].sec
          BY <1>1, <3>1, <4>2, <4>3 DEF LocksOK
        <4> QED BY <4>4
      <3>5. (Top)' = e  BY <2>1 DEF Top
      <3>6. (~Idle /\ ~Top.held => \E b \in Bufs : sec[b] = Top.sec)'
        BY <1>3, <2>4, <3>5
      <3> QED BY <3>2, <3>3, <3>4, <3>6 DEF LocksOK
    <2> QED BY <2>3, <2>4 DEF LockInv
  <1> QED BY <1>2, <1>3, GetEntryTakes

LEMMA LockLock ==
  ASSUME SearchInv, LockInv, Lock
  PROVE  LockInv'
  <1> DEFINE E == [sec : Sectors, held : BOOLEAN]
             n == Len(work)
  <1>1. /\ ~Idle /\ ~Top.held /\ UNCHANGED <<sec, torn, cut>>
        /\ work' = [work EXCEPT ![n] = [sec |-> Top.sec, held |-> TRUE]]
        /\ locked' = locked \cup ({Find(Top.sec)} \cap Bufs)
    BY DEF Lock, Entry
  <1>2. /\ n \in {1, 2} /\ DOMAIN work = 1 .. n /\ Top = work[n] /\ Top.sec \in Sectors
        /\ \A k \in 1 .. n : work[k] \in E
    BY <1>1, WorkIs, ElementOfSeq DEF LockInv, WorkOK
  <1>3. /\ DOMAIN work' = 1 .. n
        /\ \A k \in 1 .. n : k # n => work'[k] = work[k]
        /\ work'[n] = [sec |-> Top.sec, held |-> TRUE]
    <2> DEFINE e == [sec |-> Top.sec, held |-> TRUE]
    <2>1. work' = [work EXCEPT ![n] = e]  BY <1>1
    <2>2. n \in 1 .. n  BY <1>2
    <2> HIDE DEF e, n
    <2>3. DOMAIN work' = 1 .. n /\ \A k \in 1 .. n : work'[k] = IF k = n THEN e ELSE work[k]
      BY <1>2, <2>1
    <2> QED BY <2>2, <2>3 DEF e
  <1>4. work' \in Seq(E) /\ Len(work') = n
    <2> DEFINE e == [sec |-> Top.sec, held |-> TRUE]
    <2>1. e \in E /\ n \in 1 .. n  BY <1>2
    <2>2. work \in Seq(E) /\ n = Len(work) /\ work' = [work EXCEPT ![n] = e]
      BY <1>1 DEF LockInv, WorkOK
    <2> HIDE DEF e, E, n
    <2> QED BY <2>1, <2>2, ExceptSeq
  <1>5. WorkOK'
    <2>1. ASSUME n = 2 PROVE work'[1].held
      <3>1. work'[1] = work[1]  BY <1>3, <2>1
      <3> QED BY <2>1, <3>1 DEF LockInv, WorkOK
    <2>2. n <= 2  BY <1>2
    <2> QED BY <1>4, <2>1, <2>2 DEF WorkOK
  <1>6. ASSUME ~torn' PROVE LocksOK'
    <2>1. LocksOK  BY <1>1, <1>6 DEF LockInv
    <2>2. PICK c \in Bufs : sec[c] = Top.sec  BY <1>1, <2>1 DEF LocksOK
    <2>3. Find(Top.sec) = c /\ locked' = locked \cup {c}
      BY <1>1, <1>2, <1>6, <2>2, HoldsIsFound
    <2>4. ASSUME NEW b \in locked'
          PROVE  \E k \in DOMAIN work' : work'[k].held /\ sec'[b] = work'[k].sec
      <3>1. CASE b = c
        BY <1>1, <1>2, <1>3, <2>2, <3>1
      <3>2. CASE b # c
        <4>1. PICK k \in DOMAIN work : work[k].held /\ sec[b] = work[k].sec
          BY <2>1, <2>3, <3>2 DEF LocksOK
        <4>2. work'[k].held /\ work'[k].sec = work[k].sec /\ k \in DOMAIN work'
          BY <1>2, <1>3, <4>1
        <4> QED BY <1>1, <4>1, <4>2
      <3> QED BY <3>1, <3>2
    <2>5. ASSUME NEW k \in DOMAIN work', work'[k].held, ~(k = 1 /\ cut')
          PROVE  \E b \in locked' : sec'[b] = work'[k].sec
      <3>1. CASE k = n  BY <1>1, <1>3, <2>2, <2>3, <3>1
      <3>2. CASE k # n
        <4>1. k \in DOMAIN work /\ work'[k] = work[k]  BY <1>2, <1>3, <3>2
        <4>2. PICK b \in locked : sec[b] = work[k].sec
          BY <1>1, <2>1, <2>5, <4>1 DEF LocksOK
        <4> QED BY <1>1, <2>3, <4>1, <4>2
      <3> QED BY <3>1, <3>2
    <2>6. (Top)' = work'[n]  BY <1>4 DEF Top
    <2>7. (Top)'.held  BY <1>3, <2>6
    <2>8. locked' \subseteq Bufs  BY <2>1, <2>3 DEF LocksOK
    <2> QED BY <2>4, <2>5, <2>7, <2>8 DEF LocksOK
  <1> QED BY <1>5, <1>6 DEF LockInv

LEMMA FinishLock ==
  ASSUME SearchInv, LockInv, Finish
  PROVE  LockInv'
  <1> DEFINE E == [sec : Sectors, held : BOOLEAN]
             n == Len(work)
  <1>1. /\ ~Idle /\ UNCHANGED <<sec, torn>> /\ work' = SubSeq(work, 1, n - 1)
        /\ locked' = IF Top.held THEN locked \ {Find(Top.sec)} ELSE locked
        /\ cut' = (n > 1 /\ (cut \/ (Top.held /\ work[1].sec = Top.sec)))
    BY DEF Finish
  <1>2. n \in {1, 2} /\ DOMAIN work = 1 .. n /\ Top = work[n] /\ Top.sec \in Sectors
    BY <1>1, WorkIs DEF LockInv
  <1>3. /\ work' \in Seq(E) /\ Len(work') = n - 1 /\ DOMAIN work' = 1 .. n - 1
        /\ \A k \in 1 .. n - 1 : work'[k] = work[k]
    <2>1. work \in Seq(E)  BY DEF LockInv, WorkOK
    <2>2. 1 \in 1 .. n + 1 /\ n - 1 \in 0 .. n /\ n - 1 \in Nat  BY <1>2
    <2>3. \A i \in 1 .. n - 1 : i \in 1 .. n  BY <1>2
    <2>4. work' = [k \in 1 .. n - 1 |-> work[k]]
      BY <1>1, <1>2, <2>1, <2>2 DEF SubSeq
    <2>5. work' \in [1 .. n - 1 -> E]  BY <2>1, <2>3, <2>4, ElementOfSeq
    <2> QED BY <2>2, <2>4, <2>5
  <1>4. WorkOK'  BY <1>2, <1>3 DEF WorkOK
  <1>5. ASSUME ~torn' PROVE LocksOK'
    <2>1. LocksOK /\ ~torn  BY <1>1, <1>5 DEF LockInv
    <2>2. locked' \subseteq locked /\ locked' \subseteq Bufs  BY <1>1, <2>1 DEF LocksOK
    <2>3. ASSUME NEW b \in locked'
          PROVE  \E k \in DOMAIN work' : work'[k].held /\ sec'[b] = work'[k].sec
      <3>1. PICK k \in DOMAIN work : work[k].held /\ sec[b] = work[k].sec
        BY <2>1, <2>2, <2>3 DEF LocksOK
      <3>2. CASE k = n
        <4>1. Top.held /\ sec[b] = Top.sec /\ b \in Bufs  BY <1>2, <2>2, <2>3, <3>1, <3>2
        <4>2. b = Find(Top.sec)  BY <1>2, <2>1, <4>1, HoldsIsFound
        <4> QED BY <1>1, <2>3, <4>1, <4>2
      <3>3. CASE k # n
        <4>1. k \in DOMAIN work' /\ work'[k] = work[k]  BY <1>2, <1>3, <3>3
        <4> QED BY <1>1, <3>1, <4>1
      <3> QED BY <3>2, <3>3
    <2>4. ASSUME NEW k \in DOMAIN work', work'[k].held, ~(k = 1 /\ cut')
          PROVE  \E b \in locked' : sec'[b] = work'[k].sec
      <3>1. k = 1 /\ n = 2 /\ work'[k] = work[1] /\ 1 \in DOMAIN work
        BY <1>2, <1>3
      <3>2. ~cut /\ ~(Top.held /\ work[1].sec = Top.sec)
        <4>1. n > 1  BY <3>1
        <4>2. ~cut'  BY <2>4, <3>1
        <4> QED BY <1>1, <4>1, <4>2, Zenon
      <3>3. PICK b \in locked : sec[b] = work[1].sec
        BY <2>1, <2>4, <3>1, <3>2 DEF LocksOK
      <3>4. b \in Bufs  BY <2>1 DEF LocksOK
      <3>5. ASSUME Top.held PROVE b # Find(Top.sec)
        BY <1>2, <2>1, <3>2, <3>3, <3>4, <3>5, FoundHas
      <3>6. b \in locked'  BY <1>1, <3>5
      <3> QED BY <1>1, <3>1, <3>3, <3>6
    <2>5. ASSUME work' # <<>> PROVE (Top)'.held
      <3>1. n = 2  BY <1>2, <1>3, <2>5, EmptySeq
      <3>2. (Top)' = work'[1] /\ work'[1] = work[1]  BY <1>3, <3>1 DEF Top
      <3> QED BY <3>1, <3>2 DEF LockInv, WorkOK
    <2> QED BY <2>2, <2>3, <2>4, <2>5 DEF LocksOK, Idle
  <1> QED BY <1>4, <1>5 DEF LockInv

LEMMA NextLock == CacheInv /\ SearchInv' /\ [Next]_vars => LockInv'
  <1> SUFFICES ASSUME SearchInv, SearchInv', LockInv, [Next]_vars PROVE LockInv'
    BY DEF CacheInv
  <1>1. ASSUME NEW s \in Sectors, GetEntry(s) PROVE LockInv'
    BY <1>1, GetEntryLock
  <1>2. ASSUME NEW s \in Sectors, Release(s) PROVE LockInv'
    <2>1. Idle /\ UNCHANGED <<work, torn>> /\ locked' \subseteq locked
      BY <1>2 DEF Release
    <2>2. ~torn => locked = {}  BY <2>1, IdleLocksNone
    <2> QED BY <2>1, <2>2, NoneLocked DEF Idle
  <1>3. CASE Lock  BY <1>3, LockLock
  <1>4. CASE Finish  BY <1>4, FinishLock
  <1>5. CASE ReleaseAll  BY <1>5, NoneLocked DEF ReleaseAll, Idle
  <1>6. CASE Mount  BY <1>6, NoneLocked DEF Mount, Idle
  <1>7. CASE UNCHANGED vars
    BY <1>7 DEF vars, cache, LockInv, WorkOK, LocksOK, Idle, Top
  <1> QED BY <1>1, <1>2, <1>3, <1>4, <1>5, <1>6, <1>7 DEF Next

LEMMA CacheInvHolds == Spec => []CacheInv
  <1>1. Init => SearchInv  BY EmptySearch DEF Init
  <1>2. Init => LockInv
    BY DEF Init, LockInv, WorkOK, LocksOK, Idle
  <1>3. CacheInv /\ [Next]_vars => CacheInv'
    BY NextSearch, NextLock DEF CacheInv
  <1> QED BY <1>1, <1>2, <1>3, PTL DEF Spec, CacheInv

(* Two entries lock two of more than two buffers.                          *)
LEMMA OneIsFree ==
  ASSUME CacheInv, ~torn
  PROVE  \E b \in Bufs : b \notin locked
  <1> SUFFICES ASSUME \A b \in Bufs : b \in locked PROVE FALSE
    OBVIOUS
  <1>1. 1 \in 1 .. Size /\ 2 \in 1 .. Size /\ 3 \in 1 .. Size
    BY SizeIsNat, CacheAssumption
  <1>2. Array[1] \in Bufs /\ Array[2] \in Bufs /\ Array[3] \in Bufs
    BY <1>1 DEF Bufs
  <1>3. Array[1] # Array[2] /\ Array[2] # Array[3] /\ Array[1] # Array[3]
    BY <1>1, CacheAssumption
  <1>4. \A b \in Bufs : \E k \in {1, 2} : k \in DOMAIN work /\ sec[b] = work[k].sec
    <2>1. ~Idle  BY <1>2, IdleLocksNone DEF CacheInv
    <2>2. Len(work) \in {1, 2} /\ DOMAIN work = 1 .. Len(work)
      BY <2>1, WorkIs DEF CacheInv, LockInv
    <2>3. DOMAIN work \subseteq {1, 2}  BY <2>2
    <2> QED BY <2>3 DEF CacheInv, LockInv, LocksOK
  <1>5. \A b \in Bufs : sec[b] # None
    <2>1. ASSUME NEW b \in Bufs PROVE sec[b] # None
      <3>1. PICK k \in DOMAIN work : sec[b] = work[k].sec  BY <1>4
      <3>2. ~Idle  BY <1>2, IdleLocksNone DEF CacheInv
      <3>3. work[k].sec \in Sectors  BY <3>2, WorkIs DEF CacheInv, LockInv
      <3> QED BY <3>1, <3>3, NoneIsNoSector
    <2> QED BY <2>1
  <1>6. \A b, c \in Bufs : sec[b] = sec[c] => b = c
    BY <1>5 DEF CacheInv, SearchInv, SectorsOnce
  <1>7. PICK i \in {1, 2} : sec[Array[1]] = work[i].sec  BY <1>2, <1>4
  <1>8. PICK j \in {1, 2} : sec[Array[2]] = work[j].sec  BY <1>2, <1>4
  <1>9. PICK m \in {1, 2} : sec[Array[3]] = work[m].sec  BY <1>2, <1>4
  <1>10. i # j /\ j # m /\ i # m  BY <1>2, <1>3, <1>6, <1>7, <1>8, <1>9
  <1> QED BY <1>10

(* What the driver has locked stays in the cache and locked, whatever is   *)
(* read, fails to be read and is locked inside, unless what is inside was  *)
(* of the same sector; no lock outlives its work, and one buffer is always *)
(* free to be taken (buf_lock, buf_unlock, buf_cache_get; find_empty_entry *)
(* under rename_file and move_file).                                       *)
THEOREM LockedEntriesStay == Spec => []LocksAreHeld
  <1>1. CacheInv => LocksAreHeld
    BY OneIsFree DEF CacheInv, LockInv, LocksOK, LocksAreHeld
  <1> QED BY <1>1, CacheInvHolds, PTL

-----------------------------------------------------------------------------
(* The cache is the abstract one.                                          *)

(* The refinement mapping.                                                 *)
Slots == [k \in 1 .. Size |-> sec[lru[k]]]
Kept  == {sec[b] : b \in locked}

LEMMA SlotsAre ==
  ASSUME SearchInv
  PROVE  /\ Slots \in Seq(Sectors \cup {None}) /\ Len(Slots) = Size
         /\ DOMAIN Slots = 1 .. Size
         /\ \A k \in 1 .. Size : Slots[k] = sec[lru[k]] /\ lru[k] \in Bufs
  <1>1. \A k \in 1 .. Size : lru[k] \in Bufs
    BY ElementOfSeq DEF SearchInv, AllOnce
  <1>2. Slots \in [1 .. Size -> Sectors \cup {None}]
    BY <1>1 DEF Slots, SearchInv, SecOK
  <1>3. Slots \in Seq(Sectors \cup {None}) /\ Len(Slots) = Size
    BY <1>2, SizeIsNat
  <1> QED BY <1>1, <1>3 DEF Slots

LEMMA SlotsNext ==
  ASSUME SearchInv'
  PROVE  /\ Slots' \in Seq(Sectors \cup {None}) /\ Len(Slots') = Size
         /\ \A k \in 1 .. Size : Slots'[k] = sec'[lru'[k]]
  <1>1. \A k \in 1 .. Size : lru'[k] \in Bufs
    BY ElementOfSeq DEF SearchInv, AllOnce
  <1>2. Slots' \in [1 .. Size -> Sectors \cup {None}]
    BY <1>1 DEF Slots, SearchInv, SecOK
  <1>3. Slots' \in Seq(Sectors \cup {None}) /\ Len(Slots') = Size
    BY <1>2, SizeIsNat
  <1> QED BY <1>3 DEF Slots

(* Moving buffer lru[k] to an end of the list, with x in it from now on.   *)
LEMMA SlotsToFront ==
  ASSUME SearchInv, SearchInv', NEW k \in 1 .. Size, NEW x \in Sectors \cup {None},
         lru' = MoveToMru(lru[k]),
         \A b \in Bufs : sec'[b] = IF b = lru[k] THEN x ELSE sec[b]
  PROVE  Slots' = <<x>> \o Without(Slots, k)
  <1> DEFINE q == <<x>> \o Without(Slots, k)
  <1>1. \A j \in 1 .. Size : lru'[j] =
          IF j = 1 THEN lru[k] ELSE IF j <= k THEN lru[j - 1] ELSE lru[j]
    BY MoveToMruIs DEF SearchInv
  <1>2. /\ q \in Seq(Sectors \cup {None}) /\ Len(q) = Size
        /\ \A j \in 1 .. Size :
             q[j] = IF j = 1 THEN x ELSE IF j <= k THEN Slots[j - 1] ELSE Slots[j]
    <2>1. Slots \in Seq(Sectors \cup {None}) /\ Len(Slots) = Size  BY SlotsAre
    <2>2. k \in 1 .. Len(Slots)  BY <2>1
    <2> DEFINE T == Sectors \cup {None}
               r == Slots
    <2>3. r \in Seq(T) /\ k \in 1 .. Len(r) /\ x \in T  BY <2>1, <2>2
    <2> HIDE DEF T, r
    <2>4. /\ <<x>> \o Without(r, k) \in Seq(T)
          /\ Len(<<x>> \o Without(r, k)) = Len(r)
          /\ \A j \in 1 .. Len(r) :
               (<<x>> \o Without(r, k))[j] =
                 IF j = 1 THEN x ELSE IF j <= k THEN r[j - 1] ELSE r[j]
      BY <2>3, FrontIs, SMTT(60)
    <2> QED BY <2>1, <2>4 DEF T, r
  <1>3. \A j, m \in 1 .. Size : lru[j] = lru[m] => j = m
    BY DEF SearchInv, AllOnce
  <1> HIDE DEF q
  <1>4. ASSUME NEW j \in 1 .. Size PROVE Slots'[j] = q[j]
    <2>1. Slots'[j] = sec'[lru'[j]]  BY SlotsNext
    <2>2. CASE j = 1  BY <1>1, <1>2, <2>1, <2>2, SlotsAre
    <2>3. CASE j # 1 /\ j <= k
      <3>1. j - 1 \in 1 .. Size /\ j - 1 # k  BY <2>3, SizeIsNat
      <3>2. lru[j - 1] # lru[k] /\ lru[j - 1] \in Bufs  BY <1>3, <3>1, SlotsAre
      <3>3. Slots'[j] = sec[lru[j - 1]]  BY <1>1, <2>1, <2>3, <3>2
      <3> QED BY <1>2, <2>3, <3>1, <3>3, SlotsAre
    <2>4. CASE j # 1 /\ ~(j <= k)
      <3>1. j # k  BY <2>4, SizeIsNat
      <3>2. lru[j] # lru[k] /\ lru[j] \in Bufs  BY <1>3, <3>1, SlotsAre
      <3>3. Slots'[j] = sec[lru[j]]  BY <1>1, <2>1, <2>4, <3>2
      <3> QED BY <1>2, <2>4, <3>3, SlotsAre
    <2> QED BY <2>2, <2>3, <2>4
  <1>5. Slots' = q
    BY <1>2, <1>4, SlotsNext, SeqEqual
  <1> QED BY <1>5 DEF q

LEMMA SlotsToEnd ==
  ASSUME SearchInv, SearchInv', NEW k \in 1 .. Size, NEW x \in Sectors \cup {None},
         lru' = MoveToLru(lru[k]),
         \A b \in Bufs : sec'[b] = IF b = lru[k] THEN x ELSE sec[b]
  PROVE  Slots' = Append(Without(Slots, k), x)
  <1> DEFINE q == Append(Without(Slots, k), x)
  <1>1. \A j \in 1 .. Size : lru'[j] =
          IF j = Size THEN lru[k] ELSE IF j < k THEN lru[j] ELSE lru[j + 1]
    BY MoveToLruIs DEF SearchInv
  <1>2. /\ q \in Seq(Sectors \cup {None}) /\ Len(q) = Size
        /\ \A j \in 1 .. Size :
             q[j] = IF j = Size THEN x ELSE IF j < k THEN Slots[j] ELSE Slots[j + 1]
    BY SlotsAre, EndIs
  <1>3. \A j, m \in 1 .. Size : lru[j] = lru[m] => j = m
    BY DEF SearchInv, AllOnce
  <1> HIDE DEF q
  <1>4. ASSUME NEW j \in 1 .. Size PROVE Slots'[j] = q[j]
    <2>1. Slots'[j] = sec'[lru'[j]]  BY SlotsNext
    <2>2. CASE j = Size  BY <1>1, <1>2, <2>1, <2>2, SlotsAre
    <2>3. CASE j # Size /\ j < k
      <3>1. j # k  BY <2>3, SizeIsNat
      <3>2. lru[j] # lru[k] /\ lru[j] \in Bufs  BY <1>3, <3>1, SlotsAre
      <3>3. Slots'[j] = sec[lru[j]]  BY <1>1, <2>1, <2>3, <3>2
      <3> QED BY <1>2, <2>3, <3>3, SlotsAre
    <2>4. CASE j # Size /\ ~(j < k)
      <3>1. j + 1 \in 1 .. Size /\ j + 1 # k  BY <2>4, SizeIsNat
      <3>2. lru[j + 1] # lru[k] /\ lru[j + 1] \in Bufs  BY <1>3, <3>1, SlotsAre
      <3>3. Slots'[j] = sec[lru[j + 1]]  BY <1>1, <2>1, <2>4, <3>2
      <3> QED BY <1>2, <2>4, <3>1, <3>3, SlotsAre
    <2> QED BY <2>2, <2>3, <2>4
  <1>5. Slots' = q
    BY <1>2, <1>4, SlotsNext, SeqEqual
  <1> QED BY <1>5 DEF q

LEMMA SlotsRemoved ==
  ASSUME SearchInv, NEW k \in 1 .. Size
  PROVE  SC!RemoveAt(Slots, k) = Without(Slots, k)
  BY SlotsAre DEF SC!RemoveAt, Without

LEMMA KeptStays ==
  ASSUME UNCHANGED locked, locked \subseteq Bufs,
         \A b \in locked : sec'[b] = sec[b]
  PROVE  Kept' = Kept
  BY DEF Kept

LEMMA HitIsHit ==
  ASSUME CacheInv, SearchInv', ~torn, NEW s \in Sectors, Hit(s)
  PROVE  SC!Hit(s)
  <1>0. SearchInv /\ LockInv  BY DEF CacheInv
  <1>1. /\ Find(s) \in Bufs /\ lru' = MoveToMru(Find(s))
        /\ UNCHANGED <<sec, locked>>
    BY DEF Hit
  <1>2. PICK k \in 1 .. Size : lru[k] = Find(s)
    BY <1>0, <1>1, FoundIsInList DEF SearchInv
  <1>3. sec[lru[k]] = s  BY <1>0, <1>1, <1>2, FoundHas
  <1>4. \A b \in Bufs : sec'[b] = IF b = lru[k] THEN s ELSE sec[b]
    BY <1>1, <1>3
  <1>5. Slots' = <<s>> \o Without(Slots, k)
    <2>1. s \in Sectors \cup {None} /\ lru' = MoveToMru(lru[k])  BY <1>1, <1>2
    <2> QED BY <1>0, <1>4, <2>1, SlotsToFront
  <1>6. k \in DOMAIN Slots /\ Slots[k] = s  BY <1>0, <1>3, SlotsAre
  <1>7. Slots' = <<s>> \o SC!RemoveAt(Slots, k)
    BY <1>0, <1>5, SlotsRemoved
  <1>8. Kept' = Kept
    BY <1>0, <1>1, KeptStays DEF LockInv, LocksOK
  <1> QED BY <1>6, <1>7, <1>8 DEF SC!Hit, SC!ToFront, Slots, Kept

(* A buffer is locked if its sector is kept, and only then.                *)
LEMMA LockedIsKept ==
  ASSUME CacheInv, ~torn, NEW b \in locked
  PROVE  b \in Bufs /\ sec[b] \in Kept /\ sec[b] # None
  <1>1. b \in Bufs /\ sec[b] \in Kept  BY DEF CacheInv, LockInv, LocksOK, Kept
  <1>2. PICK k \in DOMAIN work : sec[b] = work[k].sec
    BY DEF CacheInv, LockInv, LocksOK
  <1>3. ~Idle  BY IdleLocksNone DEF CacheInv
  <1>4. work[k].sec \in Sectors  BY <1>3, WorkIs DEF CacheInv, LockInv
  <1> QED BY <1>1, <1>2, <1>4, NoneIsNoSector

LEMMA KeptIsLocked ==
  ASSUME CacheInv, ~torn, NEW b \in Bufs, sec[b] \in Kept
  PROVE  b \in locked
  <1>1. PICK c \in locked : sec[c] = sec[b]  BY DEF Kept
  <1>2. c \in Bufs /\ sec[c] # None  BY LockedIsKept
  <1>3. b = c  BY <1>1, <1>2 DEF CacheInv, SearchInv, SectorsOnce
  <1> QED BY <1>1, <1>3

LEMMA MissIsMiss ==
  ASSUME CacheInv, SearchInv', ~torn, NEW s \in Sectors, NEW ok \in BOOLEAN, Miss(s, ok)
  PROVE  SC!Miss(s)
  <1>0. SearchInv /\ LockInv  BY DEF CacheInv
  <1>1. Find(s) = None /\ UNCHANGED locked  BY DEF Miss
  <1>2. PICK k \in DOMAIN lru :
          /\ Victim(k)
          /\ sec' = [sec EXCEPT ![lru[k]] = IF ok THEN s ELSE None]
          /\ lru' = IF ok THEN MoveToMru(lru[k]) ELSE MoveToLru(lru[k])
    BY DEF Miss
  <1>3. k \in 1 .. Size /\ lru[k] \in Bufs
    BY <1>0, LenProperties, ElementOfSeq DEF SearchInv, AllOnce
  <1>4. s \notin {Slots[j] : j \in DOMAIN Slots}
    <2>1. \A b \in Bufs : sec[b] # s  BY <1>0, <1>1, FindOfNone
    <2> QED BY <1>0, <2>1, SlotsAre
  <1>5. k \in DOMAIN Slots /\ (Slots[k] = None \/ Slots[k] \notin Kept)
    <2>1. lru[k] \notin locked  BY <1>2 DEF Victim
    <2>2. Slots[k] = sec[lru[k]] /\ k \in DOMAIN Slots  BY <1>0, <1>3, SlotsAre
    <2> QED BY <1>3, <2>1, <2>2, KeptIsLocked
  <1>6. ASSUME NEW j \in k + 1 .. Size PROVE Slots[j] # None /\ Slots[j] \in Kept
    <2>1. lru[j] \in locked  BY <1>2 DEF Victim
    <2>2. j \in 1 .. Size  BY <1>3, SizeIsNat
    <2>3. Slots[j] = sec[lru[j]]  BY <1>0, <2>2, SlotsAre
    <2> QED BY <2>1, <2>3, LockedIsKept
  <1>7. \A b \in Bufs : sec'[b] = IF b = lru[k] THEN (IF ok THEN s ELSE None) ELSE sec[b]
    BY <1>0, <1>2, <1>3 DEF SearchInv, SecOK
  <1>8. \/ Slots' = <<s>> \o SC!RemoveAt(Slots, k)
        \/ Slots' = Append(SC!RemoveAt(Slots, k), None)
    <2>1. CASE ok
      <3>1. /\ lru' = MoveToMru(lru[k]) /\ s \in Sectors \cup {None}
            /\ \A b \in Bufs : sec'[b] = IF b = lru[k] THEN s ELSE sec[b]
        BY <1>2, <1>7, <2>1
      <3>2. Slots' = <<s>> \o Without(Slots, k)
        BY <1>0, <1>3, <3>1, SlotsToFront
      <3> QED BY <1>0, <1>3, <3>2, SlotsRemoved
    <2>2. CASE ~ok
      <3>1. /\ lru' = MoveToLru(lru[k]) /\ None \in Sectors \cup {None}
            /\ \A b \in Bufs : sec'[b] = IF b = lru[k] THEN None ELSE sec[b]
        BY <1>2, <1>7, <2>2
      <3>2. Slots' = Append(Without(Slots, k), None)
        BY <1>0, <1>3, <3>1, SlotsToEnd
      <3> QED BY <1>0, <1>3, <3>2, SlotsRemoved
    <2> QED BY <2>1, <2>2
  <1>9. Kept' = Kept
    <2>1. locked \subseteq Bufs  BY <1>0 DEF LockInv, LocksOK
    <2>2. \A b \in locked : sec'[b] = sec[b]
      BY <1>0, <2>1, MissKeepsLocked
    <2> QED BY <1>1, <2>1, <2>2, KeptStays
  <1> QED
    BY <1>4, <1>5, <1>6, <1>8, <1>9 DEF SC!Miss, SC!ToFront, SC!ToEnd, Slots, Kept

LEMMA SlotsSame ==
  ASSUME UNCHANGED <<lru, sec>>
  PROVE  Slots' = Slots
  BY DEF Slots

LEMMA LockIsLock ==
  ASSUME CacheInv, ~torn, Lock
  PROVE  \E s \in Sectors : SC!Lock(s)
  <1>0. SearchInv /\ LockInv /\ LocksOK  BY DEF CacheInv, LockInv
  <1>1. /\ ~Idle /\ ~Top.held /\ UNCHANGED <<lru, sec>>
        /\ locked' = locked \cup ({Find(Top.sec)} \cap Bufs)
    BY DEF Lock
  <1>2. Top.sec \in Sectors  BY <1>0, <1>1, WorkIs DEF LockInv
  <1>3. PICK c \in Bufs : sec[c] = Top.sec  BY <1>0, <1>1 DEF LocksOK
  <1>4. Find(Top.sec) = c /\ locked' = locked \cup {c}
    BY <1>0, <1>1, <1>2, <1>3, HoldsIsFound
  <1>5. Slots' = Slots  BY <1>1, SlotsSame
  <1>6. Kept' = Kept \cup {Top.sec}  BY <1>1, <1>3, <1>4 DEF Kept
  <1>7. PICK k \in 1 .. Size : lru[k] = c
    BY <1>0, <1>4, FoundIsInList DEF SearchInv
  <1>8. k \in DOMAIN Slots /\ Slots[k] = Top.sec  BY <1>0, <1>3, <1>7, SlotsAre
  <1>9. PICK s \in Sectors : s = Top.sec  BY <1>2
  <1>10. SC!Lock(s)  BY <1>5, <1>6, <1>8, <1>9 DEF SC!Lock, Slots, Kept
  <1> QED BY <1>10

LEMMA FinishIsUnlock ==
  ASSUME CacheInv, ~torn, Finish
  PROVE  (\E s \in Sectors : SC!Unlock(s)) \/ UNCHANGED <<Slots, Kept>>
  <1>0. SearchInv /\ LockInv /\ LocksOK  BY DEF CacheInv, LockInv
  <1>1. /\ ~Idle /\ UNCHANGED <<lru, sec>>
        /\ locked' = IF Top.held THEN locked \ {Find(Top.sec)} ELSE locked
    BY DEF Finish
  <1>2. PICK s \in Sectors : s = Top.sec  BY <1>0, <1>1, WorkIs DEF LockInv
  <1>3. Slots' = Slots  BY <1>1, SlotsSame
  <1>4. CASE Top.held
    <2>1. \A b \in locked : b = Find(s) <=> sec[b] = s
      BY <1>0, FoundHas, HoldsIsFound DEF LocksOK
    <2>2. locked' = {b \in locked : sec[b] # s}  BY <1>1, <1>2, <1>4, <2>1
    <2>3. Kept' = Kept \ {s}  BY <1>1, <2>2 DEF Kept
    <2>4. SC!Unlock(s)  BY <1>3, <2>3 DEF SC!Unlock, Slots, Kept
    <2> QED BY <2>4
  <1>5. CASE ~Top.held
    <2>1. Kept' = Kept  BY <1>1, <1>5 DEF Kept
    <2> QED BY <1>3, <2>1
  <1> QED BY <1>4, <1>5

LEMMA ReleaseIsRelease ==
  ASSUME CacheInv, SearchInv', ~torn, NEW s \in Sectors, Release(s)
  PROVE  SC!Release(s)
  <1>0. SearchInv /\ LockInv  BY DEF CacheInv
  <1>1. /\ Find(s) \in Bufs /\ Idle /\ lru' = MoveToLru(Find(s))
        /\ sec' = [sec EXCEPT ![Find(s)] = None] /\ locked' = locked \ {Find(s)}
    BY DEF Release
  <1>2. PICK k \in 1 .. Size : lru[k] = Find(s)
    BY <1>0, <1>1, FoundIsInList DEF SearchInv
  <1>3. sec[lru[k]] = s  BY <1>0, <1>1, <1>2, FoundHas
  <1>4. \A b \in Bufs : sec'[b] = IF b = lru[k] THEN None ELSE sec[b]
    BY <1>0, <1>1, <1>2 DEF SearchInv, SecOK
  <1>5. Slots' = Append(Without(Slots, k), None)
    <2>1. None \in Sectors \cup {None} /\ lru' = MoveToLru(lru[k])  BY <1>1, <1>2
    <2> QED BY <1>0, <1>4, <2>1, SlotsToEnd
  <1>6. k \in DOMAIN Slots /\ Slots[k] = s  BY <1>0, <1>3, SlotsAre
  <1>7. Slots' = Append(SC!RemoveAt(Slots, k), None)
    BY <1>0, <1>5, SlotsRemoved
  <1>8. locked = {} /\ locked' = {}  BY <1>0, <1>1, IdleLocksNone
  <1>9. Kept' = Kept  BY <1>8 DEF Kept
  <1> QED BY <1>6, <1>7, <1>9 DEF SC!Release, SC!ToEnd, Slots, Kept

LEMMA EmptyIsClear ==
  ASSUME SearchInv', sec' = [b \in Bufs |-> None], locked' = {}
  PROVE  SC!Clear
  <1>1. \A k \in 1 .. Size : lru'[k] \in Bufs
    BY ElementOfSeq DEF SearchInv, AllOnce
  <1>2. Slots' = [k \in 1 .. Size |-> None]  BY <1>1 DEF Slots
  <1>3. Kept' = {}  BY DEF Kept
  <1> QED BY <1>2, <1>3 DEF SC!Clear, Slots, Kept

LEMMA NextKeepsLastUsed ==
  ASSUME CacheInv, SearchInv', LockInv', [Next]_vars
  PROVE  [SC!Next \/ torn']_(SC!vars)
  <1>0. SearchInv /\ LockInv  BY DEF CacheInv
  <1>1. \A s \in Sectors : SC!Hit(s) \/ SC!Miss(s) \/ SC!Lock(s) \/ SC!Unlock(s) \/ SC!Release(s) => SC!Next
    BY DEF SC!Next
  <1>2. SC!Clear => SC!Next  BY DEF SC!Next
  <1>3. UNCHANGED <<Slots, Kept>> => UNCHANGED SC!vars
    BY DEF SC!vars, Slots, Kept
  <1>4. ASSUME NEW s \in Sectors, GetEntry(s), ~torn' PROVE SC!Next
    <2>1. Hit(s) \/ \E ok \in BOOLEAN : Miss(s, ok)
      BY <1>4 DEF GetEntry
    <2>2. ~torn  BY <1>4, <2>1 DEF Hit, Miss
    <2>3. SC!Hit(s) \/ SC!Miss(s)  BY <2>1, <2>2, HitIsHit, MissIsMiss
    <2> QED BY <1>1, <2>3
  <1>5. ASSUME NEW s \in Sectors, Release(s), ~torn' PROVE SC!Next
    <2>1. ~torn  BY <1>5 DEF Release
    <2> QED BY <1>1, <1>5, <2>1, ReleaseIsRelease
  <1>6. ASSUME Lock, ~torn' PROVE SC!Next
    <2>1. ~torn  BY <1>6 DEF Lock
    <2> QED BY <1>1, <1>6, <2>1, LockIsLock
  <1>7. ASSUME Finish, ~torn' PROVE SC!Next \/ UNCHANGED SC!vars
    <2>1. ~torn  BY <1>7 DEF Finish
    <2> QED BY <1>1, <1>3, <1>7, <2>1, FinishIsUnlock
  <1>8. CASE ReleaseAll  BY <1>2, <1>8, EmptyIsClear DEF ReleaseAll
  <1>9. CASE Mount  BY <1>2, <1>9, EmptyIsClear DEF Mount
  <1>10. CASE UNCHANGED vars
    <2>1. Slots' = Slots /\ Kept' = Kept  BY <1>10, SlotsSame DEF vars, cache, Kept
    <2> QED BY <1>3, <2>1
  <1> QED BY <1>4, <1>5, <1>6, <1>7, <1>8, <1>9, <1>10 DEF Next

LEMMA InitKeepsLastUsed == Init => SC!Init
  <1> SUFFICES ASSUME Init PROVE SC!Init
    OBVIOUS
  <1>1. SearchInv  BY EmptySearch DEF Init
  <1>2. \A k \in 1 .. Size : lru[k] \in Bufs  BY <1>1, SlotsAre
  <1> QED BY <1>2 DEF Init, SC!Init

(* Whatever is read, fails to be read, locked and released, the buffers    *)
(* are the abstract cache of the sectors used last, which drops none that  *)
(* is locked (buf_cache_get, move_to_mru, move_to_lru, buf_release), but   *)
(* for the steps after a buffer was taken out of a list it is not in.      *)
THEOREM CacheKeepsLastUsed == Spec => KeepsLastUsed
  <1>1. CacheInv /\ CacheInv' /\ [Next]_vars => [SC!Next \/ torn']_(SC!vars)
    BY NextKeepsLastUsed DEF CacheInv
  <1> QED BY <1>1, InitKeepsLastUsed, CacheInvHolds, PTL DEF Spec, KeepsLastUsed

=============================================================================
