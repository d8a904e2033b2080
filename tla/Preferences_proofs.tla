------------------------- MODULE Preferences_proofs -------------------------
(***************************************************************************)
(* Proofs about the key-value table, for every number of objects,          *)
(* namespaces, keys and values, every length of each, and every size of    *)
(* the region.                                                             *)
(***************************************************************************)
EXTENDS Preferences, FiniteSetTheorems, SequenceTheorems, TLAPS

(* The bytes that entries I occupy, one by one. *)
Cells(s, I) == UNION {{i} \X (1 .. Size(s[i])) : i \in I}

LEMMA SizeType ==
  ASSUME NEW e \in Entries
  PROVE  Size(e) \in Nat /\ Size(e) >= 4
  BY SizesAssumption DEF Size, Entries

LEMMA CellsMembers ==
  ASSUME NEW s, NEW I, NEW i, NEW b
  PROVE  <<i, b>> \in Cells(s, I) <=> i \in I /\ b \in 1 .. Size(s[i])
  BY DEF Cells

LEMMA CellsArePairs ==
  ASSUME NEW s, NEW I, NEW c \in Cells(s, I)
  PROVE  \E i \in I : \E b \in 1 .. Size(s[i]) : c = <<i, b>>
  BY DEF Cells

LEMMA CellsFinite ==
  ASSUME NEW s \in Seq(Entries), NEW I \in SUBSET DOMAIN s
  PROVE  /\ IsFiniteSet(I)
         /\ IsFiniteSet(Cells(s, I))
         /\ BytesAt(s, I) = Cardinality(Cells(s, I))
         /\ BytesAt(s, I) \in Nat
  <1> DEFINE Of(i) == {i} \X (1 .. Size(s[i]))
             T == {Of(i) : i \in I}
             f == [i \in I |-> Of(i)]
  <1>1. IsFiniteSet(DOMAIN s)
    BY FS_Interval
  <1>2. IsFiniteSet(I)
    BY <1>1, FS_Subset
  <1>3. IsFiniteSet(T)
    <2>1. f \in Surjection(I, T)
      BY DEF Surjection
    <2> HIDE DEF f, T
    <2> QED
      BY <1>2, <2>1, FS_Surjection
  <1>4. \A t \in T : IsFiniteSet(t)
    <2> SUFFICES ASSUME NEW i \in I PROVE IsFiniteSet(Of(i))
      OBVIOUS
    <2>1. Size(s[i]) \in Nat
      BY SizeType
    <2>2. IsFiniteSet(1 .. Size(s[i]))
      BY <2>1, FS_Interval
    <2> QED
      BY <2>2, FS_Singleton, FS_Product
  <1>5. IsFiniteSet(UNION T)
    <2> HIDE DEF T
    <2> QED
      BY <1>3, <1>4, FS_UNION
  <1>6. BytesAt(s, I) = Cardinality(Cells(s, I)) /\ IsFiniteSet(Cells(s, I))
    BY <1>5 DEF BytesAt, Cells
  <1> QED
    BY <1>2, <1>6, FS_CardinalityType

(* Fewer entries, of the same sizes, occupy no more. *)
LEMMA FewerBytes ==
  ASSUME NEW r \in Seq(Entries), NEW I \in SUBSET DOMAIN r,
         NEW s \in Seq(Entries), NEW J \in SUBSET DOMAIN s,
         I \subseteq J, \A i \in I : Size(r[i]) = Size(s[i])
  PROVE  BytesAt(r, I) <= BytesAt(s, J)
  <1>1. Cells(r, I) \subseteq Cells(s, J)
    <2> SUFFICES ASSUME NEW c \in Cells(r, I) PROVE c \in Cells(s, J)
      OBVIOUS
    <2>1. PICK i \in I : \E b \in 1 .. Size(r[i]) : c = <<i, b>>
      BY CellsArePairs
    <2>2. PICK b \in 1 .. Size(r[i]) : c = <<i, b>>
      BY <2>1
    <2> QED
      BY <2>2, CellsMembers
  <1>2. IsFiniteSet(Cells(s, J)) /\ BytesAt(s, J) = Cardinality(Cells(s, J))
    BY CellsFinite
  <1>3. BytesAt(r, I) = Cardinality(Cells(r, I))
    BY CellsFinite
  <1> QED
    BY <1>1, <1>2, <1>3, FS_Subset

(* Entries that are moved occupy the same. *)
LEMMA MovedBytes ==
  ASSUME NEW r \in Seq(Entries), NEW s \in Seq(Entries), NEW J \in SUBSET DOMAIN s,
         NEW g \in Bijection(DOMAIN r, J), \A i \in DOMAIN r : r[i] = s[g[i]]
  PROVE  BytesOf(r) = BytesAt(s, J)
  <1> DEFINE A == Cells(r, DOMAIN r)
             B == Cells(s, J)
             h == [c \in A |-> <<g[c[1]], c[2]>>]
  <1>1. /\ g \in [DOMAIN r -> J]
        /\ \A i, j \in DOMAIN r : g[i] = g[j] => i = j
        /\ \A j \in J : \E i \in DOMAIN r : g[i] = j
    BY DEF Bijection, Injection, Surjection, IsInjective
  <1>2. ASSUME NEW c \in A
        PROVE  /\ c = <<c[1], c[2]>>
               /\ c[1] \in DOMAIN r /\ c[2] \in 1 .. Size(s[g[c[1]]])
    <2>1. PICK i \in DOMAIN r : \E b \in 1 .. Size(r[i]) : c = <<i, b>>
      BY CellsArePairs
    <2> QED
      BY <2>1
  <1>3. h \in [A -> B]
    <2> SUFFICES ASSUME NEW c \in A PROVE <<g[c[1]], c[2]>> \in B
      OBVIOUS
    <2>1. g[c[1]] \in J /\ c[2] \in 1 .. Size(s[g[c[1]]])
      BY <1>1, <1>2
    <2> QED
      BY <2>1, CellsMembers
  <1>4. \A c, d \in A : h[c] = h[d] => c = d
    <2> SUFFICES ASSUME NEW c \in A, NEW d \in A, h[c] = h[d] PROVE c = d
      OBVIOUS
    <2>1. g[c[1]] = g[d[1]] /\ c[2] = d[2]
      OBVIOUS
    <2>2. c[1] = d[1]
      BY <1>1, <1>2, <2>1
    <2> QED
      BY <1>2, <2>1, <2>2
  <1>5. \A d \in B : \E c \in A : h[c] = d
    <2> SUFFICES ASSUME NEW d \in B PROVE \E c \in A : h[c] = d
      OBVIOUS
    <2>1. PICK j \in J : \E b \in 1 .. Size(s[j]) : d = <<j, b>>
      BY CellsArePairs
    <2>2. PICK b \in 1 .. Size(s[j]) : d = <<j, b>>
      BY <2>1
    <2>3. PICK i \in DOMAIN r : g[i] = j
      BY <1>1
    <2>4. <<i, b>> \in A
      BY <2>2, <2>3, CellsMembers
    <2> QED
      BY <2>2, <2>3, <2>4
  <1>6. h \in Bijection(A, B)
    BY <1>3, <1>4, <1>5 DEF Bijection, Injection, Surjection, IsInjective
  <1>7. IsFiniteSet(A) /\ BytesOf(r) = Cardinality(A) /\ BytesAt(s, J) = Cardinality(B)
    BY CellsFinite DEF BytesOf
  <1>8. Cardinality(B) = Cardinality(A)
    <2> HIDE DEF A, B, h
    <2> QED
      BY <1>6, <1>7, FS_Bijection DEF ExistsBijection
  <1> QED
    BY <1>7, <1>8

LEMMA AppendedBytes ==
  ASSUME NEW s \in Seq(Entries), NEW e \in Entries
  PROVE  BytesOf(Append(s, e)) = BytesOf(s) + Size(e)
  <1>a. PICK r : r = Append(s, e)
    OBVIOUS
  <1>b. PICK n : n = Len(s) + 1
    OBVIOUS
  <1> DEFINE A == Cells(s, DOMAIN s)
             B == {n} \X (1 .. Size(e))
  <1>1. /\ r \in Seq(Entries) /\ DOMAIN r = 1 .. n /\ DOMAIN s = 1 .. n - 1
        /\ n \in Nat /\ n >= 1 /\ r[n] = e /\ \A i \in DOMAIN s : r[i] = s[i]
    BY <1>a, <1>b
  <1>2. Cells(r, DOMAIN r) = A \cup B
    <2>1. ASSUME NEW c \in Cells(r, DOMAIN r) PROVE c \in A \cup B
      <3>1. PICK i \in DOMAIN r : \E b \in 1 .. Size(r[i]) : c = <<i, b>>
        BY CellsArePairs
      <3>2. PICK b \in 1 .. Size(r[i]) : c = <<i, b>>
        BY <3>1
      <3>3. CASE i = n
        BY <3>2, <3>3, <1>1
      <3>4. CASE i # n
        <4>1. i \in DOMAIN s /\ b \in 1 .. Size(s[i])
          BY <3>2, <3>4, <1>1
        <4> QED
          BY <3>2, <4>1, CellsMembers
      <3> QED
        BY <3>3, <3>4
    <2>2. ASSUME NEW c \in A PROVE c \in Cells(r, DOMAIN r)
      <3>1. PICK i \in DOMAIN s : \E b \in 1 .. Size(s[i]) : c = <<i, b>>
        BY CellsArePairs
      <3>2. PICK b \in 1 .. Size(s[i]) : c = <<i, b>>
        BY <3>1
      <3>3. i \in DOMAIN r /\ b \in 1 .. Size(r[i])
        BY <3>2, <1>1
      <3> QED
        BY <3>2, <3>3, CellsMembers
    <2>3. ASSUME NEW c \in B PROVE c \in Cells(r, DOMAIN r)
      <3>1. PICK b \in 1 .. Size(e) : c = <<n, b>>
        OBVIOUS
      <3>2. n \in DOMAIN r /\ b \in 1 .. Size(r[n])
        BY <3>1, <1>1
      <3> QED
        BY <3>1, <3>2, CellsMembers
    <2> QED
      BY <2>1, <2>2, <2>3
  <1>3. A \cap B = {}
    <2> SUFFICES ASSUME NEW c \in A, c \in B PROVE FALSE
      OBVIOUS
    <2>1. PICK i \in DOMAIN s : \E b \in 1 .. Size(s[i]) : c = <<i, b>>
      BY CellsArePairs
    <2> QED
      BY <2>1, <1>1
  <1>4. Size(e) \in Nat
    BY SizeType
  <1>5. IsFiniteSet(B) /\ Cardinality(B) = Size(e)
    <2>1. IsFiniteSet(1 .. Size(e)) /\ Cardinality(1 .. Size(e)) = Size(e)
      BY <1>4, FS_Interval
    <2>2. IsFiniteSet({n}) /\ Cardinality({n}) = 1
      BY FS_Singleton
    <2> QED
      BY <1>4, <2>1, <2>2, FS_Product
  <1>6. IsFiniteSet(A) /\ BytesOf(s) = Cardinality(A) /\ BytesOf(s) \in Nat
    BY CellsFinite DEF BytesOf
  <1>7. BytesOf(r) = Cardinality(Cells(r, DOMAIN r))
    BY <1>1, CellsFinite DEF BytesOf
  <1>8. Cardinality(A \cup B) = Cardinality(A) + Cardinality(B) - Cardinality({})
    <2> HIDE DEF A, B
    <2> QED
      BY <1>3, <1>5, <1>6, FS_Union
  <1>9. BytesOf(r) = BytesOf(s) + Size(e)
    <2>1. BytesOf(r) = Cardinality(A \cup B)
      BY <1>2, <1>7, Zenon
    <2>2. Cardinality({}) = 0
      BY FS_EmptySet
    <2> HIDE DEF A, B
    <2> QED
      BY <1>4, <1>5, <1>6, <1>8, <2>1, <2>2
  <1> QED
    BY <1>a, <1>9

-----------------------------------------------------------------------------
(* Compaction: the kept entries have places 1, 2, ... without a gap, so    *)
(* that it moves each of them and nothing else.                            *)
LEMMA KeptFinite ==
  ASSUME NEW s \in Seq(Entries)
  PROVE  /\ Kept(s) \in SUBSET DOMAIN s
         /\ IsFiniteSet(Kept(s)) /\ Cardinality(Kept(s)) \in Nat
  <1>1. Kept(s) \in SUBSET DOMAIN s
    BY DEF Kept
  <1>2. IsFiniteSet(Kept(s))
    BY <1>1, CellsFinite
  <1> QED
    BY <1>1, <1>2, FS_CardinalityType

LEMMA PlaceType ==
  ASSUME NEW s \in Seq(Entries), NEW i \in Kept(s)
  PROVE  Place(s, i) \in 1 .. Cardinality(Kept(s))
  <1> DEFINE K == Kept(s)
             L == {j \in K : j <= i}
  <1>1. IsFiniteSet(K) /\ Cardinality(K) \in Nat /\ i \in Nat
    BY KeptFinite
  <1>2. IsFiniteSet(L) /\ Cardinality(L) <= Cardinality(K)
    BY <1>1, FS_Subset
  <1>3. i \in L
    BY <1>1
  <1>4. Cardinality(L) # 0 /\ Cardinality(L) \in Nat
    BY <1>2, <1>3, FS_EmptySet, FS_CardinalityType
  <1>5. Place(s, i) = Cardinality(L)
    BY DEF Place
  <1> HIDE DEF L
  <1> QED
    BY <1>1, <1>2, <1>4, <1>5

LEMMA PlaceDistinct ==
  ASSUME NEW s \in Seq(Entries), NEW i \in Kept(s), NEW j \in Kept(s), i < j
  PROVE  Place(s, i) # Place(s, j)
  <1> DEFINE L == {h \in Kept(s) : h <= i}
             M == {h \in Kept(s) : h <= j}
  <1>1. i \in Nat /\ j \in Nat /\ \A h \in Kept(s) : h \in Nat
    BY KeptFinite
  <1>2. IsFiniteSet(M)
    BY KeptFinite, FS_Subset
  <1>3. L \in SUBSET M /\ j \in M /\ j \notin L
    <2>1. \A h \in Kept(s) : h <= i => h <= j
      BY <1>1
    <2>2. j <= j /\ ~(j <= i)
      BY <1>1
    <2> QED
      BY <2>1, <2>2
  <1>4. Cardinality(L) # Cardinality(M)
    <2> HIDE DEF L, M
    <2> QED
      BY <1>2, <1>3, FS_Subset
  <1> QED
    BY <1>4 DEF Place

LEMMA PlaceOnto ==
  ASSUME NEW s \in Seq(Entries), NEW n \in 1 .. Cardinality(Kept(s))
  PROVE  \E i \in Kept(s) : Place(s, i) = n
  <1> DEFINE K == Kept(s)
             T == 1 .. Cardinality(K)
             f == [i \in K |-> Place(s, i)]
  <1>1. IsFiniteSet(K) /\ Cardinality(K) \in Nat /\ \A i \in K : i \in Nat
    BY KeptFinite
  <1>2. f \in [K -> T]
    BY PlaceType
  <1>3. \A i, j \in K : f[i] = f[j] => i = j
    BY <1>1, PlaceDistinct
  <1>4. f \in Injection(K, T)
    BY <1>2, <1>3 DEF Injection, IsInjective
  <1>5. IsFiniteSet(T) /\ Cardinality(T) = Cardinality(K)
    BY <1>1, FS_Interval
  <1>6. f \in Surjection(K, T)
    <2> HIDE DEF f, K, T
    <2> QED
      BY <1>4, <1>5, FS_Injection
  <1> QED
    BY <1>6 DEF Surjection

LEMMA PackedIs ==
  ASSUME NEW s \in Seq(Entries)
  PROVE  /\ Packed(s) \in Seq(Entries)
         /\ \E g \in Bijection(DOMAIN Packed(s), Kept(s)) :
              \A n \in DOMAIN Packed(s) : Packed(s)[n] = s[g[n]]
  <1> DEFINE m == Cardinality(Kept(s))
             g == [n \in 1 .. m |-> CHOOSE i \in Kept(s) : Place(s, i) = n]
  <1>1. m \in Nat /\ Kept(s) \subseteq DOMAIN s
    BY KeptFinite
  <1>2. ASSUME NEW n \in 1 .. m
        PROVE  g[n] \in Kept(s) /\ Place(s, g[n]) = n
    BY PlaceOnto
  <1>3. \A i, j \in Kept(s) : Place(s, i) = Place(s, j) => i = j
    BY <1>1, PlaceDistinct
  <1>4. \A i \in Kept(s) : \E n \in 1 .. m : g[n] = i
    <2> SUFFICES ASSUME NEW i \in Kept(s) PROVE \E n \in 1 .. m : g[n] = i
      OBVIOUS
    <2>1. Place(s, i) \in 1 .. m
      BY PlaceType
    <2>2. g[Place(s, i)] = i
      BY <1>2, <1>3, <2>1
    <2> QED
      BY <2>1, <2>2
  <1>5. g \in Bijection(1 .. m, Kept(s))
    <2>1. g \in [1 .. m -> Kept(s)]
      BY <1>2
    <2>2. \A n, o \in 1 .. m : g[n] = g[o] => n = o
      <3> SUFFICES ASSUME NEW n \in 1 .. m, NEW o \in 1 .. m, g[n] = g[o] PROVE n = o
        OBVIOUS
      <3>1. Place(s, g[n]) = n /\ Place(s, g[o]) = o
        BY <1>2
      <3> HIDE DEF g
      <3> QED
        BY <3>1
    <2> HIDE DEF g
    <2> QED
      BY <1>4, <2>1, <2>2 DEF Bijection, Injection, Surjection, IsInjective
  <1>6. Packed(s) = [n \in 1 .. m |-> s[g[n]]]
    BY DEF Packed
  <1>7. \A n \in 1 .. m : s[g[n]] \in Entries
    <2> HIDE DEF g
    <2> QED
      BY <1>1, <1>2
  <1> HIDE DEF g, m
  <1>8. DOMAIN Packed(s) = 1 .. m /\ \A n \in 1 .. m : Packed(s)[n] = s[g[n]]
    BY <1>6
  <1>9. Packed(s) \in Seq(Entries)
    BY <1>1, <1>6, <1>7
  <1> QED
    BY <1>5, <1>8, <1>9

LEMMA PackedBytes ==
  ASSUME NEW s \in Seq(Entries)
  PROVE  /\ BytesOf(Packed(s)) = BytesAt(s, Kept(s))
         /\ BytesOf(Packed(s)) <= BytesOf(s)
  <1>1. BytesOf(Packed(s)) = BytesAt(s, Kept(s))
    BY PackedIs, MovedBytes, KeptFinite
  <1>2. BytesAt(s, Kept(s)) <= BytesOf(s)
    BY FewerBytes, KeptFinite DEF BytesOf
  <1> QED
    BY <1>1, <1>2

-----------------------------------------------------------------------------
(* What a get reads, where a key has one live entry at most. *)
OnePerKey(t) ==
    \A k \in Keys : \A i, j \in DOMAIN t.entries :
        IsLive(t, k, i) /\ IsLive(t, k, j) => i = j

ValueOf(e) == IF e.st = "live" THEN e.val ELSE Damaged

LEMMA OnePerKeyInBoth ==
  OneEntryPerKey <=> OnePerKey(flash) /\ OnePerKey(buf)
  BY DEF OneEntryPerKey, OnePerKey

LEMMA FirstIs ==
  ASSUME NEW t \in Tables, OnePerKey(t), NEW k \in Keys,
         NEW i \in DOMAIN t.entries, IsLive(t, k, i)
  PROVE  /\ Found(t, k) /\ First(t, k) = i
         /\ Lookup(t, k) = ValueOf(t.entries[i])
  <1>1. t.entries \in Seq(Entries)
    BY DEF Tables
  <1>2. \A j \in DOMAIN t.entries : IsLive(t, k, j) => j = i
    BY DEF OnePerKey
  <1>3. \A j \in 1 .. i - 1 : j \in DOMAIN t.entries /\ j # i
    BY <1>1
  <1>4. IsLive(t, k, i) /\ \A j \in 1 .. i - 1 : ~IsLive(t, k, j)
    BY <1>2, <1>3
  <1>5. First(t, k) = i
    BY <1>2, <1>4, Zenon DEF First
  <1>6. Found(t, k)
    BY DEF Found
  <1> QED
    BY <1>5, <1>6 DEF Lookup, ValueOf

(* Every live entry of t has one in u with the same value. *)
Carried(t, u, k) ==
    \A i \in DOMAIN t.entries : IsLive(t, k, i) =>
        \E j \in DOMAIN u.entries :
            IsLive(u, k, j) /\ ValueOf(u.entries[j]) = ValueOf(t.entries[i])

LEMMA CarriedLookup ==
  ASSUME NEW t \in Tables, NEW u \in Tables, OnePerKey(t), OnePerKey(u),
         NEW k \in Keys, Carried(t, u, k), Found(t, k)
  PROVE  Found(u, k) /\ Lookup(u, k) = Lookup(t, k)
  <1>1. PICK i \in DOMAIN t.entries : IsLive(t, k, i)
    BY DEF Found
  <1>2. PICK j \in DOMAIN u.entries :
          IsLive(u, k, j) /\ ValueOf(u.entries[j]) = ValueOf(t.entries[i])
    BY <1>1 DEF Carried
  <1>3. Lookup(t, k) = ValueOf(t.entries[i])
    BY <1>1, FirstIs
  <1>4. Found(u, k) /\ Lookup(u, k) = ValueOf(u.entries[j])
    BY <1>2, FirstIs
  <1> QED
    BY <1>2, <1>3, <1>4

LEMMA SameContents ==
  ASSUME NEW t \in Tables, NEW u \in Tables, OnePerKey(t), OnePerKey(u),
         t.ns = u.ns, \A k \in Keys : Carried(t, u, k) /\ Carried(u, t, k)
  PROVE  /\ Contents(t) = Contents(u)
         /\ \A k \in Keys : Found(t, k) <=> Found(u, k)
  <1>1. \A k \in Keys : Found(t, k) <=> Found(u, k)
    BY CarriedLookup
  <1>2. \A k \in Keys : Found(t, k) => Lookup(u, k) = Lookup(t, k)
    BY CarriedLookup
  <1>3. MapOf(t) = MapOf(u)
    BY <1>1, <1>2 DEF MapOf
  <1> QED
    BY <1>1, <1>3 DEF Contents

LEMMA TableType ==
  ASSUME NEW n \in Names \cup {NoName}, NEW s \in Seq(Entries), NEW c \in BOOLEAN
  PROVE  /\ Table(n, s, c) \in Tables
         /\ Table(n, s, c).ns = n /\ Table(n, s, c).entries = s
         /\ Table(n, s, c).closed = c
  BY DEF Table, Tables

NoneDead(t) == \A i \in DOMAIN t.entries : t.entries[i].st # "dead"

LEMMA Compacting ==
  ASSUME NEW t \in Tables, OnePerKey(t)
  PROVE  /\ Compact(t) \in Tables /\ Compact(t).closed /\ Compact(t).ns = t.ns
         /\ OnePerKey(Compact(t)) /\ NoneDead(Compact(t))
         /\ Contents(Compact(t)) = Contents(t)
         /\ \A k \in Keys : Found(Compact(t), k) <=> Found(t, k)
         /\ BytesOf(Compact(t).entries) = BytesAt(t.entries, Kept(t.entries))
         /\ BytesOf(Compact(t).entries) <= BytesOf(t.entries)
  <1>a. PICK s : s = t.entries
    OBVIOUS
  <1>b. PICK c : c = Compact(t)
    OBVIOUS
  <1>c. PICK r : r = Packed(s)
    OBVIOUS
  <1>1. s \in Seq(Entries) /\ t.ns \in Names \cup {NoName}
    BY <1>a DEF Tables
  <1>2. /\ r \in Seq(Entries)
        /\ \E g \in Bijection(DOMAIN r, Kept(s)) :
             \A n \in DOMAIN r : r[n] = s[g[n]]
    BY <1>1, <1>c, PackedIs
  <1>3. PICK g \in Bijection(DOMAIN r, Kept(s)) : \A n \in DOMAIN r : r[n] = s[g[n]]
    BY <1>2
  <1>4. /\ \A n \in DOMAIN r : g[n] \in Kept(s)
        /\ \A n, o \in DOMAIN r : g[n] = g[o] => n = o
        /\ \A i \in Kept(s) : \E n \in DOMAIN r : g[n] = i
    BY DEF Bijection, Injection, Surjection, IsInjective
  <1>5. c = Table(t.ns, r, TRUE)
    BY <1>a, <1>b, <1>c DEF Compact
  <1>6. c \in Tables /\ c.closed /\ c.ns = t.ns /\ c.entries = r
    BY <1>1, <1>2, <1>5, TableType
  <1>7. \A i \in DOMAIN s : i \in Kept(s) <=> s[i].st # "dead"
    BY DEF Kept
  <1>8. Kept(s) \subseteq DOMAIN s
    BY DEF Kept
  <1>9. ASSUME NEW k \in Keys, NEW n \in DOMAIN r
        PROVE  IsLive(c, k, n) <=> IsLive(t, k, g[n])
    BY <1>a, <1>3, <1>6 DEF IsLive
  <1>10. ASSUME NEW k \in Keys, NEW i \in DOMAIN s, IsLive(t, k, i)
         PROVE  \E n \in DOMAIN r : g[n] = i
    BY <1>a, <1>4, <1>7, <1>10 DEF IsLive
  <1>11. OnePerKey(c)
    <2> SUFFICES ASSUME NEW k \in Keys, NEW n \in DOMAIN r, NEW o \in DOMAIN r,
                        IsLive(c, k, n), IsLive(c, k, o)
                 PROVE  n = o
      BY <1>6 DEF OnePerKey
    <2>1. IsLive(t, k, g[n]) /\ IsLive(t, k, g[o])
      BY <1>9
    <2>2. g[n] \in DOMAIN t.entries /\ g[o] \in DOMAIN t.entries
      BY <1>a, <1>4, <1>8
    <2>3. g[n] = g[o]
      BY <2>1, <2>2 DEF OnePerKey
    <2> QED
      BY <1>4, <2>3
  <1>12. ASSUME NEW k \in Keys
         PROVE  Carried(t, c, k) /\ Carried(c, t, k)
    <2>1. Carried(t, c, k)
      <3> SUFFICES ASSUME NEW i \in DOMAIN t.entries, IsLive(t, k, i)
                   PROVE  \E j \in DOMAIN c.entries :
                             /\ IsLive(c, k, j)
                             /\ ValueOf(c.entries[j]) = ValueOf(t.entries[i])
        BY DEF Carried
      <3>1. PICK n \in DOMAIN r : g[n] = i
        BY <1>a, <1>10
      <3>2. IsLive(c, k, n)
        BY <1>9, <3>1
      <3>3. c.entries[n] = t.entries[i]
        BY <1>a, <1>3, <1>6, <3>1
      <3> QED
        BY <1>6, <3>2, <3>3
    <2>2. Carried(c, t, k)
      <3> SUFFICES ASSUME NEW n \in DOMAIN c.entries, IsLive(c, k, n)
                   PROVE  \E i \in DOMAIN t.entries :
                             /\ IsLive(t, k, i)
                             /\ ValueOf(t.entries[i]) = ValueOf(c.entries[n])
        BY DEF Carried
      <3>1. n \in DOMAIN r /\ g[n] \in DOMAIN t.entries
        BY <1>a, <1>4, <1>6, <1>8
      <3>2. IsLive(t, k, g[n])
        BY <1>9, <3>1
      <3>3. c.entries[n] = t.entries[g[n]]
        BY <1>a, <1>3, <1>6, <3>1
      <3> QED
        BY <3>1, <3>2, <3>3
    <2> QED
      BY <2>1, <2>2
  <1>13. Contents(c) = Contents(t) /\ \A k \in Keys : Found(c, k) <=> Found(t, k)
    BY <1>6, <1>11, <1>12, SameContents
  <1>14. /\ BytesOf(c.entries) = BytesAt(t.entries, Kept(t.entries))
         /\ BytesOf(c.entries) <= BytesOf(t.entries)
    <2>1. BytesOf(r) = BytesAt(s, Kept(s)) /\ BytesOf(r) <= BytesOf(s)
      BY <1>1, <1>c, PackedBytes
    <2> QED
      BY <2>1, <1>6, <1>a
  <1>15. NoneDead(c)
    BY <1>3, <1>4, <1>6, <1>7, <1>8 DEF NoneDead
  <1> QED
    BY <1>b, <1>6, <1>11, <1>13, <1>14, <1>15

-----------------------------------------------------------------------------
(* The edits of the table are edits of the map. *)
LEMMA ContentsWithout ==
  ASSUME NEW t \in Tables, NEW u \in Tables, OnePerKey(t), OnePerKey(u),
         t.ns = u.ns, NEW k \in Keys, ~Found(u, k),
         \A j \in Keys \ {k} : Carried(t, u, j) /\ Carried(u, t, j)
  PROVE  Contents(u) = Store!Table(t.ns, Store!Without(MapOf(t), k))
  <1>1. \A j \in Keys \ {k} : Found(t, j) <=> Found(u, j)
    BY CarriedLookup
  <1>2. \A j \in Keys \ {k} : Found(t, j) => Lookup(u, j) = Lookup(t, j)
    BY CarriedLookup
  <1>3. MapOf(u) = Store!Without(MapOf(t), k)
    BY <1>1, <1>2 DEF MapOf, Store!Without
  <1> QED
    BY <1>3 DEF Contents, Store!Table

LEMMA ContentsWith ==
  ASSUME NEW t \in Tables, NEW u \in Tables, OnePerKey(t), OnePerKey(u),
         t.ns = u.ns, NEW k \in Keys, NEW v, Found(u, k), Lookup(u, k) = v,
         \A j \in Keys \ {k} : Carried(t, u, j) /\ Carried(u, t, j)
  PROVE  Contents(u) = Store!Table(t.ns, Store!With(MapOf(t), k, v))
  <1>1. \A j \in Keys \ {k} : Found(t, j) <=> Found(u, j)
    BY CarriedLookup
  <1>2. \A j \in Keys \ {k} : Found(t, j) => Lookup(u, j) = Lookup(t, j)
    BY CarriedLookup
  <1>3. MapOf(u) = Store!With(MapOf(t), k, v)
    BY <1>1, <1>2 DEF MapOf, Store!With
  <1> QED
    BY <1>3 DEF Contents, Store!Table

(* prefs_remove: only the key's one live entry dies, and no byte moves. *)
LEMMA Removing ==
  ASSUME NEW t \in Tables, OnePerKey(t), NEW k \in Keys
  PROVE  /\ Without(t, k) \in Tables /\ Without(t, k).ns = t.ns
         /\ OnePerKey(Without(t, k))
         /\ ~Found(Without(t, k), k)
         /\ BytesOf(Without(t, k).entries) = BytesOf(t.entries)
         /\ BytesAt(Without(t, k).entries, Kept(Without(t, k).entries))
               = LiveBytesBesides(t, k)
         /\ Contents(Without(t, k)) = Store!Table(t.ns, Store!Without(MapOf(t), k))
         /\ ~Found(t, k) => Without(t, k) = t
  <1>a. PICK u : u = Without(t, k)
    OBVIOUS
  <1>b. PICK s : s = t.entries
    OBVIOUS
  <1>1. s \in Seq(Entries) /\ t.ns \in Names \cup {NoName} /\ t.closed \in BOOLEAN
    BY <1>b DEF Tables
  <1>2. CASE ~Found(t, k)
    <2>1. u = t
      BY <1>a, <1>2 DEF Without
    <2>2. Kept(s) = {i \in Kept(s) : s[i].key # k}
      BY <1>2, <1>b DEF Kept, Found, IsLive
    <2>3. LiveBytesBesides(t, k) = BytesAt(s, Kept(s))
      BY <2>2, <1>b, Zenon DEF LiveBytesBesides
    <2>4. \A j \in Keys : Carried(t, t, j)
      BY DEF Carried
    <2>5. Contents(t) = Store!Table(t.ns, Store!Without(MapOf(t), k))
      BY <1>2, <2>4, ContentsWithout
    <2> QED
      BY <1>a, <1>b, <1>2, <2>1, <2>3, <2>5
  <1>3. CASE Found(t, k)
    <2>1. PICK i \in DOMAIN s : IsLive(t, k, i)
      BY <1>3, <1>b DEF Found
    <2>2. First(t, k) = i
      BY <2>1, <1>b, FirstIs
    <2>3. PICK r : r = [s EXCEPT ![i].st = "dead"]
      OBVIOUS
    <2>4. s[i] \in Entries /\ s[i].key = k
      BY <1>1, <2>1, <1>b DEF IsLive
    <2>5. [s[i] EXCEPT !.st = "dead"] \in Entries
      BY <2>4 DEF Entries
    <2>6. /\ r \in Seq(Entries) /\ DOMAIN r = DOMAIN s
          /\ r[i].st = "dead"
          /\ \A j \in DOMAIN s : r[j].key = s[j].key /\ r[j].val = s[j].val
          /\ \A j \in DOMAIN s : j # i => r[j] = s[j]
      BY <1>1, <2>1, <2>3, <2>4, <2>5 DEF Entries
    <2>7. u = [t EXCEPT !.entries[i].st = "dead"]
      BY <1>a, <1>3, <2>2 DEF Without
    <2>8. u.entries = r /\ u.ns = t.ns /\ u \in Tables
      BY <1>b, <2>3, <2>6, <2>7 DEF Tables
    <2>9. \A j \in DOMAIN s : Size(r[j]) = Size(s[j])
      BY <2>6 DEF Size
    <2>10. BytesOf(r) = BytesOf(s)
      <3>1. BytesOf(r) <= BytesOf(s) /\ BytesOf(s) <= BytesOf(r)
        BY <1>1, <2>6, <2>9, FewerBytes DEF BytesOf
      <3> QED
        BY <3>1, <1>1, <2>6, CellsFinite DEF BytesOf
    <2>11. ASSUME NEW j \in Keys, NEW n \in DOMAIN s
           PROVE  IsLive(u, j, n) <=> IsLive(t, j, n) /\ n # i
      BY <1>b, <2>6, <2>8 DEF IsLive
    <2>12. \A n \in DOMAIN s : IsLive(t, k, n) => n = i
      BY <1>b, <2>1 DEF OnePerKey
    <2>13. \A j \in Keys \ {k} : ~IsLive(t, j, i)
      BY <2>4, <1>b DEF IsLive
    <2>14. OnePerKey(u)
      BY <1>b, <2>6, <2>8, <2>11 DEF OnePerKey
    <2>15. ~Found(u, k)
      BY <2>6, <2>8, <2>11, <2>12 DEF Found
    <2>16. ASSUME NEW j \in Keys \ {k}
           PROVE  Carried(t, u, j) /\ Carried(u, t, j)
      BY <1>b, <2>6, <2>8, <2>11, <2>13 DEF Carried
    <2>17. Contents(u) = Store!Table(t.ns, Store!Without(MapOf(t), k))
      BY <2>8, <2>14, <2>15, <2>16, ContentsWithout
    <2>18. Kept(r) = {n \in Kept(s) : s[n].key # k}
      <3>1. ASSUME NEW n \in DOMAIN s
            PROVE  r[n].st # "dead" <=> s[n].st # "dead" /\ s[n].key # k
        <4>1. CASE n = i
          BY <4>1, <2>4, <2>6
        <4>2. CASE n # i
          BY <4>2, <2>6, <2>12, <1>b DEF IsLive
        <4> QED
          BY <4>1, <4>2
      <3> QED
        BY <3>1, <2>6 DEF Kept
    <2>19. BytesAt(r, Kept(r)) = LiveBytesBesides(t, k)
      <3> DEFINE I == {n \in Kept(s) : s[n].key # k}
      <3>1. Kept(r) = I /\ I \subseteq DOMAIN s
        BY <2>18 DEF Kept
      <3>2. LiveBytesBesides(t, k) = BytesAt(s, I)
        BY <1>b DEF LiveBytesBesides
      <3> HIDE DEF I
      <3>3. BytesAt(r, I) <= BytesAt(s, I) /\ BytesAt(s, I) <= BytesAt(r, I)
        BY <1>1, <2>6, <2>9, <3>1, FewerBytes
      <3>4. BytesAt(r, I) \in Nat /\ BytesAt(s, I) \in Nat
        BY <1>1, <2>6, <3>1, CellsFinite
      <3>5. BytesAt(r, I) = BytesAt(s, I)
        BY <3>3, <3>4
      <3> QED
        BY <3>1, <3>2, <3>5
    <2> QED
      BY <1>a, <1>b, <1>3, <2>8, <2>10, <2>14, <2>15, <2>17, <2>19
  <1> QED
    BY <1>2, <1>3

(* _append(): after the compaction the entry is written where it fits. *)
LEMMA Appending ==
  ASSUME NEW t \in Tables, OnePerKey(t), InRegion(t),
         NEW k \in Keys, NEW v \in Values, ~Found(t, k)
  PROVE  /\ Appended(t, k, v) \in Tables /\ Appended(t, k, v).ns = t.ns
         /\ OnePerKey(Appended(t, k, v)) /\ InRegion(Appended(t, k, v))
         /\ CanAppend(t, k, v) =>
              /\ Has(Appended(t, k, v), k, v)
              /\ Contents(Appended(t, k, v))
                    = Store!Table(t.ns, Store!With(MapOf(t), k, v))
         /\ ~CanAppend(t, k, v) => Contents(Appended(t, k, v)) = Contents(t)
  <1>a. PICK u : u = Appended(t, k, v)
    OBVIOUS
  <1>b. PICK c : c = Compact(t)
    OBVIOUS
  <1>c. PICK e : e = Entry(k, v)
    OBVIOUS
  <1>1. /\ c \in Tables /\ c.ns = t.ns /\ OnePerKey(c)
        /\ Contents(c) = Contents(t)
        /\ ~Found(c, k)
        /\ BytesOf(c.entries) <= BytesOf(t.entries)
    BY <1>b, Compacting
  <1>2. c.entries \in Seq(Entries) /\ t.entries \in Seq(Entries)
    BY <1>1 DEF Tables
  <1>3. BytesOf(c.entries) \in Nat /\ BytesOf(t.entries) \in Nat
    BY <1>2, CellsFinite DEF BytesOf
  <1>4. InRegion(c)
    BY <1>1, <1>3, SizesAssumption DEF InRegion
  <1>5. e \in Entries /\ e.key = k /\ e.val = v /\ e.st = "live"
    BY <1>c DEF Entry, Entries
  <1>6. CASE ~CanAppend(t, k, v)
    <2>1. u = t \/ u = c
      BY <1>a, <1>b, <1>6 DEF Appended, CanAppend
    <2> QED
      BY <1>a, <1>1, <1>4, <1>6, <2>1
  <1>7. CASE CanAppend(t, k, v)
    <2>1. PICK r : r = Append(c.entries, e)
      OBVIOUS
    <2>2. Fits(c, k, v)
      BY <1>b, <1>7 DEF CanAppend
    <2>3. u = Table(c.ns, r, TRUE)
      BY <1>a, <1>b, <1>c, <1>7, <2>1 DEF Appended, CanAppend
    <2>4. PICK n : n = Len(c.entries) + 1
      OBVIOUS
    <2>5. /\ r \in Seq(Entries) /\ DOMAIN r = 1 .. n /\ n \in Nat /\ n >= 1
          /\ DOMAIN c.entries = 1 .. n - 1
          /\ r[n] = e /\ \A i \in DOMAIN c.entries : r[i] = c.entries[i]
      BY <1>2, <1>5, <2>1, <2>4
    <2>6. u \in Tables /\ u.ns = t.ns /\ u.entries = r
      <3>1. c.ns \in Names \cup {NoName}
        BY <1>1 DEF Tables
      <3> QED
        BY <1>1, <2>3, <2>5, <3>1, TableType
    <2>7. InRegion(u)
      <3>1. BytesOf(r) = BytesOf(c.entries) + Size(e)
        BY <1>2, <1>5, <2>1, AppendedBytes
      <3> QED
        BY <1>c, <2>2, <2>6, <3>1 DEF InRegion, Fits
    <2>8. ASSUME NEW j \in Keys, NEW i \in DOMAIN r
          PROVE  IsLive(u, j, i) <=>
                   \/ i = n /\ j = k
                   \/ i \in DOMAIN c.entries /\ IsLive(c, j, i)
      <3>1. CASE i = n
        BY <1>5, <2>5, <2>6, <3>1 DEF IsLive
      <3>2. CASE i # n
        <4>1. i \in DOMAIN c.entries /\ r[i] = c.entries[i]
          BY <2>5, <3>2
        <4> QED
          BY <3>2, <2>6, <4>1 DEF IsLive
      <3> QED
        BY <3>1, <3>2
    <2>9. \A i \in DOMAIN c.entries : i \in DOMAIN r /\ i # n /\ ~IsLive(c, k, i)
      BY <1>1, <2>5 DEF Found
    <2>10. OnePerKey(u)
      <3> SUFFICES ASSUME NEW j \in Keys, NEW i \in DOMAIN r, NEW h \in DOMAIN r,
                          IsLive(u, j, i), IsLive(u, j, h)
                   PROVE  i = h
        BY <2>6 DEF OnePerKey
      <3>1. CASE j = k
        BY <2>8, <2>9, <3>1
      <3>2. CASE j # k
        BY <1>1, <2>8, <3>2 DEF OnePerKey
      <3> QED
        BY <3>1, <3>2
    <2>11. n \in DOMAIN u.entries /\ IsLive(u, k, n) /\ ValueOf(u.entries[n]) = v
      BY <1>5, <2>5, <2>6, <2>8 DEF ValueOf
    <2>12. Found(u, k) /\ Lookup(u, k) = v
      BY <2>6, <2>10, <2>11, FirstIs
    <2>13. ASSUME NEW j \in Keys \ {k}
           PROVE  Carried(c, u, j) /\ Carried(u, c, j)
      <3>1. Carried(c, u, j)
        BY <2>5, <2>6, <2>8, <2>9 DEF Carried
      <3>2. Carried(u, c, j)
        BY <2>5, <2>6, <2>8 DEF Carried
      <3> QED
        BY <3>1, <3>2
    <2>14. Contents(u) = Store!Table(c.ns, Store!With(MapOf(c), k, v))
      BY <1>1, <2>6, <2>10, <2>12, <2>13, ContentsWith
    <2>15. MapOf(c) = MapOf(t)
      BY <1>1 DEF Contents
    <2>16. Contents(u) = Store!Table(t.ns, Store!With(MapOf(t), k, v))
      BY <1>1, <2>14, <2>15
    <2> QED
      BY <1>a, <1>7, <2>6, <2>7, <2>10, <2>12, <2>16 DEF Has
  <1> QED
    BY <1>6, <1>7

(* put*(): the old entry goes, the new one comes if there is room. *)
LEMMA Putting ==
  ASSUME NEW t \in Tables, OnePerKey(t), InRegion(t), NEW k \in Keys, NEW v \in Values
  PROVE  LET p == Appended(Without(t, k), k, v)
         IN  /\ p \in Tables /\ p.ns = t.ns /\ OnePerKey(p) /\ InRegion(p)
             /\ CanAppend(Without(t, k), k, v) =>
                  /\ Has(p, k, v)
                  /\ Contents(p) = Store!Table(t.ns, Store!With(MapOf(t), k, v))
             /\ ~CanAppend(Without(t, k), k, v) =>
                  Contents(p) = Store!Table(t.ns, Store!Without(MapOf(t), k))
             /\ ~CanAppend(Without(t, k), k, v) /\ ~Found(t, k) =>
                  Contents(p) = Contents(t)
  <1>a. PICK w : w = Without(t, k)
    OBVIOUS
  <1>b. PICK p : p = Appended(w, k, v)
    OBVIOUS
  <1>1. /\ w \in Tables /\ w.ns = t.ns /\ OnePerKey(w) /\ ~Found(w, k)
        /\ BytesOf(w.entries) = BytesOf(t.entries)
        /\ Contents(w) = Store!Table(t.ns, Store!Without(MapOf(t), k))
        /\ ~Found(t, k) => w = t
    BY <1>a, Removing
  <1>2. InRegion(w)
    BY <1>1 DEF InRegion
  <1>3. /\ p \in Tables /\ p.ns = w.ns /\ OnePerKey(p) /\ InRegion(p)
        /\ CanAppend(w, k, v) =>
             /\ Has(p, k, v)
             /\ Contents(p) = Store!Table(w.ns, Store!With(MapOf(w), k, v))
        /\ ~CanAppend(w, k, v) => Contents(p) = Contents(w)
    <2>1. CanAppend(w, k, v) =>
             /\ Has(Appended(w, k, v), k, v)
             /\ Contents(Appended(w, k, v))
                  = Store!Table(w.ns, Store!With(MapOf(w), k, v))
      BY <1>1, <1>2, Appending
    <2>2. ~CanAppend(w, k, v) => Contents(Appended(w, k, v)) = Contents(w)
      BY <1>1, <1>2, Appending
    <2>3. p \in Tables /\ p.ns = w.ns /\ OnePerKey(p) /\ InRegion(p)
      BY <1>1, <1>2, <1>b, Appending
    <2> QED
      BY <1>b, <2>1, <2>2, <2>3
  <1>4. Store!With(Store!Without(MapOf(t), k), k, v) = Store!With(MapOf(t), k, v)
    BY DEF Store!With, Store!Without
  <1>5. Store!Table(w.ns, Store!With(MapOf(w), k, v))
          = Store!Table(t.ns, Store!With(MapOf(t), k, v))
    BY <1>1, <1>4 DEF Contents, Store!Table
  <1> QED
    BY <1>a, <1>b, <1>1, <1>3, <1>5

-----------------------------------------------------------------------------
(* What an interrupted write leaves is a part of what was written. *)
LEMMA EmptyTable ==
  ASSUME NEW n \in Names \cup {NoName}, NEW c \in BOOLEAN
  PROVE  LET t == Table(n, << >>, c)
         IN  /\ t \in Tables /\ t.ns = n /\ OnePerKey(t) /\ InRegion(t)
             /\ Contents(t) = Store!Table(n, Store!Empty)
  <1>a. PICK t : t = Table(n, << >>, c)
    OBVIOUS
  <1>b. PICK s : s = << >>
    OBVIOUS
  <1>1. s \in Seq(Entries) /\ DOMAIN s = {}
    BY <1>b
  <1>2. t \in Tables /\ t.ns = n /\ t.entries = s
    <2>1. t = Table(n, s, c)
      BY <1>a, <1>b
    <2> QED
      BY <1>1, <2>1, TableType
  <1>3. OnePerKey(t) /\ \A k \in Keys : ~Found(t, k)
    BY <1>1, <1>2 DEF OnePerKey, Found
  <1>4. InRegion(t)
    <2>1. Cells(s, DOMAIN s) = {}
      BY <1>1, CellsArePairs
    <2>2. BytesOf(s) = Cardinality({})
      BY <1>1, <2>1, CellsFinite, Zenon DEF BytesOf
    <2>3. BytesOf(s) = 0
      BY <2>2, FS_EmptySet
    <2> QED
      BY <1>2, <2>3, SizesAssumption DEF InRegion
  <1>5. MapOf(t) = Store!Empty
    BY <1>3 DEF MapOf, Store!Empty
  <1>6. Contents(t) = Store!Table(n, Store!Empty)
    BY <1>2, <1>5 DEF Contents, Store!Table
  <1> QED
    BY <1>a, <1>2, <1>3, <1>4, <1>6

LEMMA ErasedTable ==
  /\ Erased \in Tables /\ OnePerKey(Erased) /\ InRegion(Erased)
  /\ Contents(Erased) = Store!Nothing
  /\ Zeroed \in Tables /\ OnePerKey(Zeroed) /\ InRegion(Zeroed)
  /\ Contents(Zeroed) = Store!Nothing
  BY EmptyTable DEF Erased, Zeroed, Store!Nothing

(* A table of the first n entries, the last one perhaps damaged. *)
LEMMA Prefix ==
  ASSUME NEW t \in Tables, OnePerKey(t), InRegion(t), NEW u \in Tables, u.ns = t.ns,
         DOMAIN u.entries \subseteq DOMAIN t.entries,
         \A i \in DOMAIN u.entries :
             /\ u.entries[i].key = t.entries[i].key
             /\ u.entries[i].val = t.entries[i].val
             /\ \/ u.entries[i].st = t.entries[i].st
                \/ u.entries[i].st = "damaged" /\ t.entries[i].st # "dead"
  PROVE  /\ OnePerKey(u) /\ InRegion(u)
         /\ Contents(u).ns = Contents(t).ns
         /\ Store!PartOf(Contents(u).map, Contents(t).map)
  <1>1. ASSUME NEW k \in Keys, NEW i \in DOMAIN u.entries, IsLive(u, k, i)
        PROVE  IsLive(t, k, i)
    BY <1>1 DEF IsLive
  <1>2. OnePerKey(u)
    BY <1>1 DEF OnePerKey
  <1>3. InRegion(u)
    <2>1. u.entries \in Seq(Entries) /\ t.entries \in Seq(Entries)
      BY DEF Tables
    <2>2. \A i \in DOMAIN u.entries : Size(u.entries[i]) = Size(t.entries[i])
      BY DEF Size
    <2>3. BytesOf(u.entries) <= BytesOf(t.entries)
      BY <2>1, <2>2, FewerBytes DEF BytesOf
    <2>4. BytesOf(u.entries) \in Nat /\ BytesOf(t.entries) \in Nat
      BY <2>1, CellsFinite DEF BytesOf
    <2> QED
      BY <2>3, <2>4, SizesAssumption DEF InRegion
  <1>4. ASSUME NEW k \in Keys, Found(u, k)
        PROVE  Found(t, k) /\ Lookup(u, k) \in {Lookup(t, k), Damaged}
    <2>1. PICK i \in DOMAIN u.entries : IsLive(u, k, i)
      BY <1>4 DEF Found
    <2>2. i \in DOMAIN t.entries /\ IsLive(t, k, i)
      BY <1>1, <2>1
    <2>3. Lookup(u, k) = ValueOf(u.entries[i])
      BY <1>2, <2>1, FirstIs
    <2>4. Found(t, k) /\ Lookup(t, k) = ValueOf(t.entries[i])
      BY <2>2, FirstIs
    <2> QED
      BY <2>3, <2>4 DEF ValueOf
  <1>5. Store!PartOf(MapOf(u), MapOf(t))
    BY <1>4 DEF MapOf, Store!PartOf
  <1> QED
    BY <1>2, <1>3, <1>5 DEF Contents

LEMMA Tearing ==
  ASSUME NEW t \in Tables, OnePerKey(t), InRegion(t), NoneDead(t), NEW u \in Torn(t)
  PROVE  /\ u \in Tables /\ OnePerKey(u) /\ InRegion(u)
         /\ \/ Contents(u) = Store!Nothing
            \/ /\ Contents(u).ns = Contents(t).ns
               /\ Store!PartOf(Contents(u).map, Contents(t).map)
  <1>a. PICK s : s = t.entries
    OBVIOUS
  <1>1. s \in Seq(Entries) /\ t.ns \in Names \cup {NoName} /\ Len(s) \in Nat
    BY <1>a DEF Tables
  <1>2. ASSUME NEW n \in 0 .. Len(s)
        PROVE  /\ SubSeq(s, 1, n) \in Seq(Entries)
               /\ DOMAIN SubSeq(s, 1, n) = 1 .. n
               /\ 1 .. n \subseteq DOMAIN s
               /\ \A i \in 1 .. n : SubSeq(s, 1, n)[i] = s[i]
    <2>1. \A i \in 1 .. n : s[i] \in Entries
      BY <1>1
    <2> QED
      BY <1>1, <2>1, SubSeqProperties
  <1>3. CASE u = Erased
    BY <1>3, ErasedTable
  <1>4. ASSUME NEW n \in 0 .. Len(s), u = Table(t.ns, SubSeq(s, 1, n), FALSE)
        PROVE  /\ u \in Tables /\ OnePerKey(u) /\ InRegion(u)
               /\ Contents(u).ns = Contents(t).ns
               /\ Store!PartOf(Contents(u).map, Contents(t).map)
    <2>1. u \in Tables /\ u.ns = t.ns /\ u.entries = SubSeq(s, 1, n)
      BY <1>1, <1>2, <1>4, TableType
    <2> QED
      BY <1>a, <1>2, <2>1, Prefix
  <1>5. ASSUME NEW n \in DOMAIN s,
               u = Table(t.ns, [SubSeq(s, 1, n) EXCEPT ![n].st = "damaged"], FALSE)
        PROVE  /\ u \in Tables /\ OnePerKey(u) /\ InRegion(u)
               /\ Contents(u).ns = Contents(t).ns
               /\ Store!PartOf(Contents(u).map, Contents(t).map)
    <2>1. n \in 0 .. Len(s) /\ n \in 1 .. n
      BY <1>1
    <2>2. PICK r : r = SubSeq(s, 1, n)
      OBVIOUS
    <2>3. r \in Seq(Entries) /\ DOMAIN r = 1 .. n /\ 1 .. n \subseteq DOMAIN s
          /\ \A i \in 1 .. n : r[i] = s[i]
      BY <1>2, <2>1, <2>2
    <2>4. PICK d : d = [r EXCEPT ![n].st = "damaged"]
      OBVIOUS
    <2>a. r[n] \in Entries
      BY <2>1, <2>3
    <2>5. [r[n] EXCEPT !.st = "damaged"] \in Entries
      BY <2>a DEF Entries
    <2>6. /\ d \in Seq(Entries) /\ DOMAIN d = 1 .. n
          /\ d[n].key = s[n].key /\ d[n].val = s[n].val /\ d[n].st = "damaged"
          /\ \A i \in 1 .. n : i # n => d[i] = s[i]
      BY <2>1, <2>3, <2>4, <2>a, <2>5 DEF Entries
    <2>7. u \in Tables /\ u.ns = t.ns /\ u.entries = d
      BY <1>1, <1>5, <2>2, <2>4, <2>6, TableType
    <2>8. \A i \in 1 .. n : s[i].st # "dead"
      BY <1>a, <2>3 DEF NoneDead
    <2>9. \A i \in DOMAIN u.entries :
             /\ u.entries[i].key = t.entries[i].key
             /\ u.entries[i].val = t.entries[i].val
             /\ \/ u.entries[i].st = t.entries[i].st
                \/ u.entries[i].st = "damaged" /\ t.entries[i].st # "dead"
      BY <1>a, <2>6, <2>7, <2>8
    <2> QED
      BY <1>a, <2>3, <2>6, <2>7, <2>9, Prefix
  <1>6. \/ u = Erased
        \/ \E n \in 0 .. Len(s) : u = Table(t.ns, SubSeq(s, 1, n), FALSE)
        \/ \E n \in DOMAIN s :
             u = Table(t.ns, [SubSeq(s, 1, n) EXCEPT ![n].st = "damaged"], FALSE)
    BY <1>a DEF Torn
  <1> QED
    BY <1>3, <1>4, <1>5, <1>6

-----------------------------------------------------------------------------
(* The inductive invariant.  While a commit is being written its object is *)
(* still marked dirty, and the shadow is compact: a write cut short at a   *)
(* dead entry would bring that entry back to life.                         *)
Sound(t) == t \in Tables /\ InRegion(t) /\ OnePerKey(t)

FlagsOK ==
    /\ handle \in [Instances -> BOOLEAN] /\ readOnly \in [Instances -> BOOLEAN]
    /\ dirty \in [Instances -> BOOLEAN]
    /\ ns \in [Instances -> Names \cup {NoName}]
    /\ pc \in {Idle} \cup [at: {"write"}, by: Instances, ends: BOOLEAN]
    /\ forgotten \in BOOLEAN

WriteUnderWay == pc.at = "write" => dirty[pc.by] /\ NoneDead(buf)

Safe ==
    /\ Sound(flash) /\ Sound(buf) /\ FlagsOK
    /\ PendingIsMarked /\ WriteUnderWay

LEMMA SafeIsSound ==
  TablesAreSound <=> Sound(flash) /\ Sound(buf) /\ FlagsOK
  BY OnePerKeyInBoth DEF TablesAreSound, TypeOK, Sound, FlagsOK

LEMMA ResetSound ==
  ASSUME NEW n \in Names \cup {NoName}
  PROVE  Sound(Reset(n)) /\ Contents(Reset(n)) = Store!Table(n, Store!Empty)
  BY EmptyTable DEF Reset, Sound

LEMMA InitSafe == Init => Safe
  <1> SUFFICES ASSUME Init PROVE Safe
    OBVIOUS
  <1>1. Sound(flash) /\ Sound(buf)
    BY ErasedTable DEF Init, Sound
  <1>2. FlagsOK /\ pc.at = "idle"
    BY DEF Init, FlagsOK, Off, Idle
  <1>3. PendingIsMarked
    BY DEF Init, Off, PendingIsMarked
  <1> QED
    BY <1>1, <1>2, <1>3 DEF Safe, WriteUnderWay

LEMMA BeginSafe ==
  ASSUME Safe, NEW i \in Instances, NEW n \in Names,
         NEW ro \in BOOLEAN, NEW opens \in BOOLEAN, Begin(i, n, ro, opens)
  PROVE  Safe'
  <1>1. FlagsOK' /\ pc'.at = "idle"
    BY DEF Safe, FlagsOK, Begin, Idle
  <1>2. Sound(flash') /\ Sound(buf')
    BY ResetSound DEF Safe, Begin
  <1>3. ~dirty'[i] => buf' = flash'
    BY DEF Safe, FlagsOK, Begin
  <1>4. PendingIsMarked'
    BY <1>3 DEF PendingIsMarked
  <1> QED
    BY <1>1, <1>2, <1>4 DEF Safe, WriteUnderWay

LEMMA BeginTooLongSafe ==
  ASSUME Safe, NEW i \in Instances, NEW ro \in BOOLEAN, BeginTooLong(i, ro)
  PROVE  Safe'
  <1>1. FlagsOK' /\ pc'.at = "idle"
    BY DEF Safe, FlagsOK, BeginTooLong, Idle
  <1>2. PendingIsMarked'
    BY DEF BeginTooLong, PendingIsMarked
  <1> QED
    BY <1>1, <1>2 DEF Safe, WriteUnderWay, BeginTooLong

(* An edit of the shadow that leaves the object dirty, or the map as it is. *)
LEMMA EditSafe ==
  ASSUME Safe, NEW i \in Instances, pc = Idle, Sound(buf'),
         dirty' \in [Instances -> BOOLEAN],
         \A j \in Instances : dirty[j] => dirty'[j],
         dirty'[i] \/ Contents(buf') = Contents(buf),
         UNCHANGED <<flash, handle, readOnly, ns, pc, forgotten>>
  PROVE  Safe'
  <1>1. FlagsOK' /\ pc'.at = "idle"
    BY DEF Safe, FlagsOK, Idle
  <1>2. PendingIsMarked'
    BY DEF Safe, PendingIsMarked
  <1> QED
    BY <1>1, <1>2 DEF Safe, WriteUnderWay

LEMMA PutSafe ==
  ASSUME Safe, NEW i \in Instances, NEW k \in Keys, NEW v \in Values, Put(i, k, v)
  PROVE  Safe'
  <1>1. /\ pc = Idle /\ buf' = Appended(Without(buf, k), k, v)
        /\ dirty' = [dirty EXCEPT ![i] =
                       @ \/ Found(buf, k) \/ CanAppend(Without(buf, k), k, v)]
        /\ UNCHANGED <<flash, handle, readOnly, ns, pc, forgotten>>
    BY DEF Put
  <1>2. buf \in Tables /\ InRegion(buf) /\ OnePerKey(buf)
    BY DEF Safe, Sound
  <1>3. Sound(buf')
    BY <1>1, <1>2, Putting DEF Sound
  <1>4. dirty \in [Instances -> BOOLEAN]
    BY DEF Safe, FlagsOK
  <1>5. PICK found \in BOOLEAN : found = Found(buf, k)
    BY DEF Found
  <1>6. PICK fits \in BOOLEAN : fits = CanAppend(Without(buf, k), k, v)
    BY DEF CanAppend
  <1>7. /\ dirty' \in [Instances -> BOOLEAN]
        /\ \A j \in Instances : dirty[j] => dirty'[j]
        /\ found \/ fits => dirty'[i]
    BY <1>1, <1>4, <1>5, <1>6
  <1>8. ~fits /\ ~found => Contents(buf') = Contents(buf)
    BY <1>1, <1>2, <1>5, <1>6, Putting
  <1> QED
    BY <1>1, <1>3, <1>7, <1>8, EditSafe

LEMMA RemoveSafe ==
  ASSUME Safe, NEW i \in Instances, NEW k \in Keys, Remove(i, k)
  PROVE  Safe'
  <1>1. buf \in Tables /\ InRegion(buf) /\ OnePerKey(buf)
    BY DEF Safe, Sound
  <1>2. Sound(buf')
    BY <1>1, Removing DEF Remove, Sound, InRegion
  <1>3. /\ dirty' \in [Instances -> BOOLEAN] /\ dirty'[i]
        /\ \A j \in Instances : dirty[j] => dirty'[j]
    BY DEF Safe, FlagsOK, Remove
  <1> QED
    BY <1>2, <1>3, EditSafe DEF Remove

LEMMA ClearSafe ==
  ASSUME Safe, NEW i \in Instances, Clear(i)
  PROVE  Safe'
  <1>1. ns[i] \in Names \cup {NoName}
    BY DEF Safe, FlagsOK
  <1>2. Sound(buf')
    BY <1>1, ResetSound DEF Clear
  <1>3. /\ dirty' \in [Instances -> BOOLEAN] /\ dirty'[i]
        /\ \A j \in Instances : dirty[j] => dirty'[j]
    BY DEF Safe, FlagsOK, Clear
  <1> QED
    BY <1>2, <1>3, EditSafe DEF Clear

(* end() opens no handle and marks or forgets nothing. *)
LEMMA ClosedFlags ==
  ASSUME FlagsOK, NEW i \in Instances, NEW ends \in BOOLEAN, Closed(i, ends),
         dirty' \in [Instances -> BOOLEAN]
  PROVE  /\ FlagsOK' /\ pc'.at = "idle" /\ forgotten' = forgotten
         /\ \A j \in Instances : handle'[j] => handle[j]
  BY DEF FlagsOK, Closed, Idle

LEMMA EndCleanSafe ==
  ASSUME Safe, NEW i \in Instances, EndClean(i)
  PROVE  Safe'
  <1>1. /\ FlagsOK' /\ pc'.at = "idle" /\ forgotten' = forgotten
        /\ \A j \in Instances : handle'[j] => handle[j]
    BY ClosedFlags DEF Safe, FlagsOK, EndClean
  <1>2. PendingIsMarked'
    BY <1>1 DEF Safe, PendingIsMarked, EndClean
  <1> QED
    BY <1>1, <1>2 DEF Safe, WriteUnderWay, EndClean

LEMMA CompactSound ==
  ASSUME NEW t, Sound(t)
  PROVE  /\ Sound(Compact(t)) /\ NoneDead(Compact(t))
         /\ Contents(Compact(t)) = Contents(t)
  <1>1. /\ Compact(t) \in Tables /\ OnePerKey(Compact(t)) /\ NoneDead(Compact(t))
        /\ Contents(Compact(t)) = Contents(t)
        /\ BytesOf(Compact(t).entries) <= BytesOf(t.entries)
    BY Compacting DEF Sound
  <1>2. t.entries \in Seq(Entries) /\ Compact(t).entries \in Seq(Entries)
    BY <1>1 DEF Sound, Tables
  <1>3. BytesOf(t.entries) \in Nat /\ BytesOf(Compact(t).entries) \in Nat
    BY <1>2, CellsFinite DEF BytesOf
  <1> QED
    BY <1>1, <1>3, SizesAssumption DEF Sound, InRegion

LEMMA EraseSafe ==
  ASSUME Safe, NEW i \in Instances, NEW ends \in BOOLEAN, Erase(i, ends)
  PROVE  Safe'
  <1>1. FlagsOK' /\ pc'.by = i /\ dirty'[i]
    BY DEF Safe, FlagsOK, Erase, objects
  <1>2. Sound(buf') /\ NoneDead(buf')
    BY CompactSound DEF Safe, Erase
  <1>3. Sound(flash')
    BY ErasedTable DEF Erase, Sound
  <1>4. PendingIsMarked'
    BY <1>1 DEF PendingIsMarked
  <1> QED
    BY <1>1, <1>2, <1>3, <1>4 DEF Safe, WriteUnderWay

LEMMA EraseFailsSafe ==
  ASSUME Safe, NEW i \in Instances, NEW ends \in BOOLEAN, EraseFails(i, ends)
  PROVE  Safe'
  <1>1. FlagsOK' /\ pc'.at = "idle" /\ dirty'[i]
    BY ClosedFlags DEF Safe, FlagsOK, EraseFails
  <1>2. Sound(buf')
    BY CompactSound DEF Safe, EraseFails
  <1>3. Sound(flash')
    BY ErasedTable DEF Safe, EraseFails, Sound
  <1>4. PendingIsMarked'
    BY <1>1 DEF PendingIsMarked
  <1> QED
    BY <1>1, <1>2, <1>3, <1>4 DEF Safe, WriteUnderWay

LEMMA WriteSafe ==
  ASSUME Safe, NEW i \in Instances, Write(i)
  PROVE  Safe'
  <1>1. pc.ends \in BOOLEAN
    BY DEF Safe, FlagsOK, Write, Idle
  <1>2. FlagsOK' /\ pc'.at = "idle"
    BY <1>1, ClosedFlags DEF Safe, FlagsOK, Write
  <1>3. flash' = buf' /\ Sound(buf')
    BY DEF Safe, Write
  <1> QED
    BY <1>2, <1>3 DEF Safe, WriteUnderWay, PendingIsMarked

LEMMA WriteFailsSafe ==
  ASSUME Safe, NEW i \in Instances, WriteFails(i)
  PROVE  Safe'
  <1>1. pc.ends \in BOOLEAN
    BY DEF Safe, FlagsOK, WriteFails, Idle
  <1>2. FlagsOK' /\ pc'.at = "idle" /\ dirty'[i]
    BY <1>1, ClosedFlags DEF Safe, FlagsOK, WriteFails, WriteUnderWay
  <1>3. Sound(buf') /\ Sound(flash')
    BY Tearing DEF Safe, WriteFails, WriteUnderWay, Sound
  <1>4. PendingIsMarked'
    BY <1>2 DEF PendingIsMarked
  <1> QED
    BY <1>2, <1>3, <1>4 DEF Safe, WriteUnderWay

LEMMA PowerLossSafe ==
  ASSUME Safe, PowerLoss
  PROVE  Safe'
  <1>1. FlagsOK' /\ pc'.at = "idle"
    BY DEF PowerLoss, FlagsOK, Off, Idle
  <1>2. Sound(buf')
    BY ErasedTable DEF PowerLoss, Sound
  <1>3. Sound(flash')
    BY Tearing DEF Safe, PowerLoss, WriteUnderWay, Sound
  <1>4. PendingIsMarked'
    BY DEF PowerLoss, Off, PendingIsMarked
  <1> QED
    BY <1>1, <1>2, <1>3, <1>4 DEF Safe, WriteUnderWay

(* The invariant is inductive. *)
THEOREM Inductive == Spec => []Safe
  <1>1. Safe /\ [Next]_vars => Safe'
    <2> SUFFICES ASSUME Safe, [Next]_vars PROVE Safe'
      OBVIOUS
    <2>1. CASE UNCHANGED vars
      BY <2>1 DEF vars, objects, Safe, FlagsOK, PendingIsMarked, WriteUnderWay
    <2>2. CASE PowerLoss
      BY <2>2, PowerLossSafe
    <2>3. ASSUME NEW i \in Instances,
                 \/ \E n \in Names, ro, opens \in BOOLEAN : Begin(i, n, ro, opens)
                 \/ \E ro \in BOOLEAN : BeginTooLong(i, ro)
                 \/ \E k \in Keys : Remove(i, k) \/ \E v \in Values : Put(i, k, v)
          PROVE  Safe'
      BY <2>3, BeginSafe, BeginTooLongSafe, RemoveSafe, PutSafe
    <2>4. ASSUME NEW i \in Instances,
                 \/ Clear(i) \/ EndClean(i)
                 \/ \E ends \in BOOLEAN : Erase(i, ends) \/ EraseFails(i, ends)
                 \/ Write(i) \/ WriteFails(i)
          PROVE  Safe'
      BY <2>4, ClearSafe, EndCleanSafe, EraseSafe, EraseFailsSafe, WriteSafe, WriteFailsSafe
    <2> QED
      BY <2>1, <2>2, <2>3, <2>4 DEF Next
  <1> QED
    BY <1>1, InitSafe, PTL DEF Spec

(* The tables in RAM and in flash are well formed, inside their region and *)
(* without superseded values, after any calls, failures and power losses.  *)
THEOREM TablesCorrect == Spec => []TablesAreSound
  <1>1. Safe => TablesAreSound
    BY SafeIsSound DEF Safe
  <1> QED
    BY <1>1, Inductive, PTL

(* No change is left unmarked, so that end() never drops one silently.     *)
THEOREM PendingCorrect == Spec => []PendingIsMarked
  <1>1. Safe => PendingIsMarked
    BY DEF Safe
  <1> QED
    BY <1>1, Inductive, PTL

-----------------------------------------------------------------------------
(* No room is lost: what a put() needs is what compaction gives back. *)
LEMMA RoomForPut ==
  ASSUME NEW t, Sound(t), NEW k \in Keys, NEW v \in Values,
         KeyLen[k] \in 1 .. 255,
         \/ LiveBytesBesides(t, k) + Size(Entry(k, v)) + 2 <= RegionSize
         \/ Size(Entry(k, v)) + 2 <= RegionSize - TableEnd(t)
  PROVE  CanAppend(Without(t, k), k, v)
  <1>a. PICK w : w = Without(t, k)
    OBVIOUS
  <1>b. PICK c : c = Compact(w)
    OBVIOUS
  <1>c. PICK e : e = Entry(k, v)
    OBVIOUS
  <1>1. /\ w \in Tables /\ OnePerKey(w)
        /\ BytesOf(w.entries) = BytesOf(t.entries)
        /\ BytesAt(w.entries, Kept(w.entries)) = LiveBytesBesides(t, k)
    BY <1>a, Removing DEF Sound
  <1>2. /\ c \in Tables
        /\ BytesOf(c.entries) = LiveBytesBesides(t, k)
        /\ BytesOf(c.entries) <= BytesOf(t.entries)
    BY <1>1, <1>b, Compacting
  <1>3. e \in Entries
    BY <1>c DEF Entry, Entries
  <1>4. Size(e) \in Nat /\ Size(e) >= 4
    BY <1>3, SizeType
  <1>5. BytesOf(c.entries) \in Nat /\ BytesOf(t.entries) \in Nat
    <2>1. c.entries \in Seq(Entries) /\ t.entries \in Seq(Entries)
      BY <1>2 DEF Tables, Sound
    <2> QED
      BY <2>1, CellsFinite DEF BytesOf
  <1>6. BytesOf(c.entries) + Size(e) + 2 <= RegionSize
    <2>1. CASE LiveBytesBesides(t, k) + Size(e) + 2 <= RegionSize
      BY <1>2, <2>1
    <2>2. CASE Size(e) + 2 <= RegionSize - TableEnd(t)
      <3>1. TableEnd(t) = BytesOf(t.entries) \/ TableEnd(t) = RegionSize
        BY DEF TableEnd
      <3> QED
        BY <1>2, <1>4, <1>5, <2>2, <3>1, SizesAssumption
    <2> QED
      BY <1>c, <2>1, <2>2
  <1> QED
    BY <1>a, <1>b, <1>c, <1>6 DEF CanAppend, Fits

(* A put() succeeds whenever the live entries of the other keys leave room, *)
(* or freeEntries() has said that there is room.                            *)
THEOREM RoomCorrect == Spec => RoomIsUsable
  <1>1. Safe => \A i \in Instances, k \in Keys, v \in Values :
                  /\ Put(i, k, v) /\ KeyLen[k] \in 1 .. 255
                  /\ \/ LiveBytesBesides(buf, k) + Size(Entry(k, v)) + 2 <= RegionSize
                     \/ Size(Entry(k, v)) + 2 <= freeEntries
                  => Has(buf', k, v)
    <2> SUFFICES ASSUME Safe, NEW i \in Instances, NEW k \in Keys, NEW v \in Values,
                        Put(i, k, v), KeyLen[k] \in 1 .. 255,
                        \/ LiveBytesBesides(buf, k) + Size(Entry(k, v)) + 2 <= RegionSize
                        \/ Size(Entry(k, v)) + 2 <= freeEntries
                 PROVE  Has(buf', k, v)
      OBVIOUS
    <2>1. CanAppend(Without(buf, k), k, v)
      BY RoomForPut DEF Safe, freeEntries
    <2>2. Has(Appended(Without(buf, k), k, v), k, v)
      BY <2>1, Putting DEF Safe, Sound
    <2> QED
      BY <2>2 DEF Put
  <1> QED
    BY <1>1, Inductive, PTL DEF RoomIsUsable

-----------------------------------------------------------------------------
(* The refinement: what each action does to the two maps. *)
LEMMA NotWriting ==
  ASSUME pc = Idle
  PROVE  pc.at # "write"
  BY DEF Idle

LEMMA BeginLoads ==
  ASSUME Safe, NEW i \in Instances, NEW n \in Names,
         NEW ro \in BOOLEAN, NEW opens \in BOOLEAN, Begin(i, n, ro, opens)
  PROVE  /\ opens => Store!Load(n)
         /\ Store!Load(n) \/ Store!Clear(n)
  <1>1. pc.at # "write" /\ UNCHANGED <<flash, pc>>
    BY NotWriting DEF Begin
  <1>2. opens => handle'[i]
    BY DEF Safe, FlagsOK, Begin
  <1>3. CASE Stored(handle'[i], n)
    <2>1. buf' = flash /\ flash.ns = n
      BY <1>3 DEF Begin, Stored
    <2>2. Store!Load(n)
      BY <1>1, <2>1 DEF Store!Load, Store!Edit, Contents
    <2> QED
      BY <2>2
  <1>4. CASE ~Stored(handle'[i], n)
    <2>1. Contents(buf') = Store!Table(n, Store!Empty)
      BY <1>4, ResetSound DEF Begin
    <2>2. Store!Clear(n)
      BY <1>1, <2>1 DEF Store!Clear, Store!Edit
    <2>3. opens => Contents(flash).ns # n
      BY <1>2, <1>4 DEF Stored, Contents
    <2>4. opens => Store!Load(n)
      BY <1>1, <2>1, <2>3 DEF Store!Load, Store!Edit
    <2> QED
      BY <2>2, <2>4
  <1> QED
    BY <1>3, <1>4

LEMMA PutPuts ==
  ASSUME Safe, NEW i \in Instances, NEW k \in Keys, NEW v \in Values, Put(i, k, v)
  PROVE  IF CanAppend(Without(buf, k), k, v) THEN Store!Put(k, v) ELSE Store!Remove(k)
  <1>1. pc.at # "write" /\ UNCHANGED <<flash, pc>>
    BY NotWriting DEF Put
  <1>2. buf \in Tables /\ InRegion(buf) /\ OnePerKey(buf)
    BY DEF Safe, Sound
  <1>3. buf' = Appended(Without(buf, k), k, v)
    BY DEF Put
  <1>4. CASE CanAppend(Without(buf, k), k, v)
    <2>1. Contents(buf') = Store!Table(buf.ns, Store!With(MapOf(buf), k, v))
      BY <1>2, <1>3, <1>4, Putting
    <2>2. Contents(buf') = [Contents(buf) EXCEPT !.map = Store!With(@, k, v)]
      BY <2>1 DEF Contents, Store!Table
    <2> QED
      BY <1>1, <1>4, <2>2 DEF Store!Put, Store!Edit
  <1>5. CASE ~CanAppend(Without(buf, k), k, v)
    <2>1. Contents(buf') = Store!Table(buf.ns, Store!Without(MapOf(buf), k))
      BY <1>2, <1>3, <1>5, Putting
    <2>2. Contents(buf') = [Contents(buf) EXCEPT !.map = Store!Without(@, k)]
      BY <2>1 DEF Contents, Store!Table
    <2> QED
      BY <1>1, <1>5, <2>2 DEF Store!Remove, Store!Edit
  <1> QED
    BY <1>4, <1>5

LEMMA RemoveRemoves ==
  ASSUME Safe, NEW i \in Instances, NEW k \in Keys, Remove(i, k)
  PROVE  Store!Remove(k)
  <1>1. pc.at # "write" /\ UNCHANGED <<flash, pc>> /\ buf' = Without(buf, k)
    BY NotWriting DEF Remove
  <1>2. buf \in Tables /\ OnePerKey(buf)
    BY DEF Safe, Sound
  <1>3. Contents(buf') = Store!Table(buf.ns, Store!Without(MapOf(buf), k))
    BY <1>1, <1>2, Removing
  <1>4. Contents(buf') = [Contents(buf) EXCEPT !.map = Store!Without(@, k)]
    BY <1>3 DEF Contents, Store!Table
  <1> QED
    BY <1>1, <1>4 DEF Store!Remove, Store!Edit

LEMMA ClearClears ==
  ASSUME Safe, NEW i \in Instances, Clear(i)
  PROVE  Store!Clear(ns[i]) /\ ns[i] \in Names \cup {NoName}
  <1>1. pc.at # "write" /\ UNCHANGED <<flash, pc>> /\ buf' = Reset(ns[i])
    BY NotWriting DEF Clear
  <1>2. ns[i] \in Names \cup {NoName}
    BY DEF Safe, FlagsOK
  <1>3. Contents(buf') = Store!Table(ns[i], Store!Empty)
    BY <1>1, <1>2, ResetSound
  <1> QED
    BY <1>1, <1>2, <1>3 DEF Store!Clear, Store!Edit

LEMMA WriteCommits ==
  ASSUME Safe, NEW i \in Instances, Write(i)
  PROVE  Store!Commit
  <1>1. pc'.at # "write"
    BY DEF Write, Closed, Idle
  <1> QED
    BY <1>1 DEF Write, Store!Commit

(* Each call does to the map what it was asked. *)
THEOREM CallsCorrect == Spec => CallsImplementStore
  <1>1. Safe => \A i \in Instances :
                  /\ \A n \in Names, ro \in BOOLEAN :
                        Begin(i, n, ro, TRUE) => Store!Load(n)
                  /\ \A k \in Keys, v \in Values :
                        Put(i, k, v) => IF CanAppend(Without(buf, k), k, v)
                                        THEN Store!Put(k, v) ELSE Store!Remove(k)
                  /\ \A k \in Keys : Remove(i, k) => Store!Remove(k)
                  /\ Clear(i) => Store!Clear(ns[i])
                  /\ Write(i) => Store!Commit
    <2> SUFFICES ASSUME Safe, NEW i \in Instances
                 PROVE  /\ \A n \in Names, ro \in BOOLEAN :
                              Begin(i, n, ro, TRUE) => Store!Load(n)
                        /\ \A k \in Keys, v \in Values :
                              Put(i, k, v) => IF CanAppend(Without(buf, k), k, v)
                                              THEN Store!Put(k, v) ELSE Store!Remove(k)
                        /\ \A k \in Keys : Remove(i, k) => Store!Remove(k)
                        /\ Clear(i) => Store!Clear(ns[i])
                        /\ Write(i) => Store!Commit
      OBVIOUS
    <2>1. ASSUME NEW n \in Names, NEW ro \in BOOLEAN, Begin(i, n, ro, TRUE)
          PROVE  Store!Load(n)
      BY <2>1, BeginLoads
    <2>2. ASSUME NEW k \in Keys, NEW v \in Values, Put(i, k, v)
          PROVE  IF CanAppend(Without(buf, k), k, v)
                 THEN Store!Put(k, v) ELSE Store!Remove(k)
      BY <2>2, PutPuts
    <2>3. ASSUME NEW k \in Keys, Remove(i, k) PROVE Store!Remove(k)
      BY <2>3, RemoveRemoves
    <2>4. ASSUME Clear(i) PROVE Store!Clear(ns[i])
      BY <2>4, ClearClears
    <2>5. ASSUME Write(i) PROVE Store!Commit
      BY <2>5, WriteCommits
    <2> QED
      BY <2>1, <2>2, <2>3, <2>4, <2>5
  <1> QED
    BY <1>1, Inductive, PTL DEF CallsImplementStore

(* A commit that fails or is interrupted leaves nothing or a part. *)
LEMMA WriteFailsCommit ==
  ASSUME Safe, NEW i \in Instances, WriteFails(i)
  PROVE  Store!FailCommit
  <1>1. pc'.at # "write" /\ pc.at = "write" /\ buf' = buf /\ flash' \in Torn(buf)
    BY DEF WriteFails, Closed, Idle
  <1>2. Store!Interrupted
    BY <1>1, Tearing DEF Safe, Sound, WriteUnderWay, Store!Interrupted
  <1> QED
    BY <1>1, <1>2 DEF Store!FailCommit

LEMMA PowerLossRestarts ==
  ASSUME Safe, PowerLoss
  PROVE  Store!Restart
  <1>1. pc'.at # "write" /\ Contents(buf') = Store!Nothing
    BY ErasedTable DEF PowerLoss, Idle
  <1>2. CASE pc.at = "write"
    <2>1. flash' \in Torn(buf)
      BY <1>2 DEF PowerLoss
    <2>2. Store!Interrupted
      BY <1>2, <2>1, Tearing DEF Safe, Sound, WriteUnderWay, Store!Interrupted
    <2> QED
      BY <1>1, <1>2, <2>2 DEF Store!Restart
  <1>3. CASE pc.at # "write"
    <2>1. flash' = flash
      BY <1>3 DEF PowerLoss
    <2> QED
      BY <1>1, <1>3, <2>1 DEF Store!Restart
  <1> QED
    BY <1>2, <1>3

LEMMA EraseStarts ==
  ASSUME Safe, NEW i \in Instances, NEW ends \in BOOLEAN, Erase(i, ends)
  PROVE  Store!StartCommit
  <1>1. pc.at # "write" /\ pc'.at = "write"
    BY NotWriting DEF Erase
  <1>2. Contents(buf') = Contents(buf)
    BY CompactSound DEF Safe, Erase
  <1>3. Contents(flash') = Store!Nothing
    BY ErasedTable DEF Erase
  <1> QED
    BY <1>1, <1>2, <1>3 DEF Store!StartCommit

LEMMA EraseFailsStore ==
  ASSUME Safe, NEW i \in Instances, NEW ends \in BOOLEAN, EraseFails(i, ends)
  PROVE  Store!FailErase
  <1>1. pc.at # "write" /\ pc'.at # "write"
    BY NotWriting DEF EraseFails, Closed, Idle
  <1>2. Contents(buf') = Contents(buf)
    BY CompactSound DEF Safe, EraseFails
  <1>3. Contents(flash') \in {Contents(flash), Store!Nothing}
    BY ErasedTable DEF EraseFails
  <1> QED
    BY <1>1, <1>2, <1>3 DEF Store!FailErase

(* A step that touches neither table changes nothing of the store. *)
LEMMA StoreStutters ==
  ASSUME buf' = buf, flash' = flash, (pc.at = "write") = (pc'.at = "write")
  PROVE  UNCHANGED Store!vars
  BY DEF Store!vars

LEMMA EndCleanStutters ==
  ASSUME Safe, NEW i \in Instances, EndClean(i)
  PROVE  UNCHANGED Store!vars
  <1>1. pc.at # "write" /\ pc'.at # "write" /\ buf' = buf /\ flash' = flash
    BY NotWriting DEF EndClean, Closed, Idle
  <1> QED
    BY <1>1, StoreStutters

(* The table in RAM and flash implements the store of KeyValueStore.       *)
THEOREM StoreImplemented == Spec => ImplementsStore
  <1>1. Init => Store!Init
    <2> SUFFICES ASSUME Init PROVE Store!Init
      OBVIOUS
    <2>1. Contents(buf) = Store!Nothing /\ Contents(flash) = Store!Nothing
      BY ErasedTable DEF Init
    <2>2. (pc.at = "write") = FALSE
      BY DEF Init, Idle
    <2> QED
      BY <2>1, <2>2 DEF Store!Init
  <1>2. Safe /\ [Next]_vars => [Store!Next]_(Store!vars)
    <2> SUFFICES ASSUME Safe, [Next]_vars PROVE Store!Next \/ UNCHANGED Store!vars
      OBVIOUS
    <2>1. CASE UNCHANGED vars
      BY <2>1, StoreStutters DEF vars
    <2>2. CASE PowerLoss
      BY <2>2, PowerLossRestarts DEF Store!Next
    <2>3. ASSUME NEW i \in Instances, NEW n \in Names, NEW ro \in BOOLEAN,
                 NEW opens \in BOOLEAN, Begin(i, n, ro, opens)
          PROVE  Store!Next
      BY <2>3, BeginLoads DEF Store!Next, Store!Call
    <2>4. ASSUME NEW i \in Instances, NEW ro \in BOOLEAN, BeginTooLong(i, ro)
          PROVE  UNCHANGED Store!vars
      BY <2>4, StoreStutters DEF BeginTooLong
    <2>5. ASSUME NEW i \in Instances, NEW k \in Keys, Remove(i, k)
          PROVE  Store!Next
      BY <2>5, RemoveRemoves DEF Store!Next, Store!Call
    <2>6. ASSUME NEW i \in Instances, NEW k \in Keys, NEW v \in Values, Put(i, k, v)
          PROVE  Store!Next
      BY <2>6, PutPuts DEF Store!Next, Store!Call
    <2>7. ASSUME NEW i \in Instances, Clear(i)
          PROVE  Store!Next
      BY <2>7, ClearClears DEF Store!Next, Store!Call
    <2>8. ASSUME NEW i \in Instances, NEW ends \in BOOLEAN,
                 Erase(i, ends) \/ EraseFails(i, ends)
          PROVE  Store!Next
      BY <2>8, EraseStarts, EraseFailsStore DEF Store!Next, Store!Call
    <2>9. ASSUME NEW i \in Instances, Write(i) \/ WriteFails(i)
          PROVE  Store!Next
      BY <2>9, WriteCommits, WriteFailsCommit DEF Store!Next, Store!Call
    <2> QED
      BY <2>1, <2>2, <2>3, <2>4, <2>5, <2>6, <2>7, <2>8, <2>9, EndCleanStutters DEF Next
  <1> QED
    BY <1>1, <1>2, Inductive, PTL DEF Spec, ImplementsStore, Store!Spec

(* What the store guarantees carries over to the code.  Flash never shows  *)
(* a mixture of what was stored and what replaces it: whatever step is     *)
(* taken, by any object, by a flash operation that fails or by a loss of   *)
(* power, what it holds afterwards is what it held, or nothing, or (out of *)
(* a write under way) some of the keys of the very table being written,    *)
(* with its values or damaged, never a value of the old one.  This needs   *)
(* that a write finds nothing there, for end() has erased the sector.      *)
ErasedBeforeWritten == pc.at = "write" => Contents(flash) = Store!Nothing

NeverAMixture ==
    LET old == Contents(flash)
        new == Contents(flash')
    IN  \/ new = old
        \/ new = Store!Nothing
        \/ /\ pc.at = "write" /\ old = Store!Nothing
           /\ new.ns = Contents(buf).ns
           /\ Store!PartOf(new.map, Contents(buf).map)

LEMMA StoreErasesFirst ==
  ASSUME ErasedBeforeWritten, [Store!Next]_(Store!vars)
  PROVE  ErasedBeforeWritten'
  <1>1. CASE Store!Commit \/ Store!FailCommit \/ Store!FailErase \/ Store!Restart
    BY <1>1 DEF Store!Commit, Store!FailCommit, Store!FailErase, Store!Restart,
                ErasedBeforeWritten
  <1>2. CASE Store!StartCommit
    BY <1>2 DEF Store!StartCommit, ErasedBeforeWritten, Store!Nothing, Store!Table,
                Store!Empty
  <1>3. ASSUME NEW m, Store!Edit(m) PROVE ErasedBeforeWritten'
    BY <1>3 DEF Store!Edit, ErasedBeforeWritten
  <1>4. CASE UNCHANGED Store!vars
    BY <1>4 DEF Store!vars, ErasedBeforeWritten
  <1>5. CASE Store!Call
    BY <1>1, <1>2, <1>3, <1>5
    DEF Store!Call, Store!Load, Store!Put, Store!Remove, Store!Clear
  <1> QED
    BY <1>1, <1>4, <1>5 DEF Store!Next

LEMMA StoreNeverMixes ==
  ASSUME ErasedBeforeWritten, [Store!Next]_(Store!vars)
  PROVE  NeverAMixture
  <1>1. Store!PartOf(Contents(buf).map, Contents(buf).map)
    BY DEF Store!PartOf
  <1>2. CASE Store!Commit
    BY <1>1, <1>2 DEF Store!Commit, ErasedBeforeWritten, NeverAMixture
  <1>3. CASE Store!FailCommit
    BY <1>3 DEF Store!FailCommit, Store!Interrupted, ErasedBeforeWritten, NeverAMixture
  <1>4. CASE Store!Restart
    BY <1>4 DEF Store!Restart, Store!Interrupted, ErasedBeforeWritten, NeverAMixture
  <1>5. CASE Store!StartCommit \/ Store!FailErase
    BY <1>5 DEF Store!StartCommit, Store!FailErase, NeverAMixture
  <1>6. ASSUME NEW m, Store!Edit(m) PROVE NeverAMixture
    BY <1>6 DEF Store!Edit, NeverAMixture
  <1>7. CASE UNCHANGED Store!vars
    BY <1>7 DEF Store!vars, NeverAMixture
  <1>8. CASE Store!Call
    BY <1>2, <1>3, <1>5, <1>6, <1>8
    DEF Store!Call, Store!Load, Store!Put, Store!Remove, Store!Clear
  <1> QED
    BY <1>4, <1>7, <1>8 DEF Store!Next

(* No step of the code leaves a mixture of two tables in flash.            *)
THEOREM DurableCorrect == Spec => [][NeverAMixture]_vars
  <1>1. Store!Init => ErasedBeforeWritten
    BY DEF Store!Init, ErasedBeforeWritten
  <1>2. ErasedBeforeWritten /\ [Store!Next]_(Store!vars) => ErasedBeforeWritten'
    BY StoreErasesFirst
  <1>3. ErasedBeforeWritten /\ [Store!Next]_(Store!vars) => [NeverAMixture]_vars
    BY StoreNeverMixes
  <1> QED
    BY <1>1, <1>2, <1>3, StoreImplemented, PTL DEF ImplementsStore, Store!Spec
=============================================================================
