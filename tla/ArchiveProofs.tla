----------------------------- MODULE ArchiveProofs -----------------------------
(***************************************************************************)
(* Proofs about Archive for any number of exporting stores, manifests,     *)
(* objects, foreign archives and acts of the environment.                  *)
(***************************************************************************)
EXTENDS Archive, FiniteSetTheorems, SequenceTheorems, TLAPS

(* A finite set of numbers can be listed in increasing order: every element has a
   rank, the number of elements up to it.                                     *)
LEMMA SortedListExists ==
  ASSUME NEW S \in SUBSET Nat, IsFiniteSet(S)
  PROVE  \E s \in [1..Cardinality(S) -> S] :
           \A i, j \in 1..Cardinality(S) : i < j => s[i] < s[j]
<1> DEFINE n == Cardinality(S)
           upTo(h) == {x \in S : x <= h}
           rank == [h \in S |-> Cardinality(upTo(h))]
<1>1. n \in Nat
  BY FS_CardinalityType
<1>2. \A h \in S : /\ IsFiniteSet(upTo(h)) /\ upTo(h) # {}
                   /\ Cardinality(upTo(h)) \in Nat /\ Cardinality(upTo(h)) <= n
  BY FS_Subset, FS_CardinalityType
<1>3. \A h \in S : rank[h] \in 1..n
  BY <1>1, <1>2, FS_EmptySet
<1>4. ASSUME NEW x \in S, NEW y \in S, x < y PROVE rank[x] < rank[y]
  <2>1. upTo(x) \subseteq upTo(y) /\ y \in upTo(y) /\ y \notin upTo(x)
    <3>1. x \in Nat /\ y \in Nat /\ \A z \in S : z \in Nat
      OBVIOUS
    <3>2. \A z \in S : z <= x => z <= y
      BY <1>4, <3>1
    <3>3. y <= y /\ ~ (y <= x)
      BY <1>4, <3>1
    <3> QED BY <3>2, <3>3
  <2>2. Cardinality(upTo(x)) <= Cardinality(upTo(y))
        /\ Cardinality(upTo(x)) # Cardinality(upTo(y))
    BY <1>2, <2>1, FS_Subset
  <2> QED BY <1>2, <2>2
<1>5. rank \in Injection(S, 1..n)
  <2>1. \A x, y \in S : x = y \/ x < y \/ y < x
    OBVIOUS
  <2>2. \A x, y \in S : rank[x] = rank[y] => x = y
    BY <1>3, <1>4, <2>1
  <2> QED BY <1>3, <2>2 DEF Injection, IsInjective
<1>6. rank \in Surjection(S, 1..n)
  BY <1>1, <1>5, FS_Injection, FS_Interval
<1> DEFINE s == [i \in 1..n |-> CHOOSE h \in S : rank[h] = i]
<1>7. \A i \in 1..n : s[i] \in S /\ rank[s[i]] = i
  <2>1. \A i \in 1..n : \E h \in S : rank[h] = i
    BY <1>6 DEF Surjection
  <2> QED BY <2>1
<1>8. ASSUME NEW i \in 1..n, NEW j \in 1..n, i < j PROVE s[i] < s[j]
  <2> HIDE DEF rank, s
  <2>1. s[i] \in Nat /\ s[j] \in Nat
    BY <1>7
  <2>2. rank[s[i]] = i /\ rank[s[j]] = j /\ s[i] \in S /\ s[j] \in S
    BY <1>7
  <2>3. s[j] < s[i] => j < i
    BY <1>4, <2>2
  <2>4. s[j] # s[i] /\ ~ (s[j] < s[i])
    BY <1>1, <1>8, <2>2, <2>3
  <2> QED BY <2>1, <2>4
<1>9. s \in [1..n -> S]
  BY <1>7
<1> QED BY <1>8, <1>9

(* The objects of a manifest are finitely many hashes. *)
LEMMA ObjectsFacts ==
  ASSUME NEW m \in Man
  PROVE  /\ Objects(m) \subseteq Hash /\ IsFiniteSet(Objects(m))
         /\ Cardinality(Objects(m)) \in Nat
<1>1. Refs[m] \in Seq(Hash)
  BY ArchiveAssumption
<1>2. Objects(m) \subseteq Hash
  BY <1>1, LenProperties, ElementOfSeq DEF Objects, ToSet
<1>3. IsFiniteSet(Hash)
  BY ArchiveAssumption, FS_Interval DEF Hash
<1> QED BY <1>2, <1>3, FS_Subset, FS_CardinalityType

(* sortedObjectHashes lists each of them once, in order. *)
LEMMA SortedFacts ==
  ASSUME NEW m \in Man
  PROVE  LET n == Cardinality(Objects(m))  s == SortedObjectHashes(m) IN
         /\ s \in Seq(Hash) /\ Len(s) = n
         /\ \A i \in 1..n : s[i] \in Objects(m)
         /\ \A i, j \in 1..n : i # j => s[i] # s[j]
         /\ \A h \in Objects(m) : \E i \in 1..n : s[i] = h
<1> DEFINE n == Cardinality(Objects(m))
           s == SortedObjectHashes(m)
           O == Objects(m)
<1>1. O \subseteq Hash /\ IsFiniteSet(O) /\ n \in Nat
  BY ObjectsFacts
<1>2. O \in SUBSET Nat
  BY <1>1, ArchiveAssumption DEF Hash
<1>3. s \in [1..n -> O] /\ \A i, j \in 1..n : i < j => s[i] < s[j]
  <2>1. \E t \in [1..n -> O] : \A i, j \in 1..n : i < j => t[i] < t[j]
    BY <1>1, <1>2, SortedListExists
  <2>2. \E t \in [1..n -> O] : \A i, j \in DOMAIN t : i < j => t[i] < t[j]
    BY <2>1
  <2>3. s \in [1..n -> O] /\ \A i, j \in DOMAIN s : i < j => s[i] < s[j]
    BY <2>2 DEF SortedObjectHashes
  <2> QED BY <2>3
<1> HIDE DEF s, n, O
<1>4. \A i, j \in 1..n : i # j => s[i] # s[j]
  <2>1. \A i \in 1..n : s[i] \in Nat
    BY <1>2, <1>3
  <2> QED BY <1>1, <1>3, <2>1
<1>5. s \in Injection(1..n, O)
  BY <1>3, <1>4 DEF Injection, IsInjective
<1>6. s \in Surjection(1..n, O)
  <2>1. IsFiniteSet(1..n) /\ Cardinality(1..n) = n
    BY <1>1, FS_Interval
  <2>2. Cardinality(1..n) = Cardinality(O)
    BY <2>1 DEF n, O
  <2> QED BY <1>1, <1>5, <2>2, FS_Injection
<1>7. \A h \in O : \E i \in 1..n : s[i] = h
  BY <1>6 DEF Surjection
<1>8. s \in Seq(Hash) /\ Len(s) = n
  BY <1>1, <1>3
<1> QED BY <1>3, <1>4, <1>7, <1>8 DEF s, n, O

(* The manifest and the checksums do not have the name of an object. *)
LEMMA NameFacts ==
  /\ Manifest \in 0..Checksums /\ Checksums \in 0..Checksums /\ Manifest # Checksums
  /\ \A h \in Hash : h \in 0..Checksums /\ h # Checksums /\ h # Manifest
BY ArchiveAssumption DEF Hash, Manifest, Checksums

(* The names of a whole archive are all different. *)
LEMMA LayoutFacts ==
  ASSUME NEW m \in Man
  PROVE  LET n == Cardinality(Objects(m)) IN
         /\ n \in Nat /\ Layout(m) \in Seq(0..Checksums) /\ Len(Layout(m)) = n + 2
         /\ Layout(m)[1] = Manifest /\ Layout(m)[n + 2] = Checksums
         /\ \A i \in 2..n + 1 : /\ Layout(m)[i] = SortedObjectHashes(m)[i - 1]
                                /\ Layout(m)[i] \in Objects(m)
         /\ \A h \in Objects(m) : \E i \in 2..n + 1 : Layout(m)[i] = h
         /\ \A i, j \in 1..n + 2 : Layout(m)[i] = Layout(m)[j] => i = j
<1> DEFINE n == Cardinality(Objects(m))
           s == SortedObjectHashes(m)
           L == Layout(m)
           N == 0..Checksums
<1>1. n \in Nat /\ s \in Seq(Hash) /\ Len(s) = n
  BY ObjectsFacts, SortedFacts
<1>2. MaxHash \in Nat /\ Hash \subseteq N /\ Manifest \in N \ Hash
      /\ Checksums \in N \ Hash /\ Manifest # Checksums
  BY ArchiveAssumption DEF Hash, Manifest, Checksums
<1>3. s \in Seq(N) /\ <<Manifest>> \in Seq(N) /\ <<Checksums>> \in Seq(N)
      /\ Len(<<Manifest>>) = 1 /\ Len(<<Checksums>>) = 1
  <2>1. s \in Seq(N)
    BY <1>1, <1>2, SeqMonotonic
  <2> HIDE DEF N
  <2> QED BY <1>2, <2>1
<1> HIDE DEF N, n, s
<1>4. /\ <<Manifest>> \o s \in Seq(N) /\ Len(<<Manifest>> \o s) = n + 1
      /\ \A i \in 1..n + 1 : (<<Manifest>> \o s)[i] = IF i <= 1 THEN Manifest ELSE s[i - 1]
  BY <1>1, <1>3, ConcatProperties
<1>5. /\ L \in Seq(N) /\ Len(L) = n + 2
      /\ \A i \in 1..n + 2 : L[i] = IF i <= n + 1 THEN (<<Manifest>> \o s)[i] ELSE Checksums
  <2>1. L = (<<Manifest>> \o s) \o <<Checksums>>
    BY DEF Layout, s
  <2> DEFINE t == <<Manifest>> \o s
  <2> HIDE DEF t
  <2> SUFFICES /\ t \o <<Checksums>> \in Seq(N) /\ Len(t \o <<Checksums>>) = n + 2
               /\ \A i \in 1..n + 2 : (t \o <<Checksums>>)[i] =
                                         IF i <= n + 1 THEN t[i] ELSE Checksums
    BY <2>1 DEF t
  <2>2. t \in Seq(N) /\ Len(t) = n + 1
    BY <1>4 DEF t
  <2> HIDE DEF L
  <2> QED BY <1>1, <1>3, <2>2, ConcatProperties
<1> HIDE DEF L
<1>6. L[1] = Manifest /\ L[n + 2] = Checksums
  BY <1>1, <1>4, <1>5
<1>7. \A i \in 2..n + 1 : L[i] = s[i - 1] /\ i - 1 \in 1..n
  BY <1>1, <1>4, <1>5
<1>8. \A i \in 1..n : s[i] \in Objects(m) /\ s[i] \in Hash
  BY SortedFacts, ObjectsFacts DEF n, s
<1>9. \A h \in Objects(m) : \E i \in 2..n + 1 : L[i] = h
  <2> TAKE h \in Objects(m)
  <2>1. PICK i \in 1..n : s[i] = h
    BY SortedFacts DEF n, s
  <2>2. i + 1 \in 2..n + 1 /\ (i + 1) - 1 = i
    BY <1>1
  <2> QED BY <1>7, <2>1, <2>2
<1>10. ASSUME NEW i \in 1..n + 2, NEW j \in 1..n + 2, L[i] = L[j] PROVE i = j
  <2>1. \A k \in 1..n + 2 : k = 1 \/ k = n + 2 \/ k \in 2..n + 1
    BY <1>1
  <2>2. \A k \in 2..n + 1 : L[k] \in Hash
    BY <1>7, <1>8
  <2>3. i \in 2..n + 1 /\ j \in 2..n + 1 => i = j
    <3>1. \A a, b \in 1..n : s[a] = s[b] => a = b
      BY SortedFacts DEF n, s
    <3> QED BY <1>1, <1>7, <1>10, <3>1
  <2> QED BY <1>2, <1>6, <1>10, <2>1, <2>2, <2>3
<1> QED BY <1>1, <1>5, <1>6, <1>7, <1>8, <1>9, <1>10 DEF n, s, L, N

(* One more entry in its place. *)
LEMMA AppendBegins ==
  ASSUME NEW m \in Man, NEW a \in Seq(Entry), NEW e \in Entry, Begins(a, m),
         e.name = Layout(m)[Len(a) + 1], e.man = m
  PROVE  /\ Append(a, e) \in Seq(Entry) /\ Len(Append(a, e)) = Len(a) + 1
         /\ Begins(Append(a, e), m)
         /\ Proper(a, m) /\ e.content = "good"
              /\ e.lines = (IF e.name = Checksums THEN Objects(m) ELSE {})
              => Proper(Append(a, e), m)
<1>1. /\ Append(a, e) \in Seq(Entry) /\ Len(Append(a, e)) = Len(a) + 1
      /\ \A i \in 1..Len(a) : Append(a, e)[i] = a[i]
      /\ Append(a, e)[Len(a) + 1] = e
      /\ Len(a) \in Nat
  BY AppendProperties, LenProperties
<1>2. \A i \in 1..Len(a) + 1 : i \in 1..Len(a) \/ i = Len(a) + 1
  BY <1>1
<1> DEFINE b == Append(a, e)
<1> HIDE DEF b
<1>3. Begins(b, m)
  BY <1>1, <1>2 DEF Begins, b
<1>4. Proper(a, m) /\ e.content = "good"
        /\ e.lines = (IF e.name = Checksums THEN Objects(m) ELSE {})
      => Proper(b, m)
  BY <1>1, <1>2 DEF Proper, b
<1> QED BY <1>1, <1>3, <1>4 DEF b

(* The initial states satisfy the inductive invariant. *)
LEMMA InitInvariant == Init => IInv
<1> SUFFICES ASSUME Init PROVE IInv
  OBVIOUS
<1>1. PICK a \in Foreign :
        file = [entries |-> a, durable |-> Len(a), origin |-> "foreign"]
  BY DEF Init
<1>2. a \in Seq(Entry) /\ Len(a) \in Nat
  BY <1>1, ArchiveAssumption, LenProperties
<1>3. <<>> \in Seq(Entry) /\ <<>> \in Seq(Hash) /\ Len(<<>>) = 0
  BY EmptySeq
<1>4. dst \in [Hash -> States] /\ rows \subseteq Hash
  BY ArchiveAssumption DEF Init
<1>5. TypeOK
  <2>1. file \in [entries : Seq(Entry), durable : Nat, origin : {"foreign", "unsound", "sound"}]
        /\ file.durable <= Len(file.entries)
    BY <1>1, <1>2
  <2>2. /\ left \in [Src -> Seq(Hash)] /\ staged \in [Src -> Seq(Entry)]
        /\ synced \in [Src -> Nat] /\ \A p \in Src : synced[p] <= Len(staged[p])
    BY <1>3 DEF Init
  <2>3. src \in [Src -> [Hash -> States]]
    BY DEF Init, States
  <2> QED BY <1>3, <1>4, <2>1, <2>2, <2>3, ArchiveAssumption DEF Init, TypeOK, States
<1>6. StagedInv
  BY DEF Init, StagedInv
<1>7. FileInv
  BY <1>1 DEF FileInv
<1>8. RowInv /\ ImportedIntact /\ OnlyVerifiedAdopted
  BY <1>4 DEF Init, RowInv, ImportedIntact, OnlyVerifiedAdopted
<1> QED BY <1>5, <1>6, <1>7, <1>8 DEF IInv

(* A step of one export that touches nothing but its own staging. *)
LEMMA StagingPreserves ==
  ASSUME IInv, NEW p \in Src, UNCHANGED <<file, src, store, import, history>>,
         NEW m \in Man \cup {NoMan}, exporting' = [exporting EXCEPT ![p] = m],
         NEW l \in Seq(Hash), left' = [left EXCEPT ![p] = l],
         NEW a \in Seq(Entry), staged' = [staged EXCEPT ![p] = a],
         NEW k \in 0..Len(a), synced' = [synced EXCEPT ![p] = k],
         stat' \in [Src -> [Hash -> {"full", "short"}]],
         NEW b \in BOOLEAN, sound' = [sound EXCEPT ![p] = b],
         m = NoMan => a = <<>> /\ l = <<>>,
         m # NoMan =>
           /\ Len(a) \in 1..Cardinality(Objects(m)) + 2
           /\ l = SubSeq(SortedObjectHashes(m), Len(a), Cardinality(Objects(m)))
           /\ Begins(a, m)
           /\ b => (\A h \in Objects(m) : src[p][h] = "good") /\ Proper(a, m)
  PROVE  IInv'
<1> USE DEF store, import, history
<1>1. Len(a) \in Nat
  BY LenProperties
<1>2. TypeOK'
  BY <1>1 DEF IInv, TypeOK
<1>3. StagedInv'
  <2> SUFFICES ASSUME NEW q \in Src
               PROVE  (IF exporting[q] = NoMan THEN staged[q] = <<>> /\ left[q] = <<>>
                                               ELSE Staged(q, exporting[q]))'
    BY DEF StagedInv
  <2>1. /\ exporting'[q] = IF q = p THEN m ELSE exporting[q]
        /\ left'[q] = IF q = p THEN l ELSE left[q]
        /\ staged'[q] = IF q = p THEN a ELSE staged[q]
        /\ sound'[q] = IF q = p THEN b ELSE sound[q]
        /\ src' = src
    BY DEF IInv, TypeOK
  <2>2. CASE q = p
    BY <2>1, <2>2 DEF Staged
  <2>3. CASE q # p
    <3>1. IF exporting[q] = NoMan THEN staged[q] = <<>> /\ left[q] = <<>>
                                  ELSE Staged(q, exporting[q])
      BY DEF IInv, StagedInv
    <3> QED BY <2>1, <2>3, <3>1 DEF Staged
  <2> QED BY <2>2, <2>3
<1>4. FileInv' /\ RowInv' /\ ImportedIntact' /\ OnlyVerifiedAdopted'
  BY DEF IInv, FileInv, RowInv, ImportedIntact, OnlyVerifiedAdopted
<1> QED BY <1>2, <1>3, <1>4 DEF IInv

(* What an export that runs has staged. *)
LEMMA StagedFacts ==
  ASSUME IInv, NEW p \in Src, exporting[p] # NoMan
  PROVE  LET m == exporting[p]  n == Cardinality(Objects(m))  w == Len(staged[p]) IN
         /\ m \in Man /\ n \in Nat /\ w \in 1..n + 2
         /\ Staged(p, m) /\ staged[p] \in Seq(Entry)
         /\ left[p] \in Seq(Hash)
         /\ left[p] # <<>> <=> w <= n
         /\ w <= n => /\ Head(left[p]) = Layout(m)[w + 1]
                      /\ Head(left[p]) \in Objects(m) /\ Head(left[p]) \in Hash
                      /\ Tail(left[p]) = SubSeq(SortedObjectHashes(m), w + 1, n)
         /\ Sealed(p) <=> w = n + 2
<1> DEFINE m == exporting[p]
           n == Cardinality(Objects(m))
           w == Len(staged[p])
           s == SortedObjectHashes(m)
<1>1. m \in Man /\ staged[p] \in Seq(Entry) /\ left[p] \in Seq(Hash) /\ synced[p] \in Nat
      /\ Staged(p, m)
  BY DEF IInv, TypeOK, StagedInv
<1>2. n \in Nat /\ w \in 1..n + 2 /\ left[p] = SubSeq(s, w, n) /\ Begins(staged[p], m)
  BY <1>1, ObjectsFacts DEF Staged
<1>3. s \in Seq(Hash) /\ Len(s) = n
  BY <1>1, SortedFacts
<1>4. ASSUME w > n PROVE left[p] = <<>>
  BY <1>2, <1>4, SubSeqEmpty
<1>5. ASSUME w <= n
      PROVE  /\ left[p] # <<>> /\ Head(left[p]) = s[w]
             /\ Tail(left[p]) = SubSeq(s, w + 1, n)
  <2> HIDE DEF s, w, n
  <2>1. w \in 1..Len(s) /\ n \in w..Len(s)
    BY <1>2, <1>3, <1>5
  <2>2. Head(SubSeq(s, w, n)) = s[w] /\ Tail(SubSeq(s, w, n)) = SubSeq(s, w + 1, n)
    BY <1>3, <2>1, HeadTailOfSubSeq
  <2>3. Len(SubSeq(s, w, n)) = n - w + 1
    <3>1. \A i \in w..n : s[i] \in Hash
      BY <1>3, <2>1, ElementOfSeq
    <3> QED BY <1>2, <1>5, <2>1, <3>1, SubSeqProperties
  <2>4. Len(SubSeq(s, w, n)) # 0
    BY <1>2, <1>5, <2>3
  <2> QED BY <1>2, <2>2, <2>4, EmptySeq
<1>6. w <= n => s[w] = Layout(m)[w + 1] /\ s[w] \in Objects(m) /\ s[w] \in Hash
  <2> SUFFICES ASSUME w <= n
               PROVE  s[w] = Layout(m)[w + 1] /\ s[w] \in Objects(m) /\ s[w] \in Hash
    OBVIOUS
  <2> HIDE DEF w, n
  <2>1. w + 1 \in 2..n + 1 /\ (w + 1) - 1 = w
    BY <1>2
  <2> QED BY <1>1, <2>1, LayoutFacts, ObjectsFacts DEF n
<1>7. Sealed(p) <=> w = n + 2
  <2>1. Last(staged[p]).name = Layout(m)[w]
    BY <1>2 DEF Last, Begins
  <2>2. Layout(m)[n + 2] = Checksums /\ n + 2 \in 1..n + 2
        /\ \A i, j \in 1..n + 2 : Layout(m)[i] = Layout(m)[j] => i = j
    BY <1>1, <1>2, LayoutFacts
  <2>3. Last(staged[p]).name = Checksums <=> w = n + 2
    <3> HIDE DEF n, w
    <3> QED BY <1>2, <2>1, <2>2
  <2> QED BY <2>3 DEF Sealed
<1>8. w <= n \/ w > n
  BY <1>2
<1> QED BY <1>1, <1>2, <1>4, <1>5, <1>6, <1>7, <1>8

(* Every step of an export before its rename, and its failure. *)
LEMMA StagingSteps ==
  ASSUME IInv, NEW p \in Src,
         \/ \E m \in Man : BeginExport(p, m)
         \/ WriteObject(p) \/ WriteChecksums(p) \/ Sync(p) \/ ExportFails(p)
  PROVE  IInv'
<1>0. /\ exporting \in [Src -> Man \cup {NoMan}] /\ left \in [Src -> Seq(Hash)]
      /\ staged \in [Src -> Seq(Entry)] /\ synced \in [Src -> Nat]
      /\ synced[p] \in 0..Len(staged[p]) /\ Len(staged[p]) \in Nat
      /\ stat \in [Src -> [Hash -> {"full", "short"}]] /\ sound \in [Src -> BOOLEAN]
      /\ src \in [Src -> [Hash -> States]] /\ NoMan \notin Man
  BY ArchiveAssumption, LenProperties DEF IInv, TypeOK
<1>1. ASSUME NEW m \in Man, BeginExport(p, m) PROVE IInv'
  <2> DEFINE e == [name |-> Manifest, man |-> m, lines |-> {}, content |-> "good"]
             b == \A h \in Objects(m) : src[p][h] = "good"
             n == Cardinality(Objects(m))
             s == SortedObjectHashes(m)
             t == [stat EXCEPT ![p] = [h \in Hash |-> Size(src[p][h])]]
  <2> DEFINE a == Append(staged[p], e)
  <2>1. staged[p] = <<>> /\ staged[p] \in Seq(Entry) /\ Len(staged[p]) = 0
    BY <1>0, <1>1, EmptySeq DEF BeginExport, IInv, StagedInv
  <2>2. e \in Entry /\ n \in Nat
    BY NameFacts, ObjectsFacts DEF Entry, Contents
  <2>3. Begins(staged[p], m) /\ Proper(staged[p], m)
    BY <2>1 DEF Begins, Proper
  <2>4. /\ e.name = Layout(m)[Len(staged[p]) + 1] /\ e.man = m /\ e.content = "good"
        /\ e.lines = IF e.name = Checksums THEN Objects(m) ELSE {}
    BY <2>1, NameFacts, LayoutFacts
  <2>5. a \in Seq(Entry) /\ Len(a) = 1 /\ Begins(a, m) /\ Proper(a, m)
    <3> HIDE DEF e, n
    <3>1. /\ Append(staged[p], e) \in Seq(Entry)
          /\ Len(Append(staged[p], e)) = Len(staged[p]) + 1
          /\ Begins(Append(staged[p], e), m)
      BY <2>1, <2>2, <2>3, <2>4, AppendBegins
    <3>2. Proper(Append(staged[p], e), m)
      BY <2>1, <2>2, <2>3, <2>4, AppendBegins
    <3> QED BY <2>1, <3>1, <3>2
  <2>6. s \in Seq(Hash) /\ s = SubSeq(s, 1, n)
    BY SortedFacts, SubSeqFull
  <2>7. t \in [Src -> [Hash -> {"full", "short"}]]
    BY <1>0 DEF Size
  <2>8. /\ UNCHANGED <<file, src, store, import, history>>
        /\ exporting' = [exporting EXCEPT ![p] = m] /\ left' = [left EXCEPT ![p] = s]
        /\ staged' = [staged EXCEPT ![p] = a]
        /\ synced' = [synced EXCEPT ![p] = synced[p]]
        /\ stat' = t /\ sound' = [sound EXCEPT ![p] = b]
    BY <1>0, <1>1 DEF BeginExport, Write
  <2>9. synced[p] \in 0..Len(a) /\ b \in BOOLEAN /\ m # NoMan
    BY <1>0, <2>1, <2>5
  <2>10. Len(a) \in 1..n + 2
    BY <2>2, <2>5
  <2>11. s = SubSeq(s, Len(a), n)
    BY <2>5, <2>6
  <2> HIDE DEF e, s, t, n, a
  <2>12. s = SubSeq(SortedObjectHashes(m), Len(a), Cardinality(Objects(m)))
         /\ Len(a) \in 1..Cardinality(Objects(m)) + 2
    BY <2>10, <2>11 DEF s, n
  <2>13. b \in BOOLEAN /\ (b => (\A h \in Objects(m) : src[p][h] = "good") /\ Proper(a, m))
    BY <2>5 DEF b
  <2>14. m \in Man \cup {NoMan} /\ m # NoMan /\ s \in Seq(Hash)
    BY <2>6, <2>9
  <2> HIDE DEF b
  <2> QED BY <2>5, <2>7, <2>8, <2>9, <2>12, <2>13, <2>14, StagingPreserves
<1> DEFINE m == exporting[p]
           n == Cardinality(Objects(m))
           w == Len(staged[p])
<1>2. CASE WriteObject(p)
  <2>1. m # NoMan
    BY <1>2 DEF WriteObject, IInv, StagedInv
  <2>2. /\ m \in Man /\ n \in Nat /\ w \in 1..n /\ left[p] \in Seq(Hash)
        /\ Head(left[p]) = Layout(m)[w + 1] /\ Head(left[p]) \in Objects(m)
        /\ Head(left[p]) \in Hash
        /\ Tail(left[p]) = SubSeq(SortedObjectHashes(m), w + 1, n)
        /\ Staged(p, m)
    <3>1. left[p] # <<>>
      BY <1>2 DEF WriteObject
    <3>2. m \in Man /\ n \in Nat /\ w \in 1..n + 2 /\ w <= n
      BY <2>1, <3>1, StagedFacts
    <3> HIDE DEF m, n, w
    <3>3. w \in 1..n
      BY <3>2
    <3> QED BY <2>1, <3>2, <3>3, StagedFacts DEF m, n, w
  <2> DEFINE h == Head(left[p])
             e == [name |-> h, man |-> m, lines |-> {},
                   content |-> IF src[p][h] = "good" THEN "good" ELSE "bad"]
             a == Append(staged[p], e)
             l == Tail(left[p])
  <2>3. h # Checksums /\ h \in 0..Checksums
    BY <2>2, NameFacts
  <2>4. e \in Entry
    BY <2>2, <2>3 DEF Entry, Contents
  <2>5. l \in Seq(Hash)
    BY <1>2, <2>2, HeadTailProperties DEF WriteObject
  <2>6. /\ UNCHANGED <<file, src, store, import, history>>
        /\ exporting' = [exporting EXCEPT ![p] = m] /\ left' = [left EXCEPT ![p] = l]
        /\ staged' = [staged EXCEPT ![p] = a]
        /\ synced' = [synced EXCEPT ![p] = synced[p]]
        /\ stat' = stat /\ sound' = [sound EXCEPT ![p] = sound[p]]
    BY <1>0, <1>2 DEF WriteObject, Write
  <2>7. sound[p] \in BOOLEAN /\ synced[p] \in 0..(w + 1)
    BY <1>0
  <2>8. sound[p] => e.content = "good" /\ \A x \in Objects(m) : src[p][x] = "good"
    BY <2>2 DEF Staged
  <2>9. Begins(staged[p], m) /\ (sound[p] => Proper(staged[p], m)) /\ e.man = m
        /\ e.name = h /\ e.lines = {}
    BY <2>2 DEF Staged
  <2>10. /\ a \in Seq(Entry) /\ Len(a) = w + 1 /\ Begins(a, m)
         /\ sound[p] => Proper(a, m)
    <3> HIDE DEF e, n, h
    <3>1. e.name = Layout(m)[w + 1]
      BY <2>2, <2>9 DEF h
    <3>2. e.lines = IF e.name = Checksums THEN Objects(m) ELSE {}
      BY <2>3, <2>9
    <3> HIDE DEF m
    <3> QED BY <1>0, <2>2, <2>4, <2>8, <2>9, <3>1, <3>2, AppendBegins
  <2>11. w + 1 \in 1..n + 2
    BY <2>2
  <2> HIDE DEF e, h, a, l, m, n
  <2>12. m \in Man \cup {NoMan} /\ l = SubSeq(SortedObjectHashes(m), Len(a), n)
    BY <2>2, <2>10 DEF l
  <2> QED BY <1>0, <2>1, <2>2, <2>5, <2>6, <2>7, <2>8, <2>10, <2>11, <2>12,
             StagingPreserves DEF n
<1>3. CASE WriteChecksums(p)
  <2>1. m # NoMan /\ left[p] = <<>> /\ ~ Sealed(p)
    BY <1>3 DEF WriteChecksums
  <2>2. /\ m \in Man /\ n \in Nat /\ w = n + 1 /\ Staged(p, m)
    <3>1. /\ m \in Man /\ n \in Nat /\ w \in 1..n + 2 /\ Staged(p, m)
          /\ ~ (w <= n) /\ w # n + 2
      BY <2>1, StagedFacts
    <3> QED BY <3>1
  <2> DEFINE e == [name |-> Checksums, man |-> m, lines |-> Objects(m), content |-> "good"]
             a == Append(staged[p], e)
  <2>3. e \in Entry
    BY <2>2, ObjectsFacts, ArchiveAssumption DEF Entry, Contents, Checksums
  <2>4. /\ UNCHANGED <<file, src, store, import, history>>
        /\ exporting' = [exporting EXCEPT ![p] = m] /\ left' = [left EXCEPT ![p] = <<>>]
        /\ staged' = [staged EXCEPT ![p] = a]
        /\ synced' = [synced EXCEPT ![p] = synced[p]]
        /\ stat' = stat /\ sound' = [sound EXCEPT ![p] = sound[p]]
    BY <1>0, <1>3, <2>1 DEF WriteChecksums, Write
  <2>5. sound[p] \in BOOLEAN /\ synced[p] \in 0..(w + 1)
    BY <1>0
  <2>6. Begins(staged[p], m) /\ (sound[p] => Proper(staged[p], m))
        /\ (sound[p] => \A x \in Objects(m) : src[p][x] = "good")
    BY <2>2 DEF Staged
  <2>7. /\ a \in Seq(Entry) /\ Len(a) = w + 1 /\ Begins(a, m)
        /\ sound[p] => Proper(a, m)
    <3>1. e.name = Layout(m)[w + 1] /\ e.man = m /\ e.content = "good"
          /\ e.lines = IF e.name = Checksums THEN Objects(m) ELSE {}
      <4>1. (n + 1) + 1 = n + 2
        BY <2>2
      <4> QED BY <2>2, <4>1, LayoutFacts
    <3> HIDE DEF e, n, m
    <3> QED BY <1>0, <2>2, <2>3, <2>6, <3>1, AppendBegins
  <2>8. <<>> \in Seq(Hash) /\ <<>> = SubSeq(SortedObjectHashes(m), n + 2, n)
    BY <2>2, SubSeqEmpty, EmptySeq
  <2>9. Len(a) = n + 2 /\ Len(a) \in 1..n + 2 /\ m \in Man \cup {NoMan}
        /\ synced[p] \in 0..Len(a)
    BY <2>2, <2>5, <2>7
  <2>10. <<>> = SubSeq(SortedObjectHashes(m), Len(a), n) /\ <<>> \in Seq(Hash)
    BY <2>8, <2>9
  <2> HIDE DEF e, a, m, n
  <2> QED BY <1>0, <2>1, <2>4, <2>5, <2>6, <2>7, <2>9, <2>10, StagingPreserves, ZenonT(30) DEF n
<1>4. CASE Sync(p)
  <2>1. m # NoMan
    BY <1>4 DEF Sync, Sealed
  <2>2. m \in Man /\ Staged(p, m)
    BY <2>1, StagedFacts
  <2>3. /\ UNCHANGED <<file, src, store, import, history>>
        /\ exporting' = [exporting EXCEPT ![p] = m] /\ left' = [left EXCEPT ![p] = left[p]]
        /\ staged' = [staged EXCEPT ![p] = staged[p]]
        /\ synced' = [synced EXCEPT ![p] = w]
        /\ stat' = stat /\ sound' = [sound EXCEPT ![p] = sound[p]]
    BY <1>0, <1>4 DEF Sync
  <2>4. w \in 0..w /\ staged[p] \in Seq(Entry) /\ left[p] \in Seq(Hash)
        /\ sound[p] \in BOOLEAN /\ m \in Man \cup {NoMan}
    BY <1>0
  <2> HIDE DEF m, n
  <2> QED BY <1>0, <2>1, <2>2, <2>3, <2>4, StagingPreserves DEF Staged
<1>5. CASE ExportFails(p)
  <2>1. /\ UNCHANGED <<file, src, store, import, history>>
        /\ exporting' = [exporting EXCEPT ![p] = NoMan] /\ left' = [left EXCEPT ![p] = <<>>]
        /\ staged' = [staged EXCEPT ![p] = <<>>]
        /\ synced' = [synced EXCEPT ![p] = 0]
        /\ stat' \in [Src -> [Hash -> {"full", "short"}]]
        /\ sound' = [sound EXCEPT ![p] = FALSE]
    BY <1>0, <1>5 DEF ExportFails, Drop
  <2>2. <<>> \in Seq(Entry) /\ <<>> \in Seq(Hash) /\ 0 \in 0..Len(<<>>)
    BY EmptySeq
  <2> QED BY <2>1, <2>2, StagingPreserves
<1> QED BY <1>1, <1>2, <1>3, <1>4, <1>5

Distinct(a) == \A i, j \in DOMAIN a : a[i].name = a[j].name => i = j

(* A beginning of a whole archive holds no entry twice. *)
LEMMA BeginsDistinct ==
  ASSUME NEW m \in Man, NEW a \in Seq(Entry), Begins(a, m),
         Len(a) <= Cardinality(Objects(m)) + 2
  PROVE  Distinct(a)
<1> DEFINE n == Cardinality(Objects(m))
<1>1. n \in Nat /\ Len(a) \in Nat /\ DOMAIN a = 1..Len(a)
  BY ObjectsFacts, LenProperties
<1>2. \A i, j \in 1..n + 2 : Layout(m)[i] = Layout(m)[j] => i = j
  BY LayoutFacts
<1> HIDE DEF n
<1>3. \A i \in 1..Len(a) : i \in 1..n + 2
  BY <1>1 DEF n
<1> QED BY <1>1, <1>2, <1>3 DEF Distinct, Begins

(* What the rename puts under the real name is whole and on the disk. *)
LEMMA PublishPreserves ==
  ASSUME IInv, NEW p \in Src, Publish(p)
  PROVE  IInv'
<1> DEFINE m == exporting[p]
           n == Cardinality(Objects(m))
           a == staged[p]
<1>1. /\ m \in Man /\ n \in Nat /\ Staged(p, m) /\ a \in Seq(Entry)
      /\ Len(a) = n + 2 /\ synced[p] = Len(a) /\ sound[p] \in BOOLEAN
  <2>1. m # NoMan /\ Sealed(p)
    BY DEF Publish, Sealed
  <2> QED BY <2>1, StagedFacts DEF Publish, IInv, TypeOK
<1>2. Begins(a, m) /\ (sound[p] => Proper(a, m))
  BY <1>1 DEF Staged
<1>3. file' = [entries |-> a, durable |-> Len(a),
               origin |-> IF sound[p] THEN "sound" ELSE "unsound"]
  BY <1>1 DEF Publish
<1>4. /\ UNCHANGED <<src, store, import, history>>
      /\ exporting' = [exporting EXCEPT ![p] = NoMan] /\ left' = [left EXCEPT ![p] = <<>>]
      /\ staged' = [staged EXCEPT ![p] = <<>>] /\ synced' = [synced EXCEPT ![p] = 0]
      /\ stat' = [stat EXCEPT ![p] = [h \in Hash |-> "full"]]
      /\ sound' = [sound EXCEPT ![p] = FALSE]
  BY DEF Publish, Drop
<1> USE DEF store, import, history
<1>5. TypeOK'
  <2>1. Len(a) \in Nat /\ <<>> \in Seq(Entry) /\ <<>> \in Seq(Hash) /\ Len(<<>>) = 0
    BY <1>1, LenProperties, EmptySeq
  <2>2. /\ file' \in [entries : Seq(Entry), durable : Nat,
                      origin : {"foreign", "unsound", "sound"}]
        /\ file'.durable <= Len(file'.entries)
    BY <1>1, <1>3, <2>1
  <2> QED BY <1>4, <2>1, <2>2 DEF IInv, TypeOK
<1>6. StagedInv'
  <2> SUFFICES ASSUME NEW q \in Src
               PROVE  (IF exporting[q] = NoMan THEN staged[q] = <<>> /\ left[q] = <<>>
                                               ELSE Staged(q, exporting[q]))'
    BY DEF StagedInv
  <2>1. /\ exporting'[q] = IF q = p THEN NoMan ELSE exporting[q]
        /\ left'[q] = IF q = p THEN <<>> ELSE left[q]
        /\ staged'[q] = IF q = p THEN <<>> ELSE staged[q]
        /\ sound'[q] = IF q = p THEN FALSE ELSE sound[q]
        /\ src' = src
    BY <1>4 DEF IInv, TypeOK
  <2>2. IF exporting[q] = NoMan THEN staged[q] = <<>> /\ left[q] = <<>>
                                ELSE Staged(q, exporting[q])
    BY DEF IInv, StagedInv
  <2> QED BY <2>1, <2>2 DEF Staged
<1>7. FileInv'
  <2> HIDE DEF a, m
  <2>1. file'.entries = a /\ file'.durable = Len(a)
        /\ (file'.origin = "sound" => sound[p])
    BY <1>3
  <2> QED BY <1>1, <1>2, <2>1 DEF FileInv
<1>8. RowInv' /\ ImportedIntact' /\ OnlyVerifiedAdopted'
  BY <1>4 DEF IInv, RowInv, ImportedIntact, OnlyVerifiedAdopted
<1> QED BY <1>5, <1>6, <1>7, <1>8 DEF IInv

(* A verified object is placed, or was there: the local store only gains. *)
LEMMA PlaceFacts ==
  ASSUME IInv, NEW e \in Entry, need \in Man, Place(e), UNCHANGED <<catalog, harmed>>
  PROVE  /\ e.name \in Hash /\ dst' \in [Hash -> States] /\ dst'[e.name] # "absent"
         /\ \A h \in Hash : dst[h] # "absent" => dst'[h] # "absent"
         /\ ImportedIntact' /\ OnlyVerifiedAdopted'
<1>1. e.name \in Hash /\ dst \in [Hash -> States] /\ catalog \subseteq Man
  BY ObjectsFacts DEF IInv, TypeOK, Place
<1>2. /\ DOMAIN dst' = Hash
      /\ \A h \in Hash : dst'[h] = IF h = e.name /\ dst[h] = "absent" THEN "good" ELSE dst[h]
  BY <1>1 DEF Place
<1>3. dst' \in [Hash -> States]
  <2>1. \A h \in Hash : dst'[h] \in States
    BY <1>1, <1>2 DEF States
  <2>2. dst' = [h \in Hash |-> dst'[h]]
    BY <1>1 DEF Place
  <2> QED BY <2>1, <2>2
<1>4. ImportedIntact'
  <2>1. \A x \in Man : Objects(x) \subseteq Hash
    BY ObjectsFacts
  <2> QED BY <1>1, <1>2, <2>1 DEF ImportedIntact, IInv
<1>5. OnlyVerifiedAdopted'
  BY <1>2 DEF OnlyVerifiedAdopted, IInv
<1> QED BY <1>1, <1>2, <1>3, <1>4, <1>5

(* The steps of an import.  Nothing is asked of what the two passes read: each row
   has its file, and the snapshot is entered over rows alone.                  *)
LEMMA ImportSteps ==
  ASSUME IInv, Import
  PROVE  IInv'
<1> USE DEF export, store, import, history
<1>1. UNCHANGED <<file, src, export, history>>
  BY DEF Import, BeginImport, Reopen, AdoptEntry, AdoptUnrecorded, EndAdopt, Register,
         ImportFails
<1>2. StagedInv' /\ FileInv'
  BY <1>1 DEF IInv, StagedInv, FileInv, Staged
<1>3. /\ file.entries \in Seq(Entry) /\ reader \in Seq(Entry) /\ done \in Nat
      /\ dst \in [Hash -> States] /\ rows \subseteq Hash /\ catalog \subseteq Man
      /\ <<>> \in Seq(Entry) /\ NoMan \notin Man /\ need \in Man \cup {NoMan}
  BY ArchiveAssumption, EmptySeq DEF IInv, TypeOK
<1>4. pass \in {"indexed", "adopt", "register"} => need \in Man
  BY DEF IInv, TypeOK
<1>5. ASSUME TypeOK', UNCHANGED store PROVE IInv'
  BY <1>1, <1>2, <1>5 DEF IInv, RowInv, ImportedIntact, OnlyVerifiedAdopted
<1>6. CASE (\E m \in Man : BeginImport(m)) \/ Reopen \/ EndAdopt \/ ImportFails
  <2>1. /\ pass' \in {"idle", "indexed", "adopt", "register"}
        /\ need' \in Man \cup {NoMan} /\ (pass' # "idle" => need' \in Man)
    BY <1>3, <1>4, <1>6 DEF BeginImport, Reopen, EndAdopt, ImportFails, ImportDone
  <2>2. \/ reader' = reader /\ done' = done
        \/ reader' = file.entries /\ done' = done
        \/ reader' = <<>> /\ done' = 0
    BY <1>6, Zenon DEF BeginImport, Reopen, EndAdopt, ImportFails, ImportDone
  <2>3. UNCHANGED store
    BY <1>6 DEF BeginImport, Reopen, EndAdopt, ImportFails
  <2>4. TypeOK'
    <3>1. reader' \in Seq(Entry)
      BY <1>3, <2>2, Zenon
    <3>2. done' \in Nat
      BY <1>3, <2>2
    <3> QED BY <1>1, <2>1, <2>3, <3>1, <3>2 DEF IInv, TypeOK
  <2> QED BY <1>5, <2>3, <2>4
<1>7. ASSUME pass = "adopt", reader # <<>>, Place(Head(reader)),
             rows' = rows \/ rows' = rows \cup {Head(reader).name},
             catalog' = catalog, reader' \in Seq(Entry), done' \in Nat,
             pass' \in {"idle", "adopt"}, need' \in {need, NoMan},
             pass' = "adopt" => need' = need
      PROVE  IInv'
  <2> DEFINE e == Head(reader)
  <2>1. e \in Entry /\ need \in Man
    BY <1>3, <1>4, <1>7, HeadTailProperties
  <2> HIDE DEF e
  <2>2. /\ e.name \in Hash /\ dst' \in [Hash -> States] /\ dst'[e.name] # "absent"
        /\ \A h \in Hash : dst[h] # "absent" => dst'[h] # "absent"
        /\ ImportedIntact' /\ OnlyVerifiedAdopted'
    BY <1>1, <1>7, <2>1, PlaceFacts DEF e
  <2>3. rows' \subseteq rows \cup {e.name} /\ rows' \subseteq Hash
    BY <1>3, <1>7, <2>2 DEF e
  <2>4. TypeOK'
    BY <1>1, <1>3, <1>7, <2>1, <2>2, <2>3 DEF IInv, TypeOK
  <2>5. RowInv'
    BY <1>1, <1>3, <2>2, <2>3 DEF RowInv, IInv
  <2> QED BY <1>2, <2>2, <2>4, <2>5 DEF IInv
<1>8. CASE AdoptEntry
  <2>1. pass = "adopt" /\ reader # <<>> /\ reader' = Tail(reader)
        /\ UNCHANGED <<catalog, pass, need>>
    BY <1>8 DEF AdoptEntry
  <2>2. reader' \in Seq(Entry)
    BY <1>3, <2>1, HeadTailProperties
  <2>3. CASE Place(Head(reader)) /\ rows' = rows \cup {Head(reader).name} /\ done' = done + 1
    <3>1. done' \in Nat
      BY <1>3, <2>3
    <3> QED BY <1>7, <2>1, <2>2, <2>3, <3>1
  <2>4. CASE UNCHANGED <<dst, rows, done>>
    <3>1. TypeOK'
      BY <1>1, <2>1, <2>2, <2>4 DEF IInv, TypeOK
    <3> QED BY <1>5, <2>1, <2>4, <3>1
  <2> QED BY <1>8, <2>3, <2>4 DEF AdoptEntry
<1>9. CASE AdoptUnrecorded
  BY <1>3, <1>7, <1>9 DEF AdoptUnrecorded, ImportDone
<1>10. CASE Register
  <2>1. need \in Man /\ UNCHANGED <<dst, rows>>
        /\ (catalog' = catalog \/ (Objects(need) \subseteq rows /\ catalog' = catalog \cup {need}))
    BY <1>4, <1>10 DEF Register
  <2>2. TypeOK'
    <3>1. catalog' \subseteq Man
      BY <1>3, <2>1
    <3> QED BY <1>1, <1>3, <1>10, <2>1, <3>1 DEF Register, ImportDone, IInv, TypeOK
  <2>3. Objects(need) \subseteq rows => \A h \in Objects(need) : dst[h] = "good" \/ h \in harmed
    BY <2>1, ObjectsFacts DEF IInv, RowInv, OnlyVerifiedAdopted
  <2>4. ImportedIntact'
    BY <1>1, <2>1, <2>3 DEF IInv, ImportedIntact
  <2>5. RowInv' /\ OnlyVerifiedAdopted'
    BY <1>1, <2>1 DEF IInv, RowInv, OnlyVerifiedAdopted
  <2> QED BY <1>2, <2>2, <2>4, <2>5 DEF IInv
<1> QED BY <1>6, <1>8, <1>9, <1>10 DEF Import

(* Another content for one entry leaves an archive. *)
LEMMA ContentFacts ==
  ASSUME NEW a \in Seq(Entry), NEW i \in 1..Len(a), NEW c \in Contents
  PROVE  [a EXCEPT ![i].content = c] \in Seq(Entry)
<1> DEFINE e == [a[i] EXCEPT !.content = c]
           b == [a EXCEPT ![i] = e]
<1>1. a[i] \in Entry /\ DOMAIN a = 1..Len(a)
  BY ElementOfSeq, LenProperties
<1>2. e \in Entry /\ e.name = a[i].name
  BY <1>1 DEF Entry
<1>3. [a EXCEPT ![i].content = c] = b
  OBVIOUS
<1> HIDE DEF e
<1>4. b \in Seq(Entry)
  BY <1>2, ExceptSeq
<1> QED BY <1>3, <1>4

(* The first entries of an archive. *)
LEMMA PrefixFacts ==
  ASSUME NEW a \in Seq(Entry), NEW n \in 0..Len(a)
  PROVE  SubSeq(a, 1, n) \in Seq(Entry) /\ Len(SubSeq(a, 1, n)) = n
<1>1. Len(a) \in Nat
  BY LenProperties
<1>2. \A i \in 1..n : a[i] \in Entry
  BY <1>1, ElementOfSeq
<1> QED BY <1>1, <1>2, SubSeqProperties

(* The environment: whatever it puts under the path is an archive, and what it does
   to the local store is held against it.                                     *)
LEMMA EnvironmentSteps ==
  ASSUME IInv, Environment
  PROVE  IInv'
<1> USE DEF export, store, import, history
<1>1. /\ file.entries \in Seq(Entry) /\ harms \in 0..MaxHarm /\ MaxHarm \in Nat
      /\ dst \in [Hash -> States] /\ src \in [Src -> [Hash -> States]]
      /\ sound \in [Src -> BOOLEAN] /\ harmed \in SUBSET Hash
      /\ Len(file.entries) \in Nat /\ DOMAIN file.entries = 1..Len(file.entries)
  BY ArchiveAssumption, LenProperties DEF IInv, TypeOK
<1>2. Act => harms' \in 0..MaxHarm
  BY <1>1 DEF Act
<1>3. ASSUME NEW a \in Seq(Entry), Carried(a) PROVE IInv'
  <2>1. /\ file' = [entries |-> a, durable |-> Len(a), origin |-> "foreign"]
        /\ UNCHANGED <<harmed, src, export, store, import>> /\ harms' \in 0..MaxHarm
    BY <1>2, <1>3 DEF Carried
  <2>2. Len(a) \in Nat
    BY LenProperties
  <2>3. TypeOK'
    <3>1. /\ file' \in [entries : Seq(Entry), durable : Nat,
                        origin : {"foreign", "unsound", "sound"}]
          /\ file'.durable <= Len(file'.entries)
      BY <2>1, <2>2
    <3> QED BY <2>1, <3>1 DEF IInv, TypeOK
  <2>4. StagedInv'
    BY <2>1 DEF IInv, StagedInv, Staged
  <2>5. FileInv' /\ RowInv' /\ ImportedIntact' /\ OnlyVerifiedAdopted'
    BY <1>3, <2>1
    DEF IInv, FileInv, RowInv, ImportedIntact, OnlyVerifiedAdopted
  <2> QED BY <2>3, <2>4, <2>5 DEF IInv
<1>4. ASSUME NEW h \in Hash, NEW s \in States \ {"good"}, DamageLocal(h, s) PROVE IInv'
  <2>1. /\ dst' = [dst EXCEPT ![h] = s] /\ harmed' = harmed \cup {h}
        /\ UNCHANGED <<rows, catalog, file, src, export, import>> /\ harms' \in 0..MaxHarm
    BY <1>2, <1>4 DEF DamageLocal
  <2>2. \A x \in Hash : dst'[x] = IF x = h THEN s ELSE dst[x]
    BY <1>1, <2>1
  <2>3. TypeOK'
    BY <1>1, <2>1 DEF IInv, TypeOK
  <2>4. StagedInv' /\ FileInv'
    BY <2>1 DEF IInv, StagedInv, Staged, FileInv
  <2>5. \A m \in Man : Objects(m) \subseteq Hash
    BY ObjectsFacts
  <2>6. \A x \in Hash : dst[x] # "absent" \/ x \in harmed
                        => dst'[x] # "absent" \/ x \in harmed'
    BY <2>1, <2>2
  <2>7. RowInv'
    <3>1. rows \subseteq Hash
      BY DEF IInv, TypeOK
    <3> QED BY <2>1, <2>6, <3>1 DEF IInv, RowInv
  <2>8. ImportedIntact'
    BY <1>1, <2>1, <2>2, <2>5 DEF IInv, ImportedIntact, TypeOK
  <2>9. OnlyVerifiedAdopted'
    BY <2>1, <2>2 DEF IInv, OnlyVerifiedAdopted
  <2> QED BY <2>3, <2>4, <2>7, <2>8, <2>9 DEF IInv
<1>5. ASSUME NEW h \in Hash, NEW s \in States \ {"good"}, NEW p \in Src,
             DamageSource(p, h, s)
      PROVE  IInv'
  <2>1. /\ src' = [src EXCEPT ![p][h] = s] /\ sound' = [sound EXCEPT ![p] = FALSE]
        /\ UNCHANGED <<exporting, stat, left, staged, synced, harmed, file, store, import>>
        /\ harms' \in 0..MaxHarm
    BY <1>2, <1>5 DEF DamageSource
  <2>2. TypeOK'
    <3>1. src' \in [Src -> [Hash -> States]] /\ sound' \in [Src -> BOOLEAN]
      BY <1>1, <2>1
    <3> QED BY <2>1, <3>1 DEF IInv, TypeOK
  <2>3. StagedInv'
    <3> SUFFICES ASSUME NEW q \in Src
                 PROVE  (IF exporting[q] = NoMan THEN staged[q] = <<>> /\ left[q] = <<>>
                                                 ELSE Staged(q, exporting[q]))'
      BY DEF StagedInv
    <3>1. IF exporting[q] = NoMan THEN staged[q] = <<>> /\ left[q] = <<>>
                                  ELSE Staged(q, exporting[q])
      BY DEF IInv, StagedInv
    <3>2. sound'[q] => sound[q] /\ src'[q] = src[q]
      BY <1>1, <2>1
    <3> QED BY <2>1, <3>1, <3>2 DEF Staged
  <2>4. FileInv' /\ RowInv' /\ ImportedIntact' /\ OnlyVerifiedAdopted'
    BY <2>1 DEF IInv, FileInv, RowInv, ImportedIntact, OnlyVerifiedAdopted
  <2> QED BY <2>2, <2>3, <2>4 DEF IInv
<1>6. ASSUME NEW n \in 0..Len(file.entries) - 1, Truncate(n) PROVE IInv'
  <2> DEFINE a == SubSeq(file.entries, 1, n)
  <2>1. n \in 0..Len(file.entries)
    BY <1>1
  <2>2. a \in Seq(Entry) /\ Len(a) = n
    BY <1>1, <2>1, PrefixFacts
  <2>3. CASE Carried(a)
    BY <1>3, <2>2, <2>3
  <2>4. CASE n > 0 /\ Carried([a EXCEPT ![n].content = "cut"])
    <3>1. n \in 1..Len(a) /\ "cut" \in Contents
      BY <1>1, <2>2, <2>4 DEF Contents
    <3> HIDE DEF a
    <3>2. [a EXCEPT ![n].content = "cut"] \in Seq(Entry)
      BY <2>2, <3>1, ContentFacts
    <3> QED BY <1>3, <2>2, <2>4, <3>2
  <2> QED BY <1>6, <2>3, <2>4 DEF Truncate
<1>7. ASSUME NEW i \in DOMAIN file.entries, NEW c \in Contents, Change(i, c) PROVE IInv'
  <2>1. i \in 1..Len(file.entries) /\ Carried([file.entries EXCEPT ![i].content = c])
    BY <1>1, <1>7 DEF Change
  <2> DEFINE a == file.entries
             b == [a EXCEPT ![i].content = c]
  <2>2. b \in Seq(Entry)
    BY <1>1, <2>1, ContentFacts
  <2> QED BY <1>3, <2>1, <2>2
<1>8. CASE PowerLoss
  <2>1. file' = file
    <3>1. PICK n \in file.durable..Len(file.entries) :
            file' = [file EXCEPT !.entries = SubSeq(@, 1, n)]
      BY <1>8 DEF PowerLoss
    <3>2. n = Len(file.entries)
      BY <1>1, <3>1 DEF IInv, FileInv
    <3>3. SubSeq(file.entries, 1, n) = file.entries
      BY <1>1, <3>2, SubSeqFull
    <3>4. file \in [entries : Seq(Entry), durable : Nat,
                    origin : {"foreign", "unsound", "sound"}]
      BY DEF IInv, TypeOK
    <3> QED BY <3>1, <3>3, <3>4
  <2>2. /\ exporting' = [p \in Src |-> NoMan] /\ left' = [p \in Src |-> <<>>]
        /\ staged' = [p \in Src |-> <<>>] /\ synced' = [p \in Src |-> 0]
        /\ stat' = [p \in Src |-> [h \in Hash |-> "full"]]
        /\ sound' = [p \in Src |-> FALSE] /\ harms' \in 0..MaxHarm
        /\ pass' = "idle" /\ need' = NoMan /\ reader' = <<>> /\ done' = 0
        /\ UNCHANGED <<harmed, src, store>>
    BY <1>2, <1>8 DEF PowerLoss, ImportDone
  <2>3. <<>> \in Seq(Entry) /\ <<>> \in Seq(Hash) /\ Len(<<>>) = 0
    BY EmptySeq
  <2>4. TypeOK'
    BY <2>1, <2>2, <2>3 DEF IInv, TypeOK
  <2>5. StagedInv' /\ FileInv' /\ RowInv' /\ ImportedIntact' /\ OnlyVerifiedAdopted'
    BY <2>1, <2>2
    DEF IInv, StagedInv, FileInv, RowInv, ImportedIntact, OnlyVerifiedAdopted
  <2> QED BY <2>4, <2>5 DEF IInv
<1>9. ASSUME NEW a \in Foreign, Carried(a) PROVE IInv'
  <2>1. a \in Seq(Entry)
    BY ArchiveAssumption
  <2> QED BY <1>3, <1>9, <2>1
<1> QED BY <1>4, <1>5, <1>6, <1>7, <1>8, <1>9 DEF Environment

(* The inductive invariant holds: a staging file is a beginning of the whole archive,
   the file under the real name is durable, and a row has its file.           *)
THEOREM InductiveInvariant == Spec => []IInv
<1>1. ASSUME IInv, [Next]_vars PROVE IInv'
  <2>1. CASE UNCHANGED vars
    BY <1>1, <2>1 DEF vars, export, store, import, history, IInv, TypeOK, StagedInv, Staged,
                      FileInv, RowInv, ImportedIntact, OnlyVerifiedAdopted
  <2>2. ASSUME NEW p \in Src, Export(p) PROVE IInv'
    BY <1>1, <2>2, StagingSteps, PublishPreserves DEF Export
  <2>3. CASE Import
    BY <1>1, <2>3, ImportSteps
  <2>4. CASE Environment
    BY <1>1, <2>4, EnvironmentSteps
  <2> QED BY <1>1, <2>1, <2>2, <2>3, <2>4 DEF Next
<1> QED BY <1>1, InitInvariant, PTL DEF Spec

(* Every variable keeps its type. *)
THEOREM TypeCorrect == Spec => []TypeOK
<1>1. IInv => TypeOK
  BY DEF IInv
<1> QED BY <1>1, InductiveInvariant, PTL

(* A file an export put under the real name is a whole archive of one manifest. *)
THEOREM PublishedIsComplete == Spec => []PublishedComplete
<1>1. IInv => PublishedComplete
  <2> SUFFICES ASSUME IInv, file.origin # "foreign" PROVE PublishedComplete
    BY DEF PublishedComplete
  <2> DEFINE a == file.entries
  <2>1. PICK m \in Man : Len(a) = Cardinality(Objects(m)) + 2 /\ Begins(a, m)
    BY DEF IInv, FileInv
  <2>2. a \in Seq(Entry) /\ DOMAIN a = 1..Len(a)
    BY LenProperties DEF IInv, TypeOK
  <2> DEFINE n == Cardinality(Objects(m))
             L == Layout(m)
             names == [i \in DOMAIN a |-> a[i].name]
  <2>3. n \in Nat /\ L \in Seq(0..Checksums) /\ Len(L) = n + 2
    BY LayoutFacts
  <2> HIDE DEF L, n
  <2>4. \A i \in 1..n + 2 : a[i].name = L[i] /\ a[i].man = m
    BY <2>1 DEF Begins, L, n
  <2>5. DOMAIN a = 1..n + 2
    BY <2>1, <2>2 DEF n
  <2>6. names = L
    <3>1. \A i \in 1..n + 2 : L[i] \in 0..Checksums
      BY <2>3, ElementOfSeq
    <3>2. names = [i \in 1..n + 2 |-> L[i]]
      BY <2>4, <2>5
    <3>3. L = [i \in 1..n + 2 |-> L[i]]
      BY <2>3
    <3> QED BY <3>2, <3>3
  <2> QED BY <2>4, <2>5, <2>6 DEF PublishedComplete, L, Layout
<1> QED BY <1>1, InductiveInvariant, PTL

(* What was exported from an undamaged store passes archive verify. *)
THEOREM SoundExportVerifies == Spec => []SoundRoundTrip
<1>1. IInv => SoundRoundTrip
  <2> SUFFICES ASSUME IInv, file.origin = "sound" PROVE VerifyArchive(file.entries)
    BY DEF SoundRoundTrip
  <2> DEFINE a == file.entries
  <2>1. PICK m \in Man : /\ Len(a) = Cardinality(Objects(m)) + 2 /\ Begins(a, m)
                         /\ Proper(a, m)
    BY DEF IInv, FileInv
  <2>2. a \in Seq(Entry) /\ DOMAIN a = 1..Len(a) /\ Len(a) \in Nat
    BY LenProperties DEF IInv, TypeOK
  <2> DEFINE n == Cardinality(Objects(m))
  <2>3. n \in Nat /\ Distinct(a)
    BY <2>1, <2>2, LayoutFacts, BeginsDistinct
  <2> HIDE DEF n
  <2>4. DOMAIN a = 1..n + 2 /\ 1 \in 1..n + 2 /\ n + 2 \in 1..n + 2
    BY <2>1, <2>2, <2>3 DEF n
  <2>5. \A i \in 1..n + 2 : /\ a[i].name = Layout(m)[i] /\ a[i].man = m
                            /\ a[i].content = "good"
                            /\ a[i].lines = IF a[i].name = Checksums THEN Objects(m) ELSE {}
    BY <2>1 DEF Begins, Proper, n
  <2>6. a[1].name = Manifest /\ a[n + 2].name = Checksums
    BY <2>4, <2>5, LayoutFacts DEF n
  <2>7. Objects(m) \subseteq Names(a)
    <3> SUFFICES ASSUME NEW h \in Objects(m) PROVE \E i \in DOMAIN a : a[i].name = h
      BY DEF Names
    <3>1. PICK i \in 2..n + 1 : Layout(m)[i] = h
      BY LayoutFacts DEF n
    <3> QED BY <2>3, <2>4, <2>5, <3>1
  <2>8. Names(a) \cap Hash \subseteq Objects(m)
    <3> SUFFICES ASSUME NEW i \in 1..n + 2, a[i].name \in Hash PROVE a[i].name \in Objects(m)
      BY <2>4 DEF Names
    <3>1. i = 1 \/ i = n + 2 \/ i \in 2..n + 1
      BY <2>3
    <3>2. i \notin {1, n + 2}
      BY <2>6, NameFacts
    <3> QED BY <2>5, <3>1, <3>2, LayoutFacts DEF n
  <2>9. IsInjective([i \in DOMAIN a |-> a[i].name])
    BY <2>3 DEF Distinct, IsInjective
  <2>10. IndexArchive(a, m)
    <3>1. \A i \in DOMAIN a : a[i].content # "cut"
      BY <2>4, <2>5
    <3>2. /\ a[1].name = Manifest /\ a[1].content \in {"good", "reformatted"} /\ a[1].man = m
          /\ a[n + 2].name = Checksums /\ a[n + 2].content \in {"good", "reformatted"}
          /\ a[n + 2].man = m
          /\ Names(a) \cap Hash \subseteq a[n + 2].lines
      BY <2>4, <2>5, <2>6, <2>8
    <3> QED BY <2>4, <2>9, <3>1, <3>2 DEF IndexArchive
  <2>11. \A i \in DOMAIN a : a[i].content = "good" /\ a[i].lines \subseteq Names(a)
    BY <2>4, <2>5, <2>7
  <2> QED BY <2>7, <2>10, <2>11 DEF VerifyArchive
<1> QED BY <1>1, InductiveInvariant, PTL

(* Every object of an imported snapshot is in the local store, whatever any archive
   at all under the path, changed between the two passes or not, made the import
   adopt and count; damage to a local file alone explains another.            *)
THEOREM ImportIsIntact == Spec => []ImportedIntact
<1>1. IInv => ImportedIntact
  BY DEF IInv
<1> QED BY <1>1, InductiveInvariant, PTL

(* No import leaves an object that does not match its hash, even when it fails. *)
THEOREM AdoptedIsVerified == Spec => []OnlyVerifiedAdopted
<1>1. IInv => OnlyVerifiedAdopted
  BY DEF IInv
<1> QED BY <1>1, InductiveInvariant, PTL

================================================================================
