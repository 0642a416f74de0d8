-------------------------- MODULE ExportIndexProofs --------------------------
(***************************************************************************)
(* Proofs about ExportIndex for every set of stores, resources and         *)
(* captured tars, any requests, and any number of exports and mishaps.     *)
(***************************************************************************)
EXTENDS ExportIndex, SequenceTheorems, FiniteSetTheorems, NaturalsInduction,
        WellFoundedInduction, TLAPS

(* Induction over a set of numbers.  The library's induction takes a predicate,
   which no installed prover can instantiate; a set does as well.            *)
LEMMA SetInduction ==
  ASSUME NEW S, 0 \in S, \A n \in Nat : n \in S => n + 1 \in S
  PROVE  Nat \subseteq S
<1> SUFFICES ASSUME Nat \ S # {} PROVE FALSE
  OBVIOUS
<1>1. IsWellFoundedOn(OpToRel(<, Nat), Nat)
  BY NatLessThanWellFounded
<1>2. PICK x \in Nat \ S : \A y \in Nat \ S : ~ (<<y, x>> \in OpToRel(<, Nat))
  BY <1>1, WFMin, Zenon
<1>3. \A y \in Nat \ S : ~ (y < x)
  BY <1>2 DEF OpToRel
<1>4. x # 0 /\ x - 1 \in Nat /\ x - 1 < x /\ (x - 1) + 1 = x
  OBVIOUS
<1> QED BY <1>3, <1>4

(* What the library's loop has flattened after each sequence. *)
LEMMA FlattenFunction ==
  ASSUME NEW S, NEW seqs \in Seq(Seq(S)), Len(seqs) # 0
  PROVE  \E F : /\ FlattenSeq(seqs) = F[Len(seqs)]
               /\ F[1] = seqs[1]
               /\ \A k \in 1..Len(seqs) - 1 : F[k + 1] = F[k] \o seqs[k + 1]
<1> DEFINE n == Len(seqs)
           Body(f, i) == IF i = 1 THEN seqs[i] ELSE f[i - 1] \o seqs[i]
           F == CHOOSE f : f = [i \in 1..n |-> Body(f, i)]
<1>1. n \in Nat /\ n # 0
  BY LenProperties
<1>2. FlattenSeq(seqs) = F[n]
  BY <1>1 DEF FlattenSeq
<1> DEFINE Fun == {k \in Nat : \E f : f = [i \in 1..k |-> Body(f, i)]}
<1>3. Nat \subseteq Fun
  <2>1. 0 \in Fun
    <3>1. [i \in 1..0 |-> 0] = [i \in 1..0 |-> Body([j \in 1..0 |-> 0], i)]
      OBVIOUS
    <3> QED BY <3>1
  <2>2. ASSUME NEW k \in Nat, k \in Fun PROVE k + 1 \in Fun
    <3>1. PICK f : f = [i \in 1..k |-> Body(f, i)]
      BY <2>2
    <3>5. \A j \in 1..k : f[j] = Body(f, j)
      <4> HIDE DEF Body
      <4> QED BY <3>1
    <3> DEFINE g == [i \in 1..k + 1 |-> IF i = k + 1 THEN Body(f, i) ELSE f[i]]
    <3>2. \A i \in 1..k + 1 : g[i] = Body(g, i)
      <4> SUFFICES ASSUME NEW i \in 1..k + 1 PROVE g[i] = Body(g, i)
        OBVIOUS
      <4>1. i # 1 => i - 1 \in 1..k /\ g[i - 1] = f[i - 1]
        OBVIOUS
      <4>2. Body(g, i) = Body(f, i)
        BY <4>1
      <4>3. i # k + 1 => i \in 1..k /\ f[i] = Body(f, i)
        <5>1. i # k + 1 => i \in 1..k
          OBVIOUS
        <5> HIDE DEF Body, g
        <5> QED BY <3>5, <5>1
      <4> HIDE DEF Body
      <4> QED BY <4>2, <4>3
    <3>3. g = [i \in 1..k + 1 |-> Body(g, i)]
      <4> HIDE DEF Body
      <4>1. DOMAIN g = 1..k + 1 /\ g = [i \in 1..k + 1 |-> g[i]]
        OBVIOUS
      <4> HIDE DEF g
      <4>2. [i \in 1..k + 1 |-> g[i]] = [i \in 1..k + 1 |-> Body(g, i)]
        BY <3>2, ZenonT(30)
      <4> QED BY <4>1, <4>2
    <3> HIDE DEF g, Body
    <3> QED BY <3>3
  <2> HIDE DEF Fun
  <2> QED BY <2>1, <2>2, SetInduction
<1>4. F = [i \in 1..n |-> Body(F, i)]
  BY <1>1, <1>3
<1> HIDE DEF F
<1>5. \A i \in 1..n : F[i] = Body(F, i)
  BY <1>4
<1>6. F[1] = seqs[1]
  BY <1>1, <1>5
<1>7. ASSUME NEW k \in 1..n - 1 PROVE F[k + 1] = F[k] \o seqs[k + 1]
  <2>1. k + 1 \in 1..n /\ k + 1 # 1 /\ (k + 1) - 1 = k
    BY <1>1
  <2> QED BY <1>5, <2>1
<1> QED BY <1>2, <1>6, <1>7

(* A sequence of sequences, flattened, is a sequence of their elements, and so is what
   the loop has after each of them.                                              *)
LEMMA FlattenSteps ==
  ASSUME NEW S, NEW seqs \in Seq(Seq(S)), NEW F, F[1] = seqs[1],
         \A k \in 1..Len(seqs) - 1 : F[k + 1] = F[k] \o seqs[k + 1]
  PROVE  \A k \in 1..Len(seqs) : F[k] \in Seq(S)
<1> DEFINE n == Len(seqs)
           Typed == {k \in Nat : k + 1 \in 1..n => F[k + 1] \in Seq(S)}
<1>1. n \in Nat /\ \A i \in 1..n : seqs[i] \in Seq(S)
  BY LenProperties, ElementOfSeq
<1>2. Nat \subseteq Typed
  <2>1. 0 \in Typed
    BY <1>1
  <2>2. ASSUME NEW k \in Nat, k \in Typed PROVE k + 1 \in Typed
    <3> SUFFICES ASSUME (k + 1) + 1 \in 1..n PROVE F[(k + 1) + 1] \in Seq(S)
      OBVIOUS
    <3>1. F[k + 1] \in Seq(S) /\ seqs[(k + 1) + 1] \in Seq(S)
      BY <1>1, <2>2
    <3>2. F[(k + 1) + 1] = F[k + 1] \o seqs[(k + 1) + 1]
      <4>1. k + 1 \in 1..n - 1
        BY <1>1
      <4> QED BY <4>1
    <3> QED BY <3>1, <3>2, ConcatProperties
  <2> HIDE DEF Typed
  <2> QED BY <2>1, <2>2, SetInduction
<1>3. ASSUME NEW k \in 1..n PROVE F[k] \in Seq(S)
  <2>1. k - 1 \in Nat /\ (k - 1) + 1 = k
    BY <1>1
  <2> QED BY <1>2, <2>1
<1> QED BY <1>3

(* The whole of it. *)
LEMMA FlattenType ==
  ASSUME NEW S, NEW seqs \in Seq(Seq(S))
  PROVE  FlattenSeq(seqs) \in Seq(S)
<1>1. Len(seqs) \in Nat
  BY LenProperties
<1>2. CASE Len(seqs) = 0
  <2>1. FlattenSeq(seqs) = seqs /\ seqs = <<>>
    BY <1>2, EmptySeq DEF FlattenSeq
  <2> QED BY <2>1, EmptySeq
<1>3. CASE Len(seqs) # 0
  <2>1. PICK F : /\ FlattenSeq(seqs) = F[Len(seqs)]
                 /\ F[1] = seqs[1]
                 /\ \A k \in 1..Len(seqs) - 1 : F[k + 1] = F[k] \o seqs[k + 1]
    BY <1>3, FlattenFunction
  <2>2. Len(seqs) \in 1..Len(seqs)
    BY <1>1, <1>3
  <2> QED BY <2>1, <2>2, FlattenSteps
<1> QED BY <1>2, <1>3

(* A prefix is told by its elements. *)
LEMMA PrefixFacts ==
  ASSUME NEW S, NEW s \in Seq(S), NEW t \in Seq(S)
  PROVE  /\ IsPrefix(s, t) <=> /\ Len(s) <= Len(t)
                              /\ \A i \in 1..Len(s) : s[i] = t[i]
         /\ IsPrefix(s, t) /\ Len(s) = Len(t) => s = t
<1>1. Len(s) \in Nat /\ Len(t) \in Nat
  BY LenProperties
<1>2. SubSeq(s, 1, Len(s)) = s
  BY SubSeqFull
<1>3. ASSUME Len(s) <= Len(t)
      PROVE  /\ SubSeq(t, 1, Len(s)) \in Seq(S)
             /\ Len(SubSeq(t, 1, Len(s))) = Len(s)
             /\ \A i \in 1..Len(s) : SubSeq(t, 1, Len(s))[i] = t[i]
  <2>1. \A i \in 1..Len(s) : t[i] \in S
    BY <1>1, <1>3, ElementOfSeq
  <2> DEFINE u == SubSeq(t, 1, Len(s))
  <2>2. /\ u \in Seq(S)
        /\ Len(u) = IF 1 <= Len(s) THEN Len(s) - 1 + 1 ELSE 0
        /\ \A i \in 1..Len(s) - 1 + 1 : u[i] = t[1 + i - 1]
    BY <1>1, <2>1, SubSeqProperties
  <2> HIDE DEF u
  <2>3. Len(u) = Len(s) /\ \A i \in 1..Len(s) : u[i] = t[i]
    BY <1>1, <2>2
  <2> QED BY <2>2, <2>3 DEF u
<1>4. IsPrefix(s, t) <=> /\ Len(s) <= Len(t)
                         /\ \A i \in 1..Len(s) : s[i] = t[i]
  <2>1. ASSUME Len(s) <= Len(t), \A i \in 1..Len(s) : s[i] = t[i] PROVE IsPrefix(s, t)
    <3>1. SubSeq(t, 1, Len(s)) = s
      BY <1>3, <2>1, SeqEqual
    <3> QED BY <1>2, <2>1, <3>1 DEF IsPrefix
  <2>2. ASSUME IsPrefix(s, t)
        PROVE  Len(s) <= Len(t) /\ \A i \in 1..Len(s) : s[i] = t[i]
    BY <1>2, <1>3, <2>2 DEF IsPrefix
  <2> QED BY <2>1, <2>2
<1>5. IsPrefix(s, t) /\ Len(s) = Len(t) => s = t
  BY <1>4, SeqEqual
<1> QED BY <1>4, <1>5

(* What a sequence continues, its concatenation with more continues too. *)
LEMMA ConcatContinues ==
  ASSUME NEW S, NEW r \in Seq(S), NEW s \in Seq(S), NEW t \in Seq(S),
         Len(r) <= Len(s), \A i \in 1..Len(r) : r[i] = s[i]
  PROVE  /\ Len(r) <= Len(s \o t)
         /\ \A i \in 1..Len(r) : r[i] = (s \o t)[i]
<1> DEFINE u == s \o t
<1>1. Len(r) \in Nat /\ Len(s) \in Nat /\ Len(t) \in Nat
  BY LenProperties
<1>2. Len(u) = Len(s) + Len(t)
  BY ConcatProperties
<1>3. \A i \in 1..Len(s) + Len(t) :
        u[i] = IF i <= Len(s) THEN s[i] ELSE t[i - Len(s)]
  BY ConcatProperties
<1> HIDE DEF u
<1>4. ASSUME NEW i \in 1..Len(r) PROVE r[i] = u[i]
  <2>1. i \in 1..Len(s) + Len(t) /\ i <= Len(s)
    BY <1>1
  <2> QED BY <1>3, <2>1
<1>5. Len(r) <= Len(u)
  BY <1>1, <1>2
<1> QED BY <1>4, <1>5 DEF u

(* Flattening more of a sequence continues what is flattened of less. *)
LEMMA FlattenPrefix ==
  ASSUME NEW S, NEW a \in Seq(Seq(S)), NEW b \in Seq(Seq(S)), Len(a) <= Len(b),
         \A i \in 1..Len(a) : a[i] = b[i]
  PROVE  IsPrefix(FlattenSeq(a), FlattenSeq(b))
<1> DEFINE m == Len(a)
           n == Len(b)
<1>1. m \in Nat /\ n \in Nat /\ m <= n
  BY LenProperties
<1>2. FlattenSeq(a) \in Seq(S) /\ FlattenSeq(b) \in Seq(S)
  BY FlattenType
<1>3. CASE m = 0
  <2>1. FlattenSeq(a) = a /\ Len(FlattenSeq(a)) = 0
    BY <1>3 DEF FlattenSeq
  <2>2. Len(FlattenSeq(b)) \in Nat
    BY <1>2, LenProperties
  <2>3. /\ Len(FlattenSeq(a)) <= Len(FlattenSeq(b))
        /\ \A i \in 1..Len(FlattenSeq(a)) : FlattenSeq(a)[i] = FlattenSeq(b)[i]
    <3> HIDE DEF m, n
    <3> QED BY <2>1, <2>2
  <2> HIDE DEF m, n
  <2> QED BY <1>2, <2>3, PrefixFacts
<1>4. CASE m # 0
  <2>1. PICK F : /\ FlattenSeq(a) = F[m]
                 /\ F[1] = a[1]
                 /\ \A k \in 1..m - 1 : F[k + 1] = F[k] \o a[k + 1]
    BY <1>4, FlattenFunction
  <2>2. PICK G : /\ FlattenSeq(b) = G[n]
                 /\ G[1] = b[1]
                 /\ \A k \in 1..n - 1 : G[k + 1] = G[k] \o b[k + 1]
    <3>1. Len(b) # 0
      BY <1>1, <1>4
    <3> QED BY <3>1, FlattenFunction
  <2>3. /\ \A k \in 1..n : G[k] \in Seq(S)
        /\ \A k \in 1..n : b[k] \in Seq(S)
    <3>1. \A k \in 1..n : G[k] \in Seq(S)
      BY <2>2, FlattenSteps
    <3> QED BY <3>1, ElementOfSeq
  <2> HIDE DEF m, n
  <2>4. F[m] = G[m]
    <3> DEFINE Same == {k \in Nat : k + 1 \in 1..m => F[k + 1] = G[k + 1]}
    <3>1. 0 \in Same
      BY <1>1, <2>1, <2>2 DEF m
    <3>2. ASSUME NEW k \in Nat, k \in Same PROVE k + 1 \in Same
      <4> SUFFICES ASSUME (k + 1) + 1 \in 1..m PROVE F[(k + 1) + 1] = G[(k + 1) + 1]
        OBVIOUS
      <4>1. k + 1 \in 1..m - 1 /\ k + 1 \in 1..n - 1 /\ k + 1 \in 1..m
        BY <1>1
      <4>2. F[k + 1] = G[k + 1] /\ a[(k + 1) + 1] = b[(k + 1) + 1]
        BY <3>2, <4>1 DEF m
      <4> QED BY <2>1, <2>2, <4>1, <4>2
    <3>3. m - 1 \in Nat /\ (m - 1) + 1 = m /\ m \in 1..m
      BY <1>1, <1>4
    <3>4. m - 1 \in Same
      <4> HIDE DEF Same
      <4>1. Nat \subseteq Same
        BY <3>1, <3>2, SetInduction
      <4> QED BY <3>3, <4>1
    <3> QED BY <3>3, <3>4
  <2> DEFINE Grows(k) == /\ Len(G[m]) <= Len(G[m + k])
                         /\ \A i \in 1..Len(G[m]) : G[m][i] = G[m + k][i]
             More == {k \in Nat : m + k <= n => Grows(k)}
  <2>5. 0 \in More
    <3>1. m \in 1..n /\ m + 0 = m /\ Len(G[m]) \in Nat
      BY <1>1, <1>4, <2>3, LenProperties
    <3> QED BY <3>1
  <2>6. ASSUME NEW k \in Nat, k \in More PROVE k + 1 \in More
    <3> SUFFICES ASSUME m + (k + 1) <= n PROVE Grows(k + 1)
      OBVIOUS
    <3>1. m + k \in 1..n - 1 /\ m + k \in 1..n /\ m + (k + 1) = (m + k) + 1 /\ (m + k) + 1 \in 1..n
      BY <1>1, <1>4
    <3>2. /\ Len(G[m]) <= Len(G[m + k])
          /\ \A i \in 1..Len(G[m]) : G[m][i] = G[m + k][i]
      <4>1. m + k <= n
        BY <3>1
      <4> QED BY <2>6, <4>1
    <3>3. G[m + (k + 1)] = G[m + k] \o b[(m + k) + 1]
      BY <2>2, <3>1
    <3>4. G[m] \in Seq(S) /\ G[m + k] \in Seq(S) /\ b[(m + k) + 1] \in Seq(S)
      <4>1. m \in 1..n
        BY <1>1, <1>4
      <4> QED BY <2>3, <3>1, <4>1
    <3> DEFINE r == G[m]
               s == G[m + k]
               t == b[(m + k) + 1]
    <3>5. Len(r) <= Len(s \o t) /\ \A i \in 1..Len(r) : r[i] = (s \o t)[i]
      <4>1. /\ r \in Seq(S) /\ s \in Seq(S) /\ t \in Seq(S)
            /\ Len(r) <= Len(s)
        BY <3>2, <3>4
      <4>2. \A i \in 1..Len(r) : r[i] = s[i]
        BY <3>2
      <4> HIDE DEF r, s, t
      <4> QED BY <4>1, <4>2, ConcatContinues
    <3> QED BY <3>3, <3>5
  <2>7. n - m \in More
    <3> HIDE DEF More
    <3>1. n - m \in Nat
      BY <1>1
    <3> QED BY <2>5, <2>6, <3>1, SetInduction
  <2>8. m + (n - m) = n
    BY <1>1
  <2>9. Len(G[m]) <= Len(G[n]) /\ \A i \in 1..Len(G[m]) : G[m][i] = G[n][i]
    BY <1>1, <2>7, <2>8
  <2>10. FlattenSeq(a) = G[m] /\ FlattenSeq(b) = G[n]
    BY <2>1, <2>2, <2>4
  <2>11. /\ Len(FlattenSeq(a)) <= Len(FlattenSeq(b))
         /\ \A i \in 1..Len(FlattenSeq(a)) : FlattenSeq(a)[i] = FlattenSeq(b)[i]
    <3> HIDE DEF Grows, More
    <3> QED BY <2>9, <2>10
  <2> HIDE DEF Grows, More
  <2> QED BY <1>2, <2>11, PrefixFacts
<1> QED BY <1>3, <1>4

(* What the loop over a tar has picked after each member: those that match, in
   their order.                                                              *)
LEMMA PickedFunction ==
  ASSUME NEW members, NEW selected, NEW T, Renamed(members) \in Seq(T)
  PROVE  \E F :
    /\ Picked(members, selected) = F[Len(Renamed(members))]
    /\ F[0] = <<>>
    /\ \A k \in 1..Len(Renamed(members)) :
         F[k] = IF MatchesPath(Renamed(members)[k].name, selected)
                THEN Append(F[k - 1], Renamed(members)[k]) ELSE F[k - 1]
<1> DEFINE named == Renamed(members)
           n == Len(named)
           Body(f, i) == IF i = 0 THEN <<>>
                         ELSE IF MatchesPath(named[i].name, selected)
                           THEN Append(f[i - 1], named[i])
                         ELSE f[i - 1]
           F == CHOOSE f : f = [i \in 0..n |-> Body(f, i)]
           Fun == {k \in Nat : \E f : f = [i \in 0..k |-> Body(f, i)]}
<1>1. n \in Nat
  BY LenProperties
<1>2. Picked(members, selected) = F[n]
  BY DEF Picked
<1> HIDE DEF named, n
<1>3. Nat \subseteq Fun
  <2>1. 0 \in Fun
    <3> DEFINE f == [i \in 0..0 |-> <<>>]
    <3>1. \A i \in 0..0 : Body(f, i) = <<>>
      OBVIOUS
    <3> HIDE DEF Body
    <3>2. f = [i \in 0..0 |-> Body(f, i)]
      BY <3>1
    <3> HIDE DEF f
    <3> QED BY <3>2
  <2>2. ASSUME NEW k \in Nat, k \in Fun PROVE k + 1 \in Fun
    <3>1. PICK f : f = [i \in 0..k |-> Body(f, i)]
      BY <2>2
    <3>2. \A j \in 0..k : f[j] = Body(f, j)
      <4> HIDE DEF Body
      <4> QED BY <3>1
    <3> DEFINE g == [i \in 0..k + 1 |-> IF i = k + 1 THEN Body(f, i) ELSE f[i]]
    <3>3. \A i \in 0..k + 1 : g[i] = Body(g, i)
      <4> SUFFICES ASSUME NEW i \in 0..k + 1 PROVE g[i] = Body(g, i)
        OBVIOUS
      <4>1. i # 0 => i - 1 \in 0..k /\ g[i - 1] = f[i - 1]
        OBVIOUS
      <4>2. Body(g, i) = Body(f, i)
        BY <4>1
      <4>3. i # k + 1 => i \in 0..k /\ f[i] = Body(f, i)
        BY <3>2
      <4> HIDE DEF Body
      <4> QED BY <4>2, <4>3
    <3>4. g = [i \in 0..k + 1 |-> Body(g, i)]
      <4> HIDE DEF Body
      <4>1. DOMAIN g = 0..k + 1 /\ g = [i \in 0..k + 1 |-> g[i]]
        OBVIOUS
      <4> HIDE DEF g
      <4>2. [i \in 0..k + 1 |-> g[i]] = [i \in 0..k + 1 |-> Body(g, i)]
        BY <3>3, ZenonT(30)
      <4> QED BY <4>1, <4>2
    <3> HIDE DEF g, Body
    <3> QED BY <3>4
  <2> HIDE DEF Fun
  <2> QED BY <2>1, <2>2, SetInduction
<1>4. F = [i \in 0..n |-> Body(F, i)]
  BY <1>1, <1>3
<1> HIDE DEF F
<1>5. \A i \in 0..n : F[i] = Body(F, i)
  BY <1>4
<1>6. F[0] = <<>> /\ \A k \in 1..n : F[k] = Body(F, k) /\ k # 0
  BY <1>1, <1>5
<1> QED BY <1>2, <1>6 DEF named, n

(* The members an export picks are those that match, each at most as often as the
   tar has it; if no two have one name, no two that are picked do.            *)
LEMMA PickedFacts ==
  ASSUME NEW members, NEW selected, NEW T, Renamed(members) \in Seq(T)
  PROVE  /\ Picked(members, selected) \in Seq(T)
         /\ ToSet(Picked(members, selected)) =
              {m \in ToSet(Renamed(members)) : MatchesPath(m.name, selected)}
         /\ ~ Twice(Renamed(members)) => ~ Twice(Picked(members, selected))
<1> DEFINE named == Renamed(members)
           n == Len(named)
           Upto(k) == {named[i] : i \in {j \in 1..k : MatchesPath(named[j].name, selected)}}
<1>1. PICK F : /\ Picked(members, selected) = F[n]
               /\ F[0] = <<>>
               /\ \A k \in 1..n : F[k] = IF MatchesPath(named[k].name, selected)
                                         THEN Append(F[k - 1], named[k]) ELSE F[k - 1]
  BY PickedFunction
<1>2. n \in Nat /\ DOMAIN named = 1..n /\ \A i \in 1..n : named[i] \in T
  BY LenProperties, ElementOfSeq
<1> HIDE DEF named, n
<1> DEFINE S == {k \in Nat : k \in 0..n =>
                  /\ F[k] \in Seq(T)
                  /\ ToSet(F[k]) = Upto(k)
                  /\ ~ Twice(named) => ~ Twice(F[k])}
<1>3. 0 \in S
  <2>1. F[0] \in Seq(T) /\ DOMAIN F[0] = {}
    BY <1>1, EmptySeq, LenProperties
  <2> QED BY <2>1 DEF ToSet, Twice
<1>4. ASSUME NEW k \in Nat, k \in S PROVE k + 1 \in S
  <2> SUFFICES ASSUME k + 1 \in 0..n
               PROVE  /\ F[k + 1] \in Seq(T)
                      /\ ToSet(F[k + 1]) = Upto(k + 1)
                      /\ ~ Twice(named) => ~ Twice(F[k + 1])
    OBVIOUS
  <2>1. /\ k + 1 \in 1..n /\ k \in 0..n /\ (k + 1) - 1 = k
        /\ F[k] \in Seq(T) /\ ToSet(F[k]) = Upto(k)
        /\ ~ Twice(named) => ~ Twice(F[k])
    BY <1>2, <1>4
  <2>2. named[k + 1] \in T
    BY <1>2, <2>1
  <2>3. CASE ~ MatchesPath(named[k + 1].name, selected)
    <3>1. F[k + 1] = F[k]
      BY <1>1, <2>1, <2>3
    <3>2. Upto(k + 1) = Upto(k)
      BY <2>3
    <3> QED BY <2>1, <3>1, <3>2
  <2>4. CASE MatchesPath(named[k + 1].name, selected)
    <3>1. F[k + 1] = Append(F[k], named[k + 1])
      BY <1>1, <2>1, <2>4
    <3> DEFINE l == Len(F[k])
    <3>2. /\ F[k + 1] \in Seq(T) /\ l \in Nat
          /\ DOMAIN F[k] = 1..l /\ DOMAIN F[k + 1] = 1..l + 1
          /\ \A i \in 1..l : F[k + 1][i] = F[k][i]
          /\ F[k + 1][l + 1] = named[k + 1]
      BY <2>1, <2>2, <3>1, AppendProperties, LenProperties
    <3> HIDE DEF l
    <3>3. ToSet(F[k + 1]) = ToSet(F[k]) \cup {named[k + 1]}
      <4>1. ToSet(F[k + 1]) = {F[k + 1][i] : i \in 1..l + 1}
            /\ ToSet(F[k]) = {F[k][i] : i \in 1..l}
        BY <3>2 DEF ToSet
      <4>2. l + 1 \in 1..l + 1 /\ \A i : i \in 1..l + 1 <=> i \in 1..l \/ i = l + 1
        BY <3>2
      <4> QED BY <3>2, <4>1, <4>2
    <3>4. Upto(k + 1) = Upto(k) \cup {named[k + 1]}
      BY <2>4
    <3>5. ASSUME ~ Twice(named), Twice(F[k + 1]) PROVE FALSE
      <4>1. PICK i \in 1..l + 1, j \in 1..l + 1 :
              i # j /\ F[k + 1][i].name = F[k + 1][j].name
        BY <3>2, <3>5 DEF Twice
      <4>2. ~ (i \in 1..l /\ j \in 1..l)
        BY <2>1, <3>2, <3>5, <4>1 DEF Twice
      <4>3. PICK m \in 1..l : F[k][m].name = named[k + 1].name
        <5>1. \A o \in 1..l + 1 : o \in 1..l \/ o = l + 1
          BY <3>2
        <5>2. CASE i \in 1..l /\ j = l + 1
          BY <3>2, <4>1, <5>2
        <5>3. CASE j \in 1..l /\ i = l + 1
          BY <3>2, <4>1, <5>3
        <5> QED BY <4>1, <4>2, <5>1, <5>2, <5>3
      <4>4. F[k][m] \in Upto(k)
        BY <2>1, <3>2 DEF ToSet
      <4>5. PICK o \in 1..k : named[o] = F[k][m]
        BY <4>4
      <4>6. o \in 1..n /\ o # k + 1 /\ named[o].name = named[k + 1].name
        BY <1>2, <2>1, <4>3, <4>5
      <4> QED BY <1>2, <2>1, <3>5, <4>6 DEF Twice
    <3> QED BY <2>1, <3>2, <3>3, <3>4, <3>5
  <2> QED BY <2>3, <2>4
<1>5. Nat \subseteq S
  <2> HIDE DEF S
  <2> QED BY <1>3, <1>4, SetInduction
<1>6. F[n] \in Seq(T) /\ ToSet(F[n]) = Upto(n) /\ (~ Twice(named) => ~ Twice(F[n]))
  BY <1>2, <1>5
<1>7. Upto(n) = {m \in ToSet(named) : MatchesPath(m.name, selected)}
  BY <1>2 DEF ToSet
<1> QED BY <1>1, <1>6, <1>7 DEF named

(* Numbers have a least one, which is what an entry is looked for by. *)
LEMMA Least ==
  ASSUME NEW S \in SUBSET Nat, S # {}
  PROVE  \E i \in S : \A j \in S : i <= j
<1>1. IsWellFoundedOn(OpToRel(<, Nat), Nat)
  BY NatLessThanWellFounded
<1>2. PICK x \in S : \A y \in S : ~ (<<y, x>> \in OpToRel(<, Nat))
  BY <1>1, WFMin, Zenon
<1>3. \A y \in S : ~ (y < x)
  BY <1>2 DEF OpToRel
<1> QED BY <1>3

(* Normalising and renaming keep the types. *)
LEMMA NormalType ==
  ASSUME NEW path \in Seq(Part)
  PROVE  NormalizePath(path) \in Seq(Part)
<1>1. Len(path) \in Nat /\ DOMAIN path = 1..Len(path) /\ \A i \in 1..Len(path) : path[i] \in Part
  BY LenProperties, ElementOfSeq
<1>2. \A i \in 1..Len(path) : Split[path[i]] \in Seq(Part)
  BY <1>1, ExportAssumption
<1>3. [i \in DOMAIN path |-> Split[path[i]]] \in Seq(Seq(Part))
  BY <1>1, <1>2
<1> QED BY <1>3, FlattenType DEF NormalizePath

(* A path below another stays below it when both are normalised. *)
LEMMA NormalPrefix ==
  ASSUME NEW p \in Seq(Part), NEW q \in Seq(Part), IsPrefix(p, q)
  PROVE  IsPrefix(NormalizePath(p), NormalizePath(q))
<1> DEFINE a == [i \in DOMAIN p |-> Split[p[i]]]
           b == [i \in DOMAIN q |-> Split[q[i]]]
<1>1. /\ Len(p) \in Nat /\ DOMAIN p = 1..Len(p) /\ \A i \in 1..Len(p) : p[i] \in Part
      /\ Len(q) \in Nat /\ DOMAIN q = 1..Len(q) /\ \A i \in 1..Len(q) : q[i] \in Part
  BY LenProperties, ElementOfSeq
<1>2. Len(p) <= Len(q) /\ \A i \in 1..Len(p) : p[i] = q[i]
  BY PrefixFacts
<1>3. \A x \in Part : Split[x] \in Seq(Part)
  BY ExportAssumption
<1>4. a \in Seq(Seq(Part)) /\ Len(a) = Len(p) /\ \A i \in 1..Len(p) : a[i] = Split[p[i]]
  BY <1>1, <1>3
<1>5. b \in Seq(Seq(Part)) /\ Len(b) = Len(q) /\ \A i \in 1..Len(q) : b[i] = Split[q[i]]
  BY <1>1, <1>3
<1> HIDE DEF a, b
<1>6. Len(a) <= Len(b) /\ \A i \in 1..Len(a) : a[i] = b[i]
  <2>1. \A i \in 1..Len(p) : i \in 1..Len(q)
    BY <1>1, <1>2
  <2> QED BY <1>2, <1>4, <1>5, <2>1
<1>7. IsPrefix(FlattenSeq(a), FlattenSeq(b))
  BY <1>4, <1>5, <1>6, FlattenPrefix
<1> QED BY <1>7 DEF NormalizePath, a, b

(* What starts a path that is accepted is accepted. *)
LEMMA RejectedPrefix ==
  ASSUME NEW p \in Seq(Part), NEW q \in Seq(Part), IsPrefix(p, q), Rejected(p)
  PROVE  Rejected(q)
<1>1. /\ Len(p) \in Nat /\ DOMAIN p = 1..Len(p)
      /\ Len(q) \in Nat /\ DOMAIN q = 1..Len(q)
  BY LenProperties
<1>2. Len(p) <= Len(q) /\ \A i \in 1..Len(p) : p[i] = q[i]
  BY PrefixFacts
<1>3. p # <<>> /\ (p[1] \in Drives \/ \E i \in DOMAIN p : ".." \in ToSet(Split[p[i]]))
  BY DEF Rejected
<1>4. Len(p) # 0
  BY <1>3, EmptySeq
<1>5. q # <<>> /\ 1 \in 1..Len(p) /\ p[1] = q[1]
  BY <1>1, <1>2, <1>4
<1>6. \A i \in DOMAIN p : i \in DOMAIN q /\ p[i] = q[i]
  BY <1>1, <1>2
<1> QED BY <1>3, <1>5, <1>6 DEF Rejected

(* A link keeps its type under the name an archive gives it. *)
LEMMA RenamedType ==
  ASSUME NEW members \in Seq(Member)
  PROVE  Renamed(members) \in Seq(Member)
<1>1. /\ Len(members) \in Nat /\ DOMAIN members = 1..Len(members)
      /\ \A i \in 1..Len(members) : members[i] \in Member
  BY LenProperties, ElementOfSeq
<1>2. \A i \in 1..Len(members) :
        [members[i] EXCEPT !.name = NormalizePath(members[i].name)] \in Member
  BY <1>1, NormalType DEF Member
<1> QED BY <1>1, <1>2 DEF Renamed

(* A request's parts. *)
LEMMA RequestFacts ==
  ASSUME NEW r \in Requests
  PROVE  /\ r.res \in Resource /\ r.path \in Seq(Part) \cup {NoPath}
         /\ r.raw \in BOOLEAN /\ r.out \in File \cup {NoFile}
         /\ r.res \in Images => r.path = NoPath
         /\ r.raw => r.path # NoPath
BY ExportAssumption DEF Request

(* What was captured of a resource. *)
LEMMA TarFacts ==
  ASSUME NEW t \in Tars, NEW v \in Resource
  PROVE  t[v] \in Seq(Member)
BY ExportAssumption

(* What an export makes of a tar are members. *)
LEMMA ExportType ==
  ASSUME NEW r \in Requests, NEW members \in Seq(Member)
  PROVE  Export(r, members) \in Seq(Member) \cup {Failed}
<1>1. \A selected : Picked(members, selected) \in Seq(Member)
  BY RenamedType, PickedFacts
<1>2. ExportTarSelection(members, NormalizePath(r.path)) \in Seq(Member) \cup {Failed}
  BY <1>1 DEF ExportTarSelection
<1>3. ExportRawFile(members, NormalizePath(r.path)) \in Seq(Member) \cup {Failed}
  BY <1>1 DEF ExportRawFile
<1> QED BY <1>2, <1>3 DEF Export

(* Default names are files. *)
LEMMA DefaultType ==
  ASSUME NEW r \in Requests
  PROVE  DefaultFile(r) \in File /\ Out(r) \in File
<1>1. /\ r.res \in Resource /\ r.path \in Seq(Part) \cup {NoPath}
      /\ r.out \in File \cup {NoFile} /\ r.res \in Part /\ Safe[r.res] \in Part
  BY RequestFacts, ExportAssumption
<1>2. /\ <<>> \in Seq(Part) /\ <<r.res>> \in Seq(Part) /\ <<Safe[r.res]>> \in Seq(Part)
  BY <1>1
<1>3. ASSUME NEW path \in Seq(Part)
      PROVE  <<Safe[r.res]>> \o SafePath(IF path = <<>> THEN <<".">> ELSE path) \in Seq(Part)
  <2> DEFINE q == IF path = <<>> THEN <<".">> ELSE path
  <2>1. q \in Seq(Part)
    BY ExportAssumption
  <2> HIDE DEF q
  <2>2. SafePath(q) \in Seq(Part)
    <3>1. /\ Len(q) \in Nat /\ DOMAIN q = 1..Len(q)
          /\ \A i \in 1..Len(q) : q[i] \in Part
      BY <2>1, LenProperties, ElementOfSeq
    <3>2. \A i \in 1..Len(q) : Safe[q[i]] \in Part
      BY <3>1, ExportAssumption
    <3> QED BY <3>1, <3>2 DEF SafePath
  <2> QED BY <1>2, <2>2, ConcatProperties DEF q
<1>4. DefaultFile(r) \in File
  <2> DEFINE path == NormalizePath(r.path)
             parts == <<Safe[r.res]>> \o SafePath(IF path = <<>> THEN <<".">> ELSE path)
  <2>1. CASE r.res \in Images
    <3>1. DefaultFile(r) = [dir |-> "images", parts |-> <<Safe[r.res]>>, sum |-> <<r.res>>]
      BY <2>1 DEF DefaultFile
    <3> QED BY <1>2, <3>1 DEF File, Dirs
  <2>2. CASE r.res \notin Images /\ r.path = NoPath
    <3>1. DefaultFile(r) = [dir |-> "volumes", parts |-> <<Safe[r.res]>>, sum |-> <<>>]
      BY <2>2 DEF DefaultFile
    <3> QED BY <1>2, <3>1 DEF File, Dirs
  <2>3. CASE r.res \notin Images /\ r.path # NoPath
    <3>1. path \in Seq(Part) /\ parts \in Seq(Part)
      BY <1>1, <1>3, <2>3, NormalType
    <3>2. DefaultFile(r) = IF r.raw THEN [dir |-> "raw", sum |-> path, parts |-> parts]
                           ELSE [dir |-> "selections", sum |-> <<>>, parts |-> parts]
      BY <2>3, RequestFacts DEF DefaultFile
    <3> HIDE DEF path, parts
    <3> QED BY <1>2, <3>1, <3>2 DEF File, Dirs
  <2> QED BY <2>1, <2>2, <2>3
<1> QED BY <1>1, <1>4 DEF Out, Indexed

(* What an export that succeeds writes is what the request asks for: the loop over
   the tar, which stops at the first bad name or doubled member, and the set of
   members the path stands for agree.                                          *)
LEMMA ExportExact ==
  ASSUME tar \in Tars, NEW r, r.res \in Resource, Export(r, tar[r.res]) # Failed
  PROVE  IsSelection(Export(r, tar[r.res]), r)
<1> DEFINE members == tar[r.res]
           path == NormalizePath(r.path)
           picked == Picked(members, path)
           asked == {m \in ToSet(Renamed(members)) : m.name # <<>> /\ IsPrefix(path, m.name)}
<1>1. members \in Seq(Member) /\ Renamed(members) \in Seq(Member)
  BY TarFacts, RenamedType
<1>2. CASE r.path = NoPath \/ path = <<>>
  BY <1>2 DEF IsSelection, Export
<1>3. CASE ~ (r.path = NoPath \/ path = <<>>)
  <2>1. /\ picked \in Seq(Member) /\ ToSet(picked) = asked
    <3>1. picked \in Seq(Member)
          /\ ToSet(picked) = {m \in ToSet(Renamed(members)) : MatchesPath(m.name, path)}
      BY <1>1, PickedFacts
    <3> QED BY <3>1 DEF MatchesPath
  <2> HIDE DEF picked, asked
  <2>2. Len(picked) \in Nat /\ DOMAIN picked = 1..Len(picked) /\ picked # Torn
    BY <2>1, LenProperties, SentinelAssumption
  <2>3. CASE r.raw
    <3>1. Export(r, members) = picked /\ Len(picked) = 1
          /\ picked[1].name = path /\ picked[1].type = "reg"
      BY <1>3, <2>3 DEF Export, ExportRawFile, picked
    <3>2. picked # <<>> /\ ~ Twice(picked)
      <4>1. \A a, b \in DOMAIN picked : a = b
        BY <2>2, <3>1
      <4>2. picked # <<>>
        <5>1. <<>> \in Seq(Member) /\ Len(<<>>) = 0
          BY EmptySeq
        <5>2. Len(picked) = 1
          BY <3>1
        <5>3. SUFFICES ASSUME picked = <<>> PROVE FALSE
          OBVIOUS
        <5>4. Len(picked) = Len(<<>>)
          BY <5>3
        <5> QED BY <5>1, <5>2, <5>4
      <4> QED BY <4>1, <4>2 DEF Twice
    <3> QED BY <1>3, <2>1, <2>2, <3>1, <3>2 DEF IsSelection, asked
  <2>4. CASE ~ r.raw
    <3>1. Export(r, members) = picked /\ picked # <<>> /\ ~ Twice(picked)
      BY <1>3, <2>4 DEF Export, ExportTarSelection, picked
    <3> QED BY <1>3, <2>1, <2>2, <2>4, <3>1 DEF IsSelection, asked
  <2> QED BY <2>3, <2>4
<1> QED BY <1>2, <1>3

(* In words: new is entries with e for the entry of e's file, if there is one, and no other
   entry touched.                                                              *)
Replaces(new, entries, e) ==
  /\ OnePerFile(new) /\ \E i \in DOMAIN new : new[i] = e
  /\ \A i \in DOMAIN entries : entries[i].file # e.file =>
       i \in DOMAIN new /\ new[i] = entries[i]
  /\ \A i \in DOMAIN new :
       \/ new[i] = e
       \/ i \in DOMAIN entries /\ new[i] = entries[i] /\ entries[i].file # e.file

(* Writing an entry replaces the one of its file, or appends it. *)
LEMMA WithEntryFacts ==
  ASSUME NEW entries \in Seq(Listed), NEW e \in Listed
  PROVE  /\ WithEntry(entries, e) \in Seq(Listed)
         /\ \A x \in ToSet(WithEntry(entries, e)) : x \in ToSet(entries) \/ x = e
         /\ OnePerFile(entries) => Replaces(WithEntry(entries, e), entries, e)
<1> DEFINE n == Len(entries)
           new == WithEntry(entries, e)
           same == {i \in DOMAIN entries : entries[i].file = e.file}
<1>1. n \in Nat /\ DOMAIN entries = 1..n /\ \A i \in 1..n : entries[i] \in Listed
  BY LenProperties, ElementOfSeq
<1>2. CASE same = {}
  <2>1. new = Append(entries, e)
    BY <1>2 DEF WithEntry
  <2>2. /\ new \in Seq(Listed) /\ DOMAIN new = 1..n + 1
        /\ \A i \in 1..n : new[i] = entries[i]
        /\ new[n + 1] = e
    BY <2>1, <1>1, AppendProperties, LenProperties
  <2> HIDE DEF new
  <2>3. \A i : i \in 1..n + 1 <=> i \in 1..n \/ i = n + 1
    BY <1>1
  <2> HIDE DEF n
  <2>4. \A i \in 1..n : entries[i].file # e.file
    BY <1>1, <1>2
  <2>5. \A x \in ToSet(new) : x \in ToSet(entries) \/ x = e
    BY <1>1, <2>2, <2>3 DEF ToSet
  <2>6. OnePerFile(entries) => OnePerFile(new)
    BY <1>1, <2>2, <2>3, <2>4 DEF OnePerFile
  <2>7. \E i \in DOMAIN new : new[i] = e
    BY <2>2, <2>3
  <2>8. \A i \in DOMAIN entries : i \in DOMAIN new /\ new[i] = entries[i]
    BY <1>1, <2>2, <2>3
  <2>9. ASSUME NEW i \in DOMAIN new
        PROVE  \/ new[i] = e
               \/ i \in DOMAIN entries /\ new[i] = entries[i] /\ entries[i].file # e.file
    <3>1. CASE i \in 1..n
      BY <1>1, <2>2, <2>4, <3>1
    <3>2. CASE i = n + 1
      BY <2>2, <3>2
    <3> QED BY <2>2, <2>3, <3>1, <3>2
  <2> QED BY <2>2, <2>5, <2>6, <2>7, <2>8, <2>9 DEF new, Replaces
<1>3. CASE same # {}
  <2> DEFINE c == CHOOSE i \in same : \A j \in same : i <= j
  <2>1. same \in SUBSET Nat
    BY <1>1
  <2>2. \E i \in same : \A j \in same : i <= j
    <3> HIDE DEF same
    <3> QED BY <1>3, <2>1, Least
  <2>3. c \in same
    BY <2>2
  <2>4. new = [entries EXCEPT ![c] = e]
    BY <1>3 DEF WithEntry
  <2> HIDE DEF c
  <2>5. c \in 1..n /\ entries[c].file = e.file
    BY <1>1, <2>3
  <2>6. /\ new \in Seq(Listed) /\ DOMAIN new = 1..n
        /\ \A i \in 1..n : new[i] = IF i = c THEN e ELSE entries[i]
    BY <1>1, <2>4, <2>5, ExceptSeq
  <2> HIDE DEF new, n
  <2>7. \A x \in ToSet(new) : x \in ToSet(entries) \/ x = e
    BY <1>1, <2>6 DEF ToSet
  <2>8. ASSUME OnePerFile(entries)
        PROVE  /\ OnePerFile(new)
               /\ \A i \in DOMAIN entries : entries[i].file # e.file =>
                    i \in DOMAIN new /\ new[i] = entries[i]
               /\ \A i \in DOMAIN new :
                    \/ new[i] = e
                    \/ i \in DOMAIN entries /\ new[i] = entries[i] /\ entries[i].file # e.file
    <3>1. \A i \in 1..n : i # c => entries[i].file # e.file
      BY <1>1, <2>5, <2>8 DEF OnePerFile
    <3>2. OnePerFile(new)
      BY <1>1, <2>5, <2>6, <2>8, <3>1 DEF OnePerFile
    <3>3. ASSUME NEW i \in DOMAIN entries, entries[i].file # e.file
          PROVE  i \in DOMAIN new /\ new[i] = entries[i]
      BY <1>1, <2>5, <2>6, <3>3
    <3>4. ASSUME NEW i \in DOMAIN new
          PROVE  \/ new[i] = e
                 \/ i \in DOMAIN entries /\ new[i] = entries[i] /\ entries[i].file # e.file
      <4>1. CASE i = c
        BY <2>5, <2>6, <4>1
      <4>2. CASE i # c
        BY <1>1, <2>6, <3>1, <4>2
      <4> QED BY <4>1, <4>2
    <3> QED BY <3>2, <3>3, <3>4
  <2>9. \E i \in DOMAIN new : new[i] = e
    BY <2>5, <2>6
  <2> QED BY <2>6, <2>7, <2>8, <2>9 DEF new, Replaces
<1> QED BY <1>2, <1>3

(* What an export that goes on writes, and the entry it makes of it. *)
LEMMA HandFacts ==
  ASSUME IInv, NEW p \in Src, stage[p] # "idle"
  PROVE  /\ req[p] \in Requests /\ tar[req[p].res] \in Seq(Member)
         /\ Tells(p) \in Seq(Member) \cup {Failed}
         /\ Out(req[p]) \in File
         /\ Tells(p) # Failed => Entry(p) \in Listed
         /\ Indexed(req[p]) => Entry(p).file = Out(req[p])
         /\ Entry(p).sum = Tells(p)
<1>1. req[p] \in Requests /\ tar \in Tars
  BY DEF IInv, HandInv, Hand, TypeOK
<1>2. req[p].res \in Resource /\ tar[req[p].res] \in Seq(Member)
  BY <1>1, RequestFacts, TarFacts
<1>3. Tells(p) \in Seq(Member) \cup {Failed}
  BY <1>1, <1>2, ExportType DEF Tells
<1>4. DefaultFile(req[p]) \in File /\ Out(req[p]) \in File
  BY <1>1, DefaultType
<1>5. Entry(p) = [file |-> DefaultFile(req[p]), res |-> req[p].res, sum |-> Tells(p)]
  BY DEF Entry, Tells
<1>6. Tells(p) # Failed => Entry(p) \in Listed
  BY <1>2, <1>3, <1>4, <1>5 DEF Listed
<1> QED BY <1>1, <1>2, <1>3, <1>4, <1>5, <1>6 DEF Out, Indexed

(* A step of p leaves what the others have in hand. *)
Others(p) == \A q \in Src \ {p} :
  /\ stage'[q] = stage[q] /\ req'[q] = req[q]
  /\ temp'[q] = temp[q] /\ copy'[q] = copy[q]

(* What an export has in hand outlives the steps of others, which remove no artifact. *)
LEMMA OthersKeep ==
  ASSUME IInv, NEW p \in Src, Others(p), UNCHANGED tar, DOMAIN disk \subseteq DOMAIN disk'
  PROVE  /\ \A q \in Src \ {p} : Hand(q)'
         /\ \A q \in Src \ {p} : \A e \in ToSet(copy'[q]) : e.file \in DOMAIN disk'
         /\ \A q \in Src \ {p} : /\ InWindow(q)' <=> InWindow(q)
                                /\ Tells(q)' = Tells(q) /\ Entry(q)' = Entry(q)
<1>1. \A q \in Src \ {p} : /\ stage'[q] = stage[q] /\ req'[q] = req[q]
                          /\ temp'[q] = temp[q] /\ copy'[q] = copy[q]
  BY DEF Others
<1>2. \A q \in Src \ {p} : Tells(q)' = Tells(q) /\ Entry(q)' = Entry(q)
  BY <1>1 DEF Tells, Entry
<1>3. \A q \in Src \ {p} : InWindow(q)' <=> InWindow(q)
  BY <1>1 DEF InWindow
<1>4. \A q \in Src \ {p} : Hand(q)'
  BY <1>1, <1>2, <1>3 DEF IInv, HandInv, Hand
<1>5. \A q \in Src \ {p} : \A e \in ToSet(copy'[q]) : e.file \in DOMAIN disk'
  BY <1>1 DEF IInv, EntryInv
<1> QED BY <1>2, <1>3, <1>4, <1>5

(* A step outside the window between the renames, the folder left alone. *)
LEMMA QuietStep ==
  ASSUME IInv, NEW p \in Src, TypeOK', Others(p), UNCHANGED <<tar, disk, index, disturbed>>,
         ~ InWindow(p), ~ InWindow(p)', copy'[p] \in {copy[p], <<>>}, Hand(p)'
  PROVE  IInv'
<1>1. HandInv'
  BY OthersKeep DEF HandInv
<1>2. ToSet(<<>>) = {}
  BY DEF ToSet
<1>3. EntryInv'
  BY <1>2, OthersKeep DEF IInv, EntryInv
<1>4. DiskInv'
  BY DEF IInv, DiskInv
<1>5. \A f : Open(f)' <=> Open(f)
  <2>1. \A q \in Src \ {p} : req'[q] = req[q] /\ (InWindow(q)' <=> InWindow(q))
    BY OthersKeep DEF Others
  <2> QED BY <2>1 DEF Open
<1>6. WindowInv'
  <2>1. stage'[p] # "read" /\ stage'[p] # "written"
    BY DEF InWindow
  <2>2. \A q \in Src \ {p} : /\ InWindow(q)' <=> InWindow(q)
                            /\ Tells(q)' = Tells(q) /\ Entry(q)' = Entry(q)
                            /\ stage'[q] = stage[q] /\ req'[q] = req[q] /\ copy'[q] = copy[q]
    BY OthersKeep DEF Others
  <2>3. disk' = disk /\ index' = index /\ disturbed' = disturbed
    OBVIOUS
  <2> SUFFICES ASSUME ~ disturbed PROVE WindowInv'
    BY <2>3 DEF WindowInv
  <2>4. WindowInv!2
    BY DEF IInv, WindowInv
  <2> QED
    BY <1>5, <2>1, <2>2, <2>3, <2>4 DEF WindowInv
<1> QED BY <1>1, <1>3, <1>4, <1>6 DEF IInv

(* An export that ends forgets what it had. *)
LEMMA IdleTypes ==
  ASSUME TypeOK, NEW p \in Src, Idle(p)
  PROVE  /\ stage' \in [Src -> Stages] /\ req' \in [Src -> Requests \cup {NoPath}]
         /\ temp' \in [Src -> [data : Seq(Member), synced : BOOLEAN]]
         /\ copy' \in [Src -> Seq(Listed)]
         /\ Others(p) /\ stage'[p] = "idle" /\ copy'[p] = <<>>
<1>1. Bare \in [data : Seq(Member), synced : BOOLEAN] /\ <<>> \in Seq(Listed)
  BY EmptySeq DEF Bare
<1> QED BY <1>1 DEF TypeOK, Idle, To, Stages, Others

(* An idle export has nothing in hand to be right about. *)
LEMMA IdleHand ==
  ASSUME NEW p \in Src, stage'[p] = "idle"
  PROVE  Hand(p)' /\ ~ InWindow(p)'
BY DEF Hand, InWindow

(* An export that ends outside the window leaves the folder as it was. *)
LEMMA QuietEnd ==
  ASSUME IInv, NEW p \in Src, Idle(p), ~ InWindow(p), UNCHANGED <<tar, disk, index, disturbed>>,
         object' \in [Src -> [Resource -> {"good", "rotted"}]],
         exports' \in 0..MaxExports, mishaps' \in 0..MaxMishaps
  PROVE  IInv'
<1>1. TypeOK
  BY DEF IInv
<1>2. TypeOK'
  BY <1>1, IdleTypes DEF TypeOK
<1> QED BY <1>1, <1>2, IdleTypes, IdleHand, QuietStep

(* From here on nothing is claimed of the index: a window was disturbed. *)
LEMMA DisturbedEnd ==
  ASSUME IInv, NEW p \in Src, Idle(p), disturbed' = TRUE, UNCHANGED <<tar, disk, index>>,
         object' \in [Src -> [Resource -> {"good", "rotted"}]],
         exports' \in 0..MaxExports, mishaps' \in 0..MaxMishaps
  PROVE  IInv'
<1>1. TypeOK
  BY DEF IInv
<1>2. TypeOK'
  BY <1>1, IdleTypes DEF TypeOK
<1>3. HandInv'
  BY <1>1, IdleTypes, IdleHand, OthersKeep DEF HandInv
<1>4. ToSet(<<>>) = {}
  BY DEF ToSet
<1>5. EntryInv' /\ DiskInv'
  BY <1>1, <1>4, IdleTypes, OthersKeep DEF IInv, EntryInv, DiskInv
<1> QED BY <1>2, <1>3, <1>5 DEF IInv, WindowInv

(* The steps of one export before its file has a name. *)
LEMMA EarlySteps ==
  ASSUME IInv, NEW p \in Src,
         \/ \E r \in Requests : Begin(p, r)
         \/ Stream(p) \/ StreamFails(p) \/ Sync(p)
  PROVE  IInv'
<1>1. TypeOK
  BY DEF IInv
<1> USE DEF source, folder, process, history, At, To
<1>2. ASSUME NEW r \in Requests, Begin(p, r) PROVE IInv'
  <2>1. /\ stage'[p] = "open" /\ req'[p] = r /\ Others(p) /\ stage[p] = "idle"
        /\ UNCHANGED <<tar, object, disk, index, temp, copy, disturbed, mishaps>>
    BY <1>1, <1>2 DEF Begin, TypeOK, Others
  <2>2. TypeOK'
    <3>1. exports' \in 0..MaxExports
      BY <1>1, <1>2, ExportAssumption DEF Begin, TypeOK
    <3> QED BY <1>1, <1>2, <2>1, <3>1 DEF Begin, TypeOK, Stages
  <2>3. Hand(p)' /\ ~ InWindow(p) /\ ~ InWindow(p)'
    BY <2>1 DEF Hand, InWindow
  <2> QED BY <2>1, <2>2, <2>3, QuietStep
<1>3. CASE Stream(p)
  <2>1. /\ stage'[p] = "streamed" /\ Others(p) /\ stage[p] = "open"
        /\ UNCHANGED <<tar, object, disk, index, req, copy, disturbed, exports, mishaps>>
        /\ stage' = [stage EXCEPT ![p] = "streamed"]
        /\ object[p][req[p].res] = "good"
    BY <1>1, <1>3 DEF Stream, TypeOK, Others
  <2>2. Stored(p, req[p].res) = tar[req[p].res]
    BY <2>1 DEF Stored
  <2>3. temp' = [temp EXCEPT ![p].data = Tells(p)] /\ Tells(p) # Failed
    BY <1>3, <2>2 DEF Stream, Tells
  <2>4. Tells(p) \in Seq(Member) /\ req[p] \in Requests
    BY <2>1, <2>3, HandFacts
  <2>5. temp' \in [Src -> [data : Seq(Member), synced : BOOLEAN]] /\ temp'[p].data = Tells(p)
    BY <1>1, <2>3, <2>4 DEF TypeOK
  <2>6. TypeOK'
    BY <1>1, <2>1, <2>5 DEF TypeOK, Stages
  <2>7. Tells(p)' = Tells(p)
    BY <2>1 DEF Tells
  <2>8. Hand(p)' /\ ~ InWindow(p) /\ ~ InWindow(p)'
    BY <2>1, <2>3, <2>4, <2>5, <2>7 DEF Hand, InWindow
  <2> QED BY <2>1, <2>6, <2>8, QuietStep
<1>4. CASE StreamFails(p)
  <2>1. ~ InWindow(p)
    BY <1>4 DEF StreamFails, InWindow
  <2> QED BY <1>1, <1>4, <2>1, QuietEnd DEF StreamFails, TypeOK
<1>5. CASE Sync(p)
  <2>1. /\ stage'[p] = "synced" /\ Others(p) /\ stage[p] = "streamed"
        /\ UNCHANGED <<tar, object, disk, index, req, copy, disturbed, exports, mishaps>>
        /\ stage' = [stage EXCEPT ![p] = "synced"]
        /\ temp' = [temp EXCEPT ![p].synced = TRUE]
    BY <1>1, <1>5 DEF Sync, TypeOK, Others
  <2>2. /\ temp' \in [Src -> [data : Seq(Member), synced : BOOLEAN]]
        /\ temp'[p].data = temp[p].data /\ temp'[p].synced = TRUE
    BY <1>1, <2>1 DEF TypeOK
  <2>3. TypeOK'
    BY <1>1, <2>1, <2>2 DEF TypeOK, Stages
  <2>4. Tells(p)' = Tells(p)
    BY <2>1 DEF Tells
  <2>5. Hand(p)
    BY DEF IInv, HandInv
  <2>6. Hand(p)' /\ ~ InWindow(p) /\ ~ InWindow(p)'
    BY <2>1, <2>2, <2>4, <2>5 DEF Hand, InWindow
  <2> QED BY <2>1, <2>3, <2>6, QuietStep
<1> QED BY <1>2, <1>3, <1>4, <1>5

(* The rename that gives the artifact its name, over whatever had it. *)
LEMMA PublishStep ==
  ASSUME IInv, NEW p \in Src, Publish(p)
  PROVE  IInv'
<1> DEFINE f == Out(req[p])
           new == [data |-> temp[p].data, synced |-> temp[p].synced, named |-> Indexed(req[p])]
<1>1. /\ TypeOK /\ HandInv /\ DiskInv /\ EntryInv /\ stage[p] = "synced"
      /\ temp[p].data = Tells(p) /\ Tells(p) # Failed /\ temp[p].synced = TRUE
      /\ req[p] \in Requests /\ Tells(p) \in Seq(Member) /\ f \in File
      /\ Indexed(req[p]) \in BOOLEAN
  <2>1. stage[p] = "synced" /\ TypeOK /\ HandInv /\ DiskInv /\ EntryInv
    BY DEF IInv, Publish, At
  <2>2. temp[p].synced \in BOOLEAN
    BY <2>1 DEF TypeOK
  <2> QED BY <2>1, <2>2, HandFacts DEF HandInv, Hand, Indexed
<1>2. /\ disk' = [g \in DOMAIN disk \cup {f} |-> IF g = f THEN new ELSE disk[g]]
      /\ UNCHANGED <<tar, object, index, exports, mishaps>>
  BY DEF Publish, Put, source
<1>3. disturbed' = \/ disturbed
                   \/ \E q \in Src : InWindow(q)
                   \/ ~ Indexed(req[p]) /\ \E j \in DOMAIN index.entries : index.entries[j].file = f
  BY DEF Publish, Put
<1>4. /\ stage' \in [Src -> Stages] /\ req' \in [Src -> Requests \cup {NoPath}]
      /\ temp' \in [Src -> [data : Seq(Member), synced : BOOLEAN]]
      /\ copy' \in [Src -> Seq(Listed)] /\ Others(p) /\ copy'[p] \in {copy[p], <<>>}
      /\ IF Indexed(req[p])
         THEN stage'[p] = "published" /\ req'[p] = req[p] /\ temp'[p] = Bare
         ELSE stage'[p] = "idle"
  <2>1. CASE Indexed(req[p])
    <3>1. /\ stage' = [stage EXCEPT ![p] = "published"] /\ temp' = [temp EXCEPT ![p] = Bare]
          /\ req' = req /\ copy' = copy
      BY <2>1 DEF Publish, Put, To
    <3>2. Bare \in [data : Seq(Member), synced : BOOLEAN]
      BY EmptySeq DEF Bare
    <3> QED BY <1>1, <2>1, <3>1, <3>2 DEF TypeOK, Stages, Others
  <2>2. CASE ~ Indexed(req[p])
    <3>1. Idle(p)
      BY <2>2 DEF Publish, Put
    <3> QED BY <1>1, <2>2, <3>1, IdleTypes
  <2> QED BY <2>1, <2>2
<1>5. new \in Artifact /\ new.data = Tells(p) /\ new.synced = TRUE
      /\ new.named = Indexed(req[p])
  BY <1>1 DEF Artifact
<1> HIDE DEF f, new
<1>6. /\ DOMAIN disk' = DOMAIN disk \cup {f} /\ disk'[f] = new
      /\ \A g \in DOMAIN disk \ {f} : disk'[g] = disk[g]
  BY <1>2
<1>7. TypeOK'
  <2>1. DOMAIN disk' \subseteq File /\ disk' \in [DOMAIN disk' -> Artifact]
    BY <1>1, <1>2, <1>5, <1>6 DEF TypeOK
  <2>2. disturbed' \in BOOLEAN
    BY <1>3
  <2> QED BY <1>1, <1>2, <1>4, <2>1, <2>2 DEF TypeOK
<1>8. Tells(p)' = IF Indexed(req[p]) THEN Tells(p) ELSE Tells(p)'
  BY <1>2, <1>4 DEF Tells
<1>9. HandInv'
  <2>1. Hand(p)'
    <3>1. CASE Indexed(req[p])
      <4>1. Out(req'[p]) = f /\ Indexed(req'[p]) /\ Tells(p)' # Failed
        BY <1>1, <1>4, <1>8, <3>1 DEF f
      <4> QED BY <1>1, <1>4, <1>6, <3>1, <4>1 DEF Hand
    <3>2. CASE ~ Indexed(req[p])
      BY <1>4, <3>2, IdleHand
    <3> QED BY <3>1, <3>2
  <2> QED BY <1>2, <1>4, <1>6, <2>1, OthersKeep DEF HandInv
<1>10. DiskInv'
  <2> SUFFICES ASSUME NEW g \in DOMAIN disk'
               PROVE  /\ disk'[g].synced
                      /\ \E r \in Requests : /\ Out(r) = g /\ disk'[g].data = Export(r, tar[r.res])
                                             /\ disk'[g].data # Failed
    BY <1>2 DEF DiskInv
  <2>1. CASE g = f
    BY <1>1, <1>5, <1>6, <2>1 DEF f, Tells
  <2>2. CASE g # f
    BY <1>1, <1>6, <2>2 DEF DiskInv
  <2> QED BY <2>1, <2>2
<1>11. EntryInv'
  <2>1. ToSet(<<>>) = {}
    BY DEF ToSet
  <2>2. index' = index /\ DOMAIN disk \subseteq DOMAIN disk'
    BY <1>2, <1>6
  <2>3. \A q \in Src \ {p} : \A e \in ToSet(copy'[q]) : e.file \in DOMAIN disk'
    BY <1>2, <1>4, <1>6, OthersKeep
  <2>4. \A e \in ToSet(copy'[p]) : e.file \in DOMAIN disk'
    BY <1>1, <1>4, <2>1, <2>2 DEF EntryInv
  <2> QED BY <1>1, <2>2, <2>3, <2>4 DEF EntryInv
<1>12. WindowInv'
  <2> SUFFICES ASSUME ~ disturbed' PROVE WindowInv'
    BY DEF WindowInv
  <2>1. /\ ~ disturbed /\ \A q \in Src : ~ InWindow(q)
        /\ ~ Indexed(req[p]) => \A j \in DOMAIN index.entries : index.entries[j].file # f
    BY <1>3
  <2>2. WindowInv!2 /\ \A g : ~ Open(g)
    BY <2>1 DEF IInv, WindowInv, Open
  <2>3. \A q \in Src \ {p} : ~ InWindow(q)' /\ stage'[q] # "read" /\ stage'[q] # "written"
    BY <1>2, <1>4, <1>6, <2>1, OthersKeep DEF InWindow
  <2>4. /\ InWindow(p)' <=> Indexed(req[p])
        /\ stage'[p] # "read" /\ stage'[p] # "written"
    BY <1>4 DEF InWindow
  <2>5. \A g : Open(g)' <=> Indexed(req[p]) /\ g = f
    BY <1>4, <2>3, <2>4 DEF Open, f
  <2>6. \A q \in Src : InWindow(q)' => /\ disk'[Out(req'[q])].data = Tells(q)'
                                     /\ disk'[Out(req'[q])].named
    <3> SUFFICES ASSUME Indexed(req[p])
                 PROVE  disk'[Out(req'[p])].data = Tells(p)' /\ disk'[Out(req'[p])].named
      BY <2>3, <2>4
    <3> QED BY <1>4, <1>5, <1>6, <1>8 DEF f
  <2>7. \A j \in DOMAIN index.entries : index.entries[j].file \in DOMAIN disk
    BY <1>1 DEF EntryInv, ToSet
  <2>8. ASSUME NEW g \in DOMAIN disk', disk'[g].named, ~ Open(g)'
        PROVE  \E j \in DOMAIN index.entries : index.entries[j].file = g
    <3>1. g # f
      BY <1>5, <1>6, <2>5, <2>8
    <3> QED BY <1>6, <2>2, <2>8, <3>1
  <2>9. ASSUME NEW j \in DOMAIN index.entries, ~ Open(index.entries[j].file)'
        PROVE  index.entries[j].sum = disk'[index.entries[j].file].data
    <3>1. index.entries[j].file # f
      BY <1>2, <2>1, <2>5, <2>9
    <3> QED BY <1>6, <2>2, <2>7, <3>1
  <2>10. index' = index
    BY <1>2
  <2>11. \A j \in DOMAIN index'.entries : ~ Open(index.entries[j].file)' =>
           index'.entries[j].sum = disk'[index'.entries[j].file].data
    BY <2>9, <2>10
  <2>12. \A g \in DOMAIN disk' : disk'[g].named /\ ~ Open(g)' =>
           \E j \in DOMAIN index'.entries : index'.entries[j].file = g
    BY <2>8, <2>10
  <2>13. index'.whole /\ OnePerFile(index'.entries)
    BY <2>2, <2>10
  <2>14. \A q, o \in Src : InWindow(q)' /\ InWindow(o)' => q = o
    BY <2>3
  <2>15. \A q \in Src : stage'[q] # "read" /\ stage'[q] # "written"
    BY <2>3, <2>4
  <2> QED BY <2>6, <2>11, <2>12, <2>13, <2>14, <2>15 DEF WindowInv
<1> QED BY <1>7, <1>9, <1>10, <1>11, <1>12 DEF IInv

(* A step between the renames that only changes the copy of the index. *)
LEMMA WindowStep ==
  ASSUME IInv, NEW p \in Src, InWindow(p), NEW s \in {"read", "written"},
         NEW c \in Seq(Listed),
         stage' = [stage EXCEPT ![p] = s], copy' = [copy EXCEPT ![p] = c],
         UNCHANGED <<source, folder, req, temp, history>>,
         \A e \in ToSet(c) : e.file \in DOMAIN disk,
         ~ disturbed /\ s = "read" => c = index.entries,
         ~ disturbed /\ s = "written" => c = WithEntry(index.entries, Entry(p))
  PROVE  IInv'
<1>1. /\ TypeOK /\ stage'[p] = s /\ copy'[p] = c /\ Others(p)
      /\ UNCHANGED <<tar, object, disk, index, req, temp, disturbed, exports, mishaps>>
  BY DEF IInv, TypeOK, Others, source, folder, history
<1>2. TypeOK'
  BY <1>1 DEF TypeOK, Stages
<1>3. \A q \in Src : InWindow(q)' <=> InWindow(q)
  BY <1>1, OthersKeep DEF InWindow
<1>4. \A q \in Src : Tells(q)' = Tells(q) /\ Entry(q)' = Entry(q)
  BY <1>1 DEF Tells, Entry
<1>5. Hand(p)'
  <2>1. Hand(p)
    BY DEF IInv, HandInv
  <2>2. stage[p] \in {"published", "read", "written"}
    BY DEF InWindow
  <2> QED BY <1>1, <1>3, <1>4, <2>1, <2>2 DEF Hand
<1>6. HandInv'
  BY <1>1, <1>5, OthersKeep DEF HandInv
<1>7. DiskInv' /\ EntryInv'
  <2>1. \A q \in Src \ {p} : copy'[q] = copy[q]
    BY <1>1 DEF Others
  <2> QED BY <1>1, <2>1 DEF IInv, DiskInv, EntryInv
<1>8. WindowInv'
  <2> SUFFICES ASSUME ~ disturbed PROVE WindowInv'
    BY <1>1 DEF WindowInv
  <2>1. WindowInv!2
    BY DEF IInv, WindowInv
  <2>2. \A g : Open(g)' <=> Open(g)
    BY <1>1, <1>3 DEF Open
  <2>3. \A q \in Src \ {p} : stage'[q] = stage[q] /\ copy'[q] = copy[q]
    BY <1>1 DEF Others
  <2>4. /\ index' = index /\ disk' = disk /\ req' = req
        /\ s = "read" => c = index.entries
        /\ s = "written" => c = WithEntry(index.entries, Entry(p))
    BY <1>1
  <2>5. \A q \in Src : stage'[q] = "read" => copy'[q] = index'.entries
    BY <1>1, <2>1, <2>3, <2>4
  <2>6. \A q \in Src : stage'[q] = "written" => copy'[q] = WithEntry(index'.entries, Entry(q)')
    BY <1>1, <1>4, <2>1, <2>3, <2>4
  <2>7. \A q, o \in Src : InWindow(q)' /\ InWindow(o)' => q = o
    BY <1>3, <2>1
  <2>8. \A q \in Src : InWindow(q)' => /\ disk'[Out(req'[q])].data = Tells(q)'
                                     /\ disk'[Out(req'[q])].named
    BY <1>3, <1>4, <2>1, <2>4
  <2>9. index'.whole /\ OnePerFile(index'.entries)
    BY <2>1, <2>4
  <2>10. \A g \in DOMAIN disk' : disk'[g].named /\ ~ Open(g)' =>
           \E j \in DOMAIN index'.entries : index'.entries[j].file = g
    BY <2>1, <2>2, <2>4
  <2>11. \A j \in DOMAIN index'.entries : ~ Open(index.entries[j].file)' =>
           index'.entries[j].sum = disk'[index'.entries[j].file].data
    BY <2>1, <2>2, <2>4
  <2> QED BY <2>5, <2>6, <2>7, <2>8, <2>9, <2>10, <2>11 DEF WindowInv
<1> QED BY <1>2, <1>6, <1>7, <1>8 DEF IInv

(* Reading the index, and making the new one. *)
LEMMA CopySteps ==
  ASSUME IInv, NEW p \in Src, ReadIndex(p) \/ WriteIndex(p)
  PROVE  IInv'
<1>1. TypeOK /\ HandInv /\ EntryInv
  BY DEF IInv
<1>2. CASE ReadIndex(p)
  <2>1. /\ InWindow(p) /\ index.entries \in Seq(Listed)
        /\ \A e \in ToSet(index.entries) : e.file \in DOMAIN disk
    BY <1>1, <1>2 DEF ReadIndex, At, InWindow, TypeOK, EntryInv
  <2> QED BY <1>2, <2>1, WindowStep DEF ReadIndex, To
<1>3. CASE WriteIndex(p)
  <2> DEFINE c == WithEntry(copy[p], Entry(p))
  <2>1. /\ InWindow(p) /\ stage[p] = "read" /\ copy[p] \in Seq(Listed)
        /\ \A e \in ToSet(copy[p]) : e.file \in DOMAIN disk
    BY <1>1, <1>3 DEF WriteIndex, At, InWindow, TypeOK, EntryInv
  <2>2. Entry(p) \in Listed /\ Entry(p).file \in DOMAIN disk
    BY <1>1, <2>1, HandFacts DEF HandInv, Hand
  <2>3. c \in Seq(Listed) /\ \A e \in ToSet(c) : e.file \in DOMAIN disk
    BY <2>1, <2>2, WithEntryFacts
  <2>4. ~ disturbed => c = WithEntry(index.entries, Entry(p))
    BY <2>1 DEF IInv, WindowInv
  <2>5. /\ stage' = [stage EXCEPT ![p] = "written"] /\ copy' = [copy EXCEPT ![p] = c]
        /\ UNCHANGED <<source, folder, req, temp, history>>
    BY <1>3 DEF WriteIndex, To
  <2> HIDE DEF c
  <2> QED BY <2>1, <2>3, <2>4, <2>5, WindowStep
<1> QED BY <1>2, <1>3

(* The rename of the index closes the window. *)
LEMMA RenameStep ==
  ASSUME IInv, NEW p \in Src, RenameIndex(p)
  PROVE  IInv'
<1> DEFINE f == Out(req[p])
           e == Entry(p)
           new == copy[p]
<1>1. /\ TypeOK /\ HandInv /\ DiskInv /\ EntryInv /\ stage[p] = "written" /\ InWindow(p)
      /\ Idle(p) /\ UNCHANGED <<tar, object, disk, disturbed, exports, mishaps>>
      /\ index' = [entries |-> new, synced |-> TRUE, whole |-> TRUE]
  BY DEF IInv, RenameIndex, At, InWindow, source, history
<1>2. new \in Seq(Listed) /\ \A x \in ToSet(new) : x.file \in DOMAIN disk
  BY <1>1 DEF TypeOK, EntryInv
<1>3. e \in Listed /\ e.file = f /\ e.sum = Tells(p) /\ f \in DOMAIN disk
  BY <1>1, HandFacts DEF HandInv, Hand
<1> HIDE DEF f, e, new
<1>4. index'.entries = new /\ index'.synced = TRUE /\ index'.whole = TRUE
      /\ index' \in [entries : Seq(Listed), synced : BOOLEAN, whole : BOOLEAN]
  BY <1>1, <1>2
<1>5. TypeOK'
  BY <1>1, <1>4, IdleTypes DEF TypeOK
<1>6. Others(p) /\ stage'[p] = "idle" /\ copy'[p] = <<>>
  BY <1>1, IdleTypes
<1>7. HandInv' /\ DiskInv'
  BY <1>1, <1>6, IdleHand, OthersKeep DEF HandInv, DiskInv
<1>8. EntryInv'
  <2>1. ToSet(<<>>) = {}
    BY DEF ToSet
  <2> QED BY <1>1, <1>2, <1>4, <1>6, <2>1, OthersKeep DEF EntryInv
<1>9. WindowInv'
  <2> SUFFICES ASSUME ~ disturbed PROVE WindowInv'
    BY <1>1 DEF WindowInv
  <2>1. WindowInv!2
    BY DEF IInv, WindowInv
  <2>2. new = WithEntry(index.entries, e)
    BY <1>1, <2>1 DEF new, e
  <2>3. Replaces(new, index.entries, e)
    <3>1. index.entries \in Seq(Listed)
      BY <1>1 DEF TypeOK
    <3> QED BY <1>3, <2>1, <2>2, <3>1, WithEntryFacts
  <2>4. \A g : Open(g) => g = f
    BY <1>1, <2>1 DEF Open, f
  <2>5. \A q \in Src : ~ InWindow(q)' /\ stage'[q] # "read" /\ stage'[q] # "written"
    <3>1. \A q \in Src \ {p} : ~ InWindow(q)
      BY <1>1, <2>1
    <3> QED BY <1>1, <1>6, <3>1, OthersKeep, IdleHand DEF InWindow
  <2>6. ASSUME NEW g \in DOMAIN disk, disk[g].named
        PROVE  \E i \in DOMAIN new : new[i].file = g
    <3>1. CASE g = f
      BY <1>3, <2>3, <3>1 DEF Replaces
    <3>2. CASE g # f
      <4>1. PICK i \in DOMAIN index.entries : index.entries[i].file = g
        BY <2>1, <2>4, <2>6, <3>2
      <4> QED BY <1>3, <2>3, <3>2, <4>1 DEF Replaces
    <3> QED BY <3>1, <3>2
  <2>7. ASSUME NEW i \in DOMAIN new PROVE new[i].sum = disk[new[i].file].data
    <3>1. CASE new[i] = e
      BY <1>1, <1>3, <2>1, <3>1 DEF f
    <3>2. CASE i \in DOMAIN index.entries /\ index.entries[i].file # e.file
               /\ new[i] = index.entries[i]
      BY <1>3, <2>1, <2>4, <3>2
    <3> QED BY <2>3, <3>1, <3>2 DEF Replaces
  <2>8. \A i \in DOMAIN index'.entries : ~ Open(index.entries[i].file)' =>
           index'.entries[i].sum = disk'[index'.entries[i].file].data
    BY <1>1, <1>4, <2>7
  <2>9. \A g \in DOMAIN disk' : disk'[g].named /\ ~ Open(g)' =>
           \E i \in DOMAIN index'.entries : index'.entries[i].file = g
    BY <1>1, <1>4, <2>6
  <2> QED BY <1>4, <2>3, <2>5, <2>8, <2>9 DEF WindowInv, Replaces
<1> QED BY <1>5, <1>7, <1>8, <1>9 DEF IInv

(* Failures, deaths, power failures and rot. *)
LEMMA MishapSteps ==
  ASSUME IInv, Mishap \/ \E p \in Src : IndexUnreadable(p)
  PROVE  IInv'
<1> USE DEF source, folder, process, history, At
<1>1. TypeOK /\ mishaps \in 0..MaxMishaps /\ exports \in 0..MaxExports /\ MaxMishaps \in Nat
  BY ExportAssumption DEF IInv, TypeOK
<1>2. ASSUME NEW p \in Src, Stop(p) PROVE IInv'
  <2>1. /\ Idle(p) /\ UNCHANGED <<tar, object, disk, index, exports>>
        /\ disturbed' = (disturbed \/ InWindow(p)) /\ mishaps' \in 0..MaxMishaps
    BY <1>1, <1>2 DEF Stop
  <2>2. object' \in [Src -> [Resource -> {"good", "rotted"}]] /\ exports' \in 0..MaxExports
        /\ disturbed \in BOOLEAN
    BY <1>1, <2>1 DEF TypeOK
  <2>3. CASE InWindow(p)
    BY <2>1, <2>2, <2>3, DisturbedEnd
  <2>4. CASE ~ InWindow(p)
    <3>1. disturbed' = disturbed
      BY <2>1, <2>2, <2>4
    <3> QED BY <2>1, <2>2, <2>4, <3>1, QuietEnd
  <2> QED BY <2>3, <2>4
<1>3. ASSUME NEW p \in Src, IndexUnreadable(p) PROVE IInv'
  <2>1. /\ Idle(p) /\ UNCHANGED <<tar, object, disk, index, disturbed, exports, mishaps>>
        /\ ~ index.whole
    BY <1>3 DEF IndexUnreadable
  <2>2. disturbed = TRUE
    BY <1>1, <2>1 DEF IInv, WindowInv, TypeOK
  <2> QED BY <1>1, <2>1, <2>2, DisturbedEnd DEF TypeOK
<1>4. ASSUME NEW p \in Src, NEW v \in Resource, Rot(p, v) PROVE IInv'
  <2>1. /\ UNCHANGED <<tar, disk, index, stage, req, temp, copy, disturbed, exports>>
        /\ mishaps' \in 0..MaxMishaps
        /\ object' = [object EXCEPT ![p][v] = "rotted"]
    BY <1>1, <1>4 DEF Rot
  <2>2. object' \in [Src -> [Resource -> {"good", "rotted"}]]
    BY <1>1, <2>1 DEF TypeOK
  <2>3. TypeOK'
    BY <1>1, <2>1, <2>2 DEF TypeOK
  <2>4. (HandInv /\ DiskInv /\ EntryInv /\ WindowInv)'
    BY <2>1 DEF IInv, HandInv, Hand, DiskInv, EntryInv, WindowInv, Open, InWindow, Tells, Entry
  <2> QED BY <2>3, <2>4 DEF IInv
<1>5. CASE PowerLoss
  <2>1. disk' = disk /\ index' = index
    <3>1. \A f \in DOMAIN disk : disk[f].synced
      BY DEF IInv, DiskInv
    <3>2. disk' = [f \in DOMAIN disk |-> disk[f]]
      BY <1>5, <3>1 DEF PowerLoss
    <3>3. disk = [f \in DOMAIN disk |-> disk[f]]
      BY <1>1 DEF TypeOK
    <3> QED BY <1>5, <3>2, <3>3 DEF PowerLoss, IInv, EntryInv
  <2>8. mishaps' \in 0..MaxMishaps
    <3>1. mishaps < MaxMishaps /\ mishaps' = mishaps + 1
      BY <1>5 DEF PowerLoss
    <3>2. mishaps \in 0..MaxMishaps /\ MaxMishaps \in Nat
      BY <1>1, ExportAssumption DEF TypeOK
    <3> QED BY <3>1, <3>2
  <2>2. /\ UNCHANGED <<tar, object, exports>>
        /\ stage' = [p \in Src |-> "idle"] /\ req' = [p \in Src |-> NoPath]
        /\ temp' = [p \in Src |-> Bare] /\ copy' = [p \in Src |-> <<>>]
        /\ disturbed' = (disturbed \/ \E p \in Src : InWindow(p))
    BY <1>5 DEF PowerLoss
  <2>3. TypeOK'
    <3>1. Bare \in [data : Seq(Member), synced : BOOLEAN] /\ <<>> \in Seq(Listed)
      BY EmptySeq DEF Bare
    <3>2. disturbed' \in BOOLEAN
      BY <2>2
    <3> QED BY <1>1, <2>1, <2>2, <2>8, <3>1, <3>2 DEF TypeOK, Stages
  <2>4. HandInv' /\ \A p \in Src : ~ InWindow(p)'
    BY <2>2 DEF HandInv, Hand, InWindow
  <2>5. ToSet(<<>>) = {}
    BY DEF ToSet
  <2>6. DiskInv' /\ EntryInv'
    BY <2>1, <2>2, <2>5 DEF IInv, DiskInv, EntryInv
  <2>7. WindowInv'
    <3> SUFFICES ASSUME ~ disturbed' PROVE WindowInv'
      BY DEF WindowInv
    <3>1. ~ disturbed /\ \A p \in Src : ~ InWindow(p)
      BY <2>2
    <3>2. WindowInv!2 /\ \A g : ~ Open(g)
      BY <3>1 DEF IInv, WindowInv, Open
    <3>3. \A q \in Src : stage'[q] # "read" /\ stage'[q] # "written"
      BY <2>2
    <3> QED BY <2>1, <2>4, <3>2, <3>3 DEF WindowInv
  <2> QED BY <2>3, <2>4, <2>6, <2>7 DEF IInv
<1> QED BY <1>2, <1>3, <1>4, <1>5 DEF Mishap

(* What every step keeps. *)
THEOREM InductiveInvariant == Spec => []IInv
<1>1. Init => IInv
  <2> SUFFICES ASSUME Init PROVE IInv
    OBVIOUS
  <2>1. /\ tar \in Tars /\ object = [p \in Src |-> [r \in Resource |-> "good"]]
        /\ disk = [f \in {} |-> Bare] /\ index \in {NoIndex, Garbage}
        /\ stage = [p \in Src |-> "idle"] /\ req = [p \in Src |-> NoPath]
        /\ temp = [p \in Src |-> Bare] /\ copy = [p \in Src |-> <<>>]
        /\ exports = 0 /\ mishaps = 0
    BY DEF Init
  <2>2. disturbed = ~ index.whole /\ disturbed \in BOOLEAN
    BY DEF Init
  <2>3. /\ Bare \in [data : Seq(Member), synced : BOOLEAN] /\ <<>> \in Seq(Listed)
        /\ Len(<<>>) = 0
    BY EmptySeq DEF Bare
  <2>4. /\ index \in [entries : Seq(Listed), synced : BOOLEAN, whole : BOOLEAN]
        /\ index.entries = <<>> /\ index.synced = TRUE
    <3>1. Garbage = [entries |-> <<>>, synced |-> TRUE, whole |-> FALSE]
      BY DEF Garbage
    <3>2. CASE index = NoIndex
      BY <2>3, <3>2 DEF NoIndex
    <3>3. CASE index = Garbage
      BY <2>3, <3>1, <3>3
    <3> QED BY <2>1, <3>2, <3>3
  <2>5. TypeOK
    BY <2>1, <2>2, <2>3, <2>4, ExportAssumption DEF TypeOK, Stages
  <2>6. HandInv /\ \A p \in Src : ~ InWindow(p)
    BY <2>1 DEF HandInv, Hand, InWindow
  <2>7. DOMAIN index.entries = {} /\ ToSet(<<>>) = {}
    BY <2>4 DEF ToSet
  <2>8. DiskInv /\ EntryInv
    BY <2>1, <2>4, <2>7 DEF DiskInv, EntryInv
  <2>9. WindowInv
    BY <2>1, <2>2, <2>6, <2>7 DEF WindowInv, OnePerFile
  <2> QED BY <2>5, <2>6, <2>8, <2>9 DEF IInv
<1>2. IInv /\ [Next]_vars => IInv'
  <2> SUFFICES ASSUME IInv, [Next]_vars PROVE IInv'
    OBVIOUS
  <2>1. ASSUME NEW p \in Src, Step(p) PROVE IInv'
    BY <2>1, EarlySteps, PublishStep, CopySteps, RenameStep, MishapSteps DEF Step
  <2>2. CASE Mishap
    BY <2>2, MishapSteps
  <2>3. CASE UNCHANGED vars
    <3>1. UNCHANGED <<tar, object, disk, index, stage, req, temp, copy, disturbed, exports,
                      mishaps>>
      BY <2>3 DEF vars, source, folder, process, history
    <3>2. TypeOK'
      BY <3>1 DEF IInv, TypeOK
    <3>3. (HandInv /\ DiskInv /\ EntryInv /\ WindowInv)'
      BY <3>1 DEF IInv, HandInv, Hand, DiskInv, EntryInv, WindowInv, Open, InWindow, Tells,
         Entry
    <3> QED BY <3>2, <3>3 DEF IInv
  <2> QED BY <2>1, <2>2, <2>3 DEF Next
<1> QED BY <1>1, <1>2, PTL DEF Spec

(* The exports and the folder keep their types. *)
THEOREM TypeCorrect == Spec => []TypeOK
<1>1. IInv => TypeOK
  BY DEF IInv
<1> QED BY <1>1, InductiveInvariant, PTL

(* A file with the name of an artifact is exactly what a request for that name asks
   for, whatever failed, rotted, or was exported under the same name.            *)
THEOREM ArtifactsAreExact == Spec => []ArtifactExact
<1>1. IInv => ArtifactExact
  <2> SUFFICES ASSUME IInv, NEW f \in DOMAIN disk
               PROVE  \E r \in Requests : Out(r) = f /\ IsSelection(disk[f].data, r)
    BY DEF ArtifactExact
  <2>1. PICK r \in Requests : /\ Out(r) = f /\ disk[f].data = Export(r, tar[r.res])
                             /\ disk[f].data # Failed
    BY DEF IInv, DiskInv
  <2>2. IsSelection(Export(r, tar[r.res]), r)
    BY <2>1, RequestFacts, ExportExact DEF IInv, TypeOK
  <2> QED BY <2>1, <2>2
<1> QED BY <1>1, InductiveInvariant, PTL

(* What the index lists can be read, whoever else exports and whatever fails. *)
THEOREM ListedIsReadable == Spec => []ListedReadable
<1>1. IInv => ListedReadable
  <2> SUFFICES ASSUME IInv PROVE ListedReadable
    OBVIOUS
  <2>1. \A e \in ToSet(index.entries) : e.file \in DOMAIN disk
    BY DEF IInv, EntryInv
  <2>2. ASSUME NEW f \in DOMAIN disk PROVE disk[f].data # Torn
    <3>1. PICK r \in Requests : disk[f].data = Export(r, tar[r.res]) /\ disk[f].data # Failed
      BY DEF IInv, DiskInv
    <3>2. tar[r.res] \in Seq(Member)
      BY RequestFacts, TarFacts DEF IInv, TypeOK
    <3>3. Export(r, tar[r.res]) \in Seq(Member) \cup {Failed}
      BY <3>2, ExportType
    <3> QED BY <3>1, <3>3, SentinelAssumption
  <2> QED BY <2>1, <2>2 DEF ListedReadable, Unreadable
<1> QED BY <1>1, InductiveInvariant, PTL

(* While no two windows met, every default artifact has one entry, with the checksum
   of what the file holds.                                                        *)
THEOREM IndexIsComplete == Spec => []IndexComplete
<1>1. IInv => IndexComplete
  <2> SUFFICES ASSUME IInv, ~ disturbed, \A p \in Src : ~ InWindow(p)
               PROVE  /\ index.whole
                      /\ \A f \in DOMAIN disk : disk[f].named =>
                           Cardinality({i \in DOMAIN index.entries :
                                          index.entries[i].file = f}) = 1
                      /\ \A e \in ToSet(index.entries) : e.sum = disk[e.file].data
    BY DEF IndexComplete
  <2>1. WindowInv!2 /\ \A g : ~ Open(g)
    BY DEF IInv, WindowInv, Open
  <2>2. ASSUME NEW f \in DOMAIN disk, disk[f].named
        PROVE  Cardinality({i \in DOMAIN index.entries : index.entries[i].file = f}) = 1
    <3>1. PICK i \in DOMAIN index.entries : index.entries[i].file = f
      BY <2>1, <2>2
    <3>2. {j \in DOMAIN index.entries : index.entries[j].file = f} = {i}
      BY <2>1, <3>1 DEF OnePerFile
    <3> QED BY <3>2, FS_Singleton
  <2>3. \A e \in ToSet(index.entries) : e.sum = disk[e.file].data
    BY <2>1 DEF ToSet
  <2> QED BY <2>1, <2>2, <2>3
<1> QED BY <1>1, InductiveInvariant, PTL
(* What the browser offers is a captured file's name or a folder above one; for a
   raw export, a regular file's name.                                            *)
LEMMA OfferedFacts ==
  ASSUME NEW members \in Seq(Member), NEW raw \in BOOLEAN,
         NEW prefix \in Levels(FileIndex(members)),
         NEW path \in VolumePathItems(FileIndex(members), prefix, raw)
  PROVE  \E i \in DOMAIN members :
           /\ members[i].name # <<>>
           /\ path \in Seq(Part) /\ path # <<>> /\ IsPrefix(path, members[i].name)
           /\ raw => path = members[i].name /\ members[i].type = "reg"
<1> DEFINE idx == FileIndex(members)
<1>1. \A m \in idx : \E i \in DOMAIN members :
        m = members[i] /\ m.name # <<>> /\ m.name \in Seq(Part)
  <2>1. DOMAIN members = 1..Len(members) /\ \A i \in 1..Len(members) : members[i] \in Member
    BY LenProperties, ElementOfSeq
  <2>2. \A x \in Member : x.name \in Seq(Part)
    BY DEF Member
  <2> QED BY <2>1, <2>2 DEF FileIndex, ToSet
<1> HIDE DEF idx
<1>2. CASE \E m \in idx : path = m.name /\ (raw => m.type = "reg")
  <2>1. PICK m \in idx : path = m.name /\ (raw => m.type = "reg")
    BY <1>2
  <2>2. PICK i \in DOMAIN members : m = members[i] /\ m.name # <<>> /\ m.name \in Seq(Part)
    BY <1>1
  <2>3. IsPrefix(path, members[i].name)
    <3>1. Len(path) \in Nat
      BY <2>1, <2>2, LenProperties
    <3> QED BY <2>1, <2>2, <3>1 DEF IsPrefix
  <2> QED BY <2>1, <2>2, <2>3
<1>3. CASE ~ raw /\ path = prefix /\ path # <<>>
  <2>1. PICK m \in idx : prefix \in {SubSeq(m.name, 1, k) : k \in 0..(Len(m.name) - 1)}
    BY DEF Levels, idx
  <2>2. PICK k \in 0..(Len(m.name) - 1) : prefix = SubSeq(m.name, 1, k)
    BY <2>1
  <2>3. PICK i \in DOMAIN members : m = members[i] /\ m.name # <<>> /\ m.name \in Seq(Part)
    BY <1>1
  <2> DEFINE name == m.name
  <2>4. path \in Seq(Part) /\ IsPrefix(path, name)
    <3>1. Len(name) \in Nat /\ k \in Nat /\ k <= Len(name)
          /\ \A j \in 1..k : name[j] \in Part
      <4>1. name \in Seq(Part) /\ Len(name) \in Nat
        BY <2>3, LenProperties
      <4>2. \A j \in 1..Len(name) : name[j] \in Part
        BY <4>1, ElementOfSeq
      <4> HIDE DEF name
      <4> QED BY <2>2, <4>1, <4>2 DEF name
    <3> HIDE DEF name
    <3> DEFINE u == SubSeq(name, 1, k)
    <3>2. /\ u \in Seq(Part)
          /\ Len(u) = IF 1 <= k THEN k - 1 + 1 ELSE 0
          /\ \A j \in 1..k - 1 + 1 : u[j] = name[1 + j - 1]
      BY <3>1, SubSeqProperties
    <3> HIDE DEF u
    <3>3. Len(u) <= Len(name) /\ \A j \in 1..Len(u) : u[j] = name[j]
      BY <3>1, <3>2
    <3>4. name \in Seq(Part)
      BY <2>3 DEF name
    <3>5. IsPrefix(u, name)
      BY <3>2, <3>3, <3>4, PrefixFacts
    <3>6. path = u
      BY <1>3, <2>2 DEF u, name
    <3> QED BY <3>2, <3>5, <3>6
  <2> QED BY <1>3, <2>3, <2>4
<1>4. \/ \E m \in idx : path = m.name /\ (raw => m.type = "reg")
      \/ ~ raw /\ path = prefix /\ path # <<>>
  BY DEF VolumePathItems, Inside, idx
<1> QED BY <1>2, <1>3, <1>4

(* An export of what the browser offers in a plain volume does not fail. *)
LEMMA OfferedExports ==
  ASSUME NEW members \in Seq(Member), Plain(members),
         NEW raw \in BOOLEAN, NEW path \in Seq(Part), path # <<>>,
         NEW o \in DOMAIN members, members[o].name # <<>>,
         IsPrefix(path, members[o].name),
         raw => path = members[o].name /\ members[o].type = "reg",
         NEW r, r.path = path, r.raw = raw
  PROVE  Export(r, members) # Failed
<1> DEFINE named == Renamed(members)
           sel == NormalizePath(path)
           picked == Picked(members, sel)
           n == Len(members)
<1>1. /\ DOMAIN members = 1..n /\ n \in Nat /\ \A i \in 1..n : members[i] \in Member
      /\ named \in Seq(Member) /\ DOMAIN named = DOMAIN members
  BY LenProperties, ElementOfSeq, RenamedType DEF Renamed
<1>2. \A x \in Member : x.name \in Seq(Part)
  BY DEF Member
<1>3. members[o].name \in Seq(Part) /\ members[o] \in Member
  BY <1>1, <1>2
<1>4. named[o].name = NormalizePath(members[o].name) /\ named[o].type = members[o].type
  BY <1>3 DEF Renamed, Member
<1>5. /\ ~ Twice(named)
      /\ \A a, b \in ToSet(named) : IsStrictPrefix(a.name, b.name) => a.type = "dir"
      /\ \A i \in DOMAIN members : ~ Rejected(members[i].name)
      /\ named[o].name = <<>> => members[o].name = <<>>
  BY DEF Plain
<1>6. ~ Rejected(path)
  BY <1>3, <1>5, RejectedPrefix
<1>7. IsPrefix(sel, named[o].name)
  BY <1>3, <1>4, NormalPrefix
<1>8. named[o] \in ToSet(named)
  BY <1>1 DEF ToSet
<1> HIDE DEF named, sel, picked, n
<1>9. /\ picked \in Seq(Member)
      /\ ToSet(picked) = {m \in ToSet(named) : m.name # <<>> /\ IsPrefix(sel, m.name)}
      /\ ~ Twice(picked)
  BY <1>1, <1>5, PickedFacts DEF named, picked, MatchesPath
<1>10. named[o] \in ToSet(picked)
  BY <1>5, <1>7, <1>8, <1>9
<1>11. /\ Len(picked) \in Nat /\ DOMAIN picked = 1..Len(picked)
       /\ picked # Failed
  BY <1>9, LenProperties, SentinelAssumption
<1>12. PICK c \in 1..Len(picked) : picked[c] = named[o]
  BY <1>10, <1>11 DEF ToSet
<1>13. picked # <<>>
  <2>1. Len(picked) # 0
    BY <1>11, <1>12
  <2> QED BY <2>1
<1>14. CASE sel = <<>>
  BY <1>6, <1>14, SentinelAssumption DEF Export, sel
<1>15. CASE sel # <<>> /\ ~ raw
  <2>1. ExportTarSelection(members, sel) = picked
    BY <1>5, <1>9, <1>13 DEF ExportTarSelection, picked
  <2> QED BY <1>6, <1>11, <1>15, <2>1, SentinelAssumption DEF Export, sel
<1>16. CASE sel # <<>> /\ raw
  <2>1. named[o].name = sel /\ named[o].type = "reg"
    BY <1>4, <1>16 DEF sel
  <2>2. ASSUME NEW j \in 1..Len(picked) PROVE picked[j].name = sel
    <3>1. picked[j] \in ToSet(named) /\ IsPrefix(sel, picked[j].name)
      BY <1>9, <1>11 DEF ToSet
    <3>2. IsStrictPrefix(sel, picked[j].name) => named[o].type = "dir"
      BY <1>5, <1>8, <2>1, <3>1
    <3> QED BY <2>1, <3>1, <3>2 DEF IsStrictPrefix
  <2>3. \A i, j \in 1..Len(picked) : i = j
    BY <1>9, <1>11, <2>2 DEF Twice
  <2>4. Len(picked) = 1 /\ picked[1] = named[o]
    <3>1. 1 \in 1..Len(picked) /\ Len(picked) \in 1..Len(picked)
      BY <1>11, <1>12
    <3> QED BY <1>12, <2>3, <3>1
  <2>5. ExportRawFile(members, sel) = picked
    BY <1>5, <2>1, <2>4 DEF ExportRawFile, picked
  <2> QED BY <1>6, <1>11, <1>16, <2>5, SentinelAssumption DEF Export, sel
<1> QED BY <1>14, <1>15, <1>16

(* Whatever the browser offers in a plain volume can be exported, and is what was
   asked for: the browser's index and the exporter's tar name things alike.      *)
THEOREM OffersAreExportable == Spec => []OfferedExportable
<1>1. TypeOK => OfferedExportable
  <2> SUFFICES ASSUME TypeOK, NEW v \in Resource \ Images, NEW raw \in BOOLEAN,
                      Plain(tar[v]), NEW prefix \in Levels(FileIndex(tar[v])),
                      NEW path \in VolumePathItems(FileIndex(tar[v]), prefix, raw)
               PROVE  LET r == [res |-> v, path |-> path, raw |-> raw,
                                out |-> NoFile, yes |-> FALSE]
                      IN Export(r, tar[v]) # Failed /\ IsSelection(Export(r, tar[v]), r)
    BY DEF OfferedExportable
  <2> DEFINE r == [res |-> v, path |-> path, raw |-> raw, out |-> NoFile, yes |-> FALSE]
  <2>1. tar \in Tars /\ tar[v] \in Seq(Member)
    BY TarFacts DEF TypeOK
  <2>2. r.res = v /\ r.path = path /\ r.raw = raw
    OBVIOUS
  <2> HIDE DEF r
  <2>3. PICK i \in DOMAIN tar[v] :
          /\ tar[v][i].name # <<>>
          /\ path \in Seq(Part) /\ path # <<>> /\ IsPrefix(path, tar[v][i].name)
          /\ raw => path = tar[v][i].name /\ tar[v][i].type = "reg"
    BY <2>1, OfferedFacts
  <2>4. Export(r, tar[v]) # Failed
    BY <2>1, <2>2, <2>3, OfferedExports
  <2>5. IsSelection(Export(r, tar[v]), r)
    BY <2>1, <2>2, <2>4, ExportExact
  <2> QED BY <2>4, <2>5 DEF r
<1>2. Spec => []TypeOK
  BY TypeCorrect
<1> QED BY <1>1, <1>2, PTL
==============================================================================
