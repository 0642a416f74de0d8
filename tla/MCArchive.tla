----------------------------- MODULE MCArchive -----------------------------
(* Two stores export to one path.  m1 names an object twice; m2 has the id of
   m1 and other content.  Foreign archives have a missing, an extra, a doubled
   or a misplaced entry.                                                       *)
EXTENDS Archive, TLC

CONSTANTS p1, p2, m1, m2, s1

MCRefs  == m1 :> <<2, 1, 2>> @@ m2 :> <<2>>
MCIdOf  == m1 :> s1 @@ m2 :> s1
MCHolds == p1 :> {m1} @@ p2 :> {m2}

E(n, L) == [name |-> n, man |-> m2, lines |-> L, content |-> "good"]
Head0   == E(Manifest, {})
Sums(L) == E(Checksums, L)

MCForeign ==
  {<<>>,
   <<E(1, {}), Head0, Sums({1, 2}), E(2, {})>>,
   <<Head0, E(2, {}), E(2, {}), Sums({2})>>,
   <<Head0, Sums({2})>>,
   <<Head0, E(1, {}), E(2, {}), Sums({2})>>}

Empty    == [h \in Hash |-> "absent"]
Rotted   == [Empty EXCEPT ![2] = "rotted"]
MCLocals == {Empty, Rotted}
=============================================================================
