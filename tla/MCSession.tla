----------------------------- MODULE MCSession -----------------------------
(* Three snapshots, two in the catalog at first.  "ab" begins the ids of two,
   "m" begins one id and is in the message of another, "msg" is in one message. *)
EXTENDS Session, TLC

CONSTANTS s1, s2, s3, c1, v1

MCToken  == {s1, s2, s3, "ab", "m", "msg"}
MCPrefix == s1 :> {s1} @@ s2 :> {s2} @@ s3 :> {s3} @@ "ab" :> {s1, s3} @@ "m" :> {s2} @@ "msg" :> {}
MCMatch  == s1 :> {s1} @@ s2 :> {s2} @@ s3 :> {s3} @@ "ab" :> {s1, s3} @@ "m" :> {s1, s2} @@ "msg" :> {s2}
MCOf     == [k \in {"containers", "volumes"} |-> IF k = "volumes" THEN {v1} ELSE {c1}]

MCKinds == <<"containers", "volumes">>

Masked(c) == [c EXCEPT !.form = "masked"]
ByName(c) == [c EXCEPT !.form = "named"]
Yes(c)    == [c EXCEPT !.yes = TRUE]
Whole(t)  == [Cmd("rollback", {t}) EXCEPT !.scope = {All}]

MCLines ==
  {ByName(Cmd("delete", {"ab", "msg"})), Yes(Cmd("delete", {"m", s2})), Yes(Cmd("delete", {"ab"})),
   Masked(Cmd("delete", {"ab"})), Masked(Yes(Cmd("delete", {"ab", "m"}))),
   Whole("ab"), Yes(Whole("msg")), Masked(Cmd("repair", {})), Cmd("read", {"ab"})}
=============================================================================
