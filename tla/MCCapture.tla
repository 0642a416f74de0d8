------------------------------ MODULE MCCapture ------------------------------
(* Capture on a small engine: two containers of different images share an
   anonymous volume, captured only on request; one of them crash-loops.        *)
EXTENDS Capture, TLC

CONSTANTS c1, c2, v1, i1, i2, b1

MCImageOf == c1 :> i1 @@ c2 :> i2
MCMounts  == c1 :> {v1} @@ c2 :> {v1}
MCBindOf  == c1 :> {b1} @@ c2 :> {}
MCScopes  == {Kinds, {"containers"}}
==============================================================================
