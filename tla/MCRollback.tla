----------------------------- MODULE MCRollback -----------------------------
(* Rollback on a small engine: two containers share a volume, each was created
   from an image name of its own.                                             *)
EXTENDS Drift, TLC

CONSTANTS c1, c2, v1, v2, n1, i1, i2, t1, t2

MCMounts   == c1 :> [k \in Configs |-> IF k = "recorded" THEN {v1, v2} ELSE {v1}]
              @@ c2 :> [k \in Configs |-> {v1}]
MCAttached == c1 :> {n1} @@ c2 :> {}

MCSnapshots ==
  {[ctrs |-> Ctr, running |-> {c1}, image |-> c1 :> i1 @@ c2 :> i2,
    ref |-> c1 :> t1 @@ c2 :> t2, vols |-> Vol, nets |-> Net, images |-> Image,
    tag |-> t1 :> i1 @@ t2 :> i2]}

(* c1 was rebuilt from another image, reconfigured or removed; the volume was
   written to, a name moved, an image or the network dropped.                 *)
Used ==
  {e \in [config : {c1 :> k @@ c2 :> "recorded" : k \in Configs \cup {"none"}},
          image : {c1 :> i @@ c2 :> i2 : i \in Image},
          running : [Ctr -> BOOLEAN], id : {[c \in Ctr |-> 0]},
          vol : {v1 :> a @@ v2 :> b : a \in {"recorded", "drifted"}, b \in {"drifted", "none"}},
          nets : {{}, Net}, images : {Image, {i2}},
          tag : {t1 :> i @@ t2 :> i2 : i \in Image \cup {NoImage}}] :
     /\ e.config[c1] = "none" => e.image[c1] = i1 /\ ~ e.running[c1]
     /\ e.config[c1] # "none" => e.image[c1] \in e.images
     /\ e.config[c1] = "recorded" => e.nets = Net
     /\ e.config[c1] = "none" <=> e.vol[v2] = "none"
     /\ e.tag[t1] \in e.images \cup {NoImage}}

(* Another machine, or an engine reset. *)
Fresh == [config |-> [c \in Ctr |-> "none"], image |-> c1 :> i1 @@ c2 :> i2,
          running |-> [c \in Ctr |-> FALSE], id |-> [c \in Ctr |-> 0],
          vol |-> [v \in Vol |-> "none"], nets |-> {}, images |-> {},
          tag |-> [t \in Tag |-> NoImage]]

MCEngines == Used \cup {Fresh}

Whole   == [ctrs |-> Ctr, vols |-> Vol, nets |-> Net, images |-> Image]
OneOnly == [ctrs |-> {c1}, vols |-> {}, nets |-> {}, images |-> {}]

As(scope, m, k) == [mode |-> m, ctrs |-> scope.ctrs, vols |-> scope.vols,
                    nets |-> scope.nets, images |-> scope.images, keep |-> k]

MCSame == {As(OneOnly, "restore", FALSE)}

MCRequests == {As(Whole, "restore", FALSE), As(OneOnly, "restore", FALSE),
               As(OneOnly, "restore", TRUE), As(Whole, "apply", FALSE),
               As(OneOnly, "current", FALSE), As(OneOnly, "missing", FALSE)}

(* Images are asked for by names that mean one image each: the case some of the
   theorems of RollbackProofs and DriftProofs are about.                      *)
ASSUME MCUnambiguous == Unambiguous
=============================================================================
