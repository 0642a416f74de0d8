------------------------------- MODULE DriftProofs -------------------------------
(***************************************************************************)
(* Proofs about Drift: what status and the checklist say of any engine,    *)
(* for any snapshot, between runs of rollback.                             *)
(***************************************************************************)
EXTENDS Drift, RollbackProofs

(* Confirming the checklist as it comes up removes and stops no container, rewrites no
   existing volume, and brings back what is gone.                             *)
THEOREM ChecklistIsHarmless == Spec => []DefaultsDestroyNothing
<1>1. ASSUME IInv PROVE DefaultsDestroyNothing
  <2> DEFINE r == PreChecked(eng)
             V == {v \in NeedVols(r) : eng.vol[v] # "recorded"}
             p == OrdinaryPlan(eng, r, V)
  <2>1. r = [mode |-> "restore", keep |-> FALSE, ctrs |-> {},
             vols |-> {v \in snap.vols : eng.vol[v] = "none"},
             images |-> snap.images \ eng.images, nets |-> snap.nets \ eng.nets]
    BY DEF PreChecked
  <2> HIDE DEF r
  <2>2. Selected(r) = {}
    BY <2>1 DEF Selected
  <2>3. /\ \A v \in NeedVols(r) : v \in snap.vols /\ eng.vol[v] = "none"
        /\ NeedNets(r) = snap.nets \ eng.nets
    BY <2>1, <2>2 DEF NeedVols, NeedNets
  <2>4. Recreate(eng, r) = {} /\ Replaced(eng, r) = {}
    BY <2>2 DEF Recreate, Replaced
  <2>5. NeedImages(eng, r) = snap.images \ eng.images
    BY <2>1, <2>4 DEF NeedImages
  <2>6. snap.vols \subseteq Vol
    BY <1>1, SnapFacts DEF IInv, Snapshot
  <2>7. \A v \in V, c \in Ctr : c \notin UsersOf(eng, v)
    BY <1>1, <2>3, <2>6 DEF IInv, QuiescedInv
  <2> HIDE DEF V
  <2>8. Quiesce(eng, r, V) = {} /\ ToStop(eng, r) = {}
    BY <2>2, <2>7 DEF Quiesce, ToStop, Kept
  <2>9. /\ p.remove = WithId(eng, Replaced(eng, r))
        /\ p.stop = WithId(eng, Quiesce(eng, r, V) \cup ToStop(eng, r))
        /\ p.vols = V /\ p.load = NeedImages(eng, r) \ eng.images
        /\ p.nets = NeedNets(r) \ eng.nets
    BY DEF OrdinaryPlan
  <2>10. WithId(eng, {}) = {}
    BY DEF WithId
  <2>11. /\ p.remove = {} /\ p.stop = {} /\ p.vols = V
         /\ p.load = snap.images \ eng.images /\ p.nets = snap.nets \ eng.nets
    BY <2>3, <2>4, <2>5, <2>8, <2>9, <2>10
  <2>12. \A v \in V : eng.vol[v] = "none"
    BY <2>3 DEF V
  <2> HIDE DEF p
  <2> QED BY <2>11, <2>12 DEF DefaultsDestroyNothing, r, V, p
<1> QED BY <1>1, InductiveInvariant, PTL

(* If a deep status of everything prints "No drift", a rollback of everything rewrites,
   loads, stops and starts nothing.                                           *)
LEMMA NoDriftNothingToDo ==
  ASSUME TypeOK, NEW failing,
         NoDrift(ComputeDrift(eng), LiveVolumeDrift(eng, {}, failing))
  PROVE  LET V == {v \in snap.vols : eng.vol[v] # "recorded"}
             p == OrdinaryPlan(eng, Everything("restore"), V)
         IN /\ p.vols = {} /\ p.load = {} /\ p.stop = {} /\ p.restart = {}
            /\ p.create = {m[1] : m \in p.remove}
            /\ \A c \in p.create : eng.config[c] = "drifted"
<1> DEFINE V == {v \in snap.vols : eng.vol[v] # "recorded"}
           r == Everything("restore")
           p == OrdinaryPlan(eng, r, V)
<1>1. /\ snap \in Snapshot /\ snap \in Snapshots /\ snap.ctrs \subseteq Ctr
      /\ snap.running \subseteq snap.ctrs /\ snap.vols \subseteq Vol
      /\ {snap.image[c] : c \in snap.ctrs} \subseteq snap.images
      /\ eng.config \in [Ctr -> Configs \cup {"none"}] /\ eng.running \in [Ctr -> BOOLEAN]
  BY RollbackAssumption DEF TypeOK, Snapshot, Engine
<1>2. /\ \A c \in snap.ctrs : Exists(eng, c)
      /\ \A c \in snap.ctrs : eng.image[c] = snap.image[c]
      /\ \A c \in snap.ctrs : eng.running[c] <=> c \in snap.running
  <2> DEFINE ctrs == {c \in Ctr : Exists(eng, c)}
  <2>1. /\ snap.ctrs \ ctrs = {}
        /\ {c \in ctrs \cap snap.ctrs : \/ eng.image[c] # snap.image[c]
                                       \/ eng.running[c] # (c \in snap.running)} = {}
    BY DEF NoDrift, ComputeDrift
  <2>2. \A c \in snap.ctrs : Exists(eng, c)
    BY <1>1, <2>1
  <2>3. \A c \in snap.ctrs : eng.image[c] = snap.image[c] /\ eng.running[c] = (c \in snap.running)
    BY <1>1, <2>1, <2>2
  <2> QED BY <2>2, <2>3
<1>3. snap.images \subseteq eng.images
  BY DEF NoDrift, ComputeDrift
<1>4. V = {}
  <2>1. ComputeDrift(eng).volumes.removed = {}
    BY DEF NoDrift
  <2>2. /\ LiveVolumeDrift(eng, {}, failing).changed = {}
        /\ LiveVolumeDrift(eng, {}, failing).unavailable = {}
    BY DEF NoDrift
  <2> DEFINE scanned == (Wanted({}) \cap snap.vols) \ ComputeDrift(eng).volumes.removed
  <2>3. scanned = snap.vols
    BY <2>1 DEF Wanted
  <2>4. /\ {v \in scanned \ failing : eng.vol[v] # "recorded"} = {}
        /\ scanned \cap failing = {}
    BY <2>2 DEF LiveVolumeDrift
  <2> HIDE DEF scanned
  <2> QED BY <2>3, <2>4
<1>5. Selected(r) = snap.ctrs
  BY <1>1 DEF Selected, Everything
<1> HIDE DEF V, r
<1>6. /\ \A c \in Recreate(eng, r) : c \in snap.ctrs /\ eng.config[c] = "drifted"
      /\ Replaced(eng, r) = Recreate(eng, r)
  BY <1>1, <1>2, <1>5 DEF Recreate, Replaced, Exists, Configs
<1>7. NeedImages(eng, r) \ eng.images = {}
  BY <1>1, <1>3, <1>6 DEF NeedImages
<1>8. Quiesce(eng, r, V) = {} /\ ToStop(eng, r) = {} /\ ToStart(eng, r) = {}
  BY <1>2, <1>4, <1>5 DEF Quiesce, ToStop, ToStart, Kept
<1>9. /\ p.vols = V /\ p.load = NeedImages(eng, r) \ eng.images
      /\ p.stop = WithId(eng, Quiesce(eng, r, V) \cup ToStop(eng, r))
      /\ p.restart = WithId(eng, (Quiesce(eng, r, V) \ ToStop(eng, r)) \cup ToStart(eng, r))
      /\ p.create = Recreate(eng, r) /\ p.remove = WithId(eng, Recreate(eng, r))
  BY <1>6 DEF OrdinaryPlan
<1> HIDE DEF p
<1> DEFINE C == Recreate(eng, r)
<1>10. WithId(eng, {}) = {} /\ {m[1] : m \in WithId(eng, C)} = C
  <2> HIDE DEF C
  <2>1. \A c \in C : <<c, eng.id[c]>> \in WithId(eng, C) /\ <<c, eng.id[c]>>[1] = c
    BY DEF WithId
  <2>2. \A m \in WithId(eng, C) : m[1] \in C
    BY DEF WithId
  <2>3. C \subseteq {m[1] : m \in WithId(eng, C)}
    BY <2>1
  <2>4. {m[1] : m \in WithId(eng, C)} \subseteq C
    BY <2>2
  <2>5. WithId(eng, {}) = {}
    BY DEF WithId
  <2> QED BY <2>3, <2>4, <2>5
<1>11. p.vols = {} /\ p.load = {} /\ p.stop = {} /\ p.restart = {}
  BY <1>4, <1>7, <1>8, <1>9, <1>10
<1>12. p.create = {m[1] : m \in p.remove} /\ \A c \in p.create : eng.config[c] = "drifted"
  BY <1>6, <1>9, <1>10
<1> QED BY <1>11, <1>12 DEF V, r, p

(* After an undisturbed rollback of everything status finds nothing removed or changed. *)
LEMMA RestoredHasNoDrift ==
  ASSUME TypeOK, CalmInv, phase = "done", Calm, Ordinary, req = Everything(req.mode)
  PROVE  LET d == ComputeDrift(eng) IN
         /\ d.containers.removed \cup d.containers.changed = {}
         /\ d.volumes.removed = {} /\ d.images.removed = {}
         /\ \A named \in SUBSET Vol :
              Known(eng, named) => LiveVolumeDrift(eng, named, {}).changed = {}
<1>1. /\ snap \in Snapshot /\ snap.ctrs \subseteq Ctr /\ snap.vols \subseteq Vol
      /\ eng.running \in [Ctr -> BOOLEAN]
  BY RollbackAssumption DEF TypeOK, Snapshot, Engine
<1>2. /\ req.ctrs = snap.ctrs /\ req.vols = snap.vols /\ req.images = snap.images
  BY DEF Everything
<1>3. Selected(req) = snap.ctrs /\ NeedVols(req) = snap.vols /\ snap.images \subseteq NeedImages(live, req)
  BY <1>2 DEF Selected, NeedVols, NeedImages
<1>4. /\ \A c \in snap.ctrs :
           /\ eng.config[c] = "recorded" /\ eng.image[c] = snap.image[c]
           /\ eng.running[c] <=> c \in snap.running
      /\ \A v \in snap.vols : eng.vol[v] = "recorded"
      /\ snap.images \subseteq eng.images
  BY <1>3, DoneFacts
<1>5. \A c \in snap.ctrs : Exists(eng, c) /\ eng.running[c] = (c \in snap.running)
  BY <1>1, <1>4 DEF Exists
<1>6. /\ ComputeDrift(eng).containers.removed = {} /\ ComputeDrift(eng).containers.changed = {}
      /\ ComputeDrift(eng).volumes.removed = {} /\ ComputeDrift(eng).images.removed = {}
  BY <1>1, <1>4, <1>5 DEF ComputeDrift
<1>7. \A named \in SUBSET Vol : LiveVolumeDrift(eng, named, {}).changed = {}
  BY <1>4 DEF LiveVolumeDrift
<1> QED BY <1>6, <1>7

(* status and rollback agree. *)
THEOREM StatusAgrees ==
  ASSUME Unambiguous
  PROVE  Spec => []StatusAgreesWithRollback
<1>1. TypeOK /\ CalmInv => StatusAgreesWithRollback
  BY NoDriftNothingToDo, RestoredHasNoDrift DEF StatusAgreesWithRollback, Ordinary
<1> QED BY <1>1, TypeCorrect, KeepsAccount, PTL

================================================================================
