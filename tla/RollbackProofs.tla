----------------------------- MODULE RollbackProofs -----------------------------
(***************************************************************************)
(* Proofs about Rollback for any snapshots, engines and command lines, any *)
(* number of runs, of failures between their steps, and of acts of other   *)
(* clients.                                                                *)
(***************************************************************************)
EXTENDS Rollback, TLAPS

(* The pairs of a plan: a container is among them with the id it had at the fetch, or
   not at all.                                                                *)
LEMMA WithIdFacts ==
  ASSUME NEW C \in SUBSET Ctr, live \in Engine
  PROVE  /\ WithId(live, C) \in SUBSET Ids
         /\ \A m \in WithId(live, C) : m[1] \in C /\ m[2] = live.id[m[1]]
         /\ \A c \in Ctr : <<c, live.id[c]>> \in WithId(live, C) <=> c \in C
<1>1. live.id \in [Ctr -> Nat]
  BY DEF Engine
<1> QED BY <1>1 DEF WithId, Ids

(* The parts of the snapshot and of the request. *)
LEMMA SnapFacts ==
  ASSUME TypeOK
  PROVE  /\ snap \in Snapshot /\ req \in Request /\ req.mode \in Modes
         /\ Selected(req) \subseteq Ctr /\ snap.running \subseteq Ctr
         /\ Recreate(live, req) \subseteq Selected(req)
         /\ NeedVols(req) \subseteq Vol /\ NeedVols(req) \subseteq snap.vols
         /\ NeedNets(req) \subseteq Net
         /\ NeedImages(live, req) \subseteq Image
<1>1. snap \in Snapshot /\ req \in Request
  BY RollbackAssumption DEF TypeOK
<1>2. /\ req.mode \in Modes /\ snap.ctrs \subseteq Ctr /\ snap.running \subseteq Ctr
      /\ snap.vols \subseteq Vol /\ snap.nets \subseteq Net /\ snap.images \subseteq Image
      /\ snap.image \in [Ctr -> Image]
  BY <1>1 DEF Snapshot, Request
<1>3. Recreate(live, req) \subseteq Selected(req) /\ Selected(req) \subseteq Ctr
  BY <1>2 DEF Recreate, Selected
<1>4. NeedImages(live, req) \subseteq Image
  BY <1>2, <1>3 DEF NeedImages
<1> QED BY <1>1, <1>2, <1>3, <1>4 DEF NeedVols, NeedNets

(* What an ordinary plan has of each kind. *)
LEMMA OrdinaryPlanFacts ==
  ASSUME TypeOK, NEW V \in SUBSET NeedVols(req)
  PROVE  LET p == OrdinaryPlan(live, req, V)
             Q == Quiesce(live, req, V)
         IN /\ p \in Plan
            /\ p.stop = WithId(live, Q \cup ToStop(live, req))
            /\ p.remove = WithId(live, Replaced(live, req))
            /\ p.nets = NeedNets(req) \ live.nets
            /\ p.load = NeedImages(live, req) \ live.images
            /\ p.tags = Retags(live, req)
            /\ p.vols = V
            /\ p.create = Recreate(live, req)
            /\ p.start = Recreate(live, req) \cap snap.running
            /\ p.restart = WithId(live, (Q \ ToStop(live, req)) \cup ToStart(live, req))
            /\ Q \cup ToStop(live, req) \cup ToStart(live, req) \cup Replaced(live, req)
                 \in SUBSET Ctr
<1> DEFINE Q == Quiesce(live, req, V)
           S == ToStop(live, req)
           T == ToStart(live, req)
           R == Replaced(live, req)
<1>1. live \in Engine
  BY DEF TypeOK
<1>2. Q \in SUBSET Ctr /\ S \in SUBSET Ctr /\ T \in SUBSET Ctr /\ R \in SUBSET Ctr
  BY SnapFacts DEF Quiesce, ToStop, ToStart, Replaced, Kept
<1>3. OrdinaryPlan(live, req, V) =
        [stop |-> WithId(live, Q \cup S), remove |-> WithId(live, R),
         nets |-> NeedNets(req) \ live.nets, load |-> NeedImages(live, req) \ live.images,
         tags |-> Retags(live, req), vols |-> V, create |-> Recreate(live, req),
         start |-> Recreate(live, req) \cap snap.running,
         restart |-> WithId(live, (Q \ S) \cup T)]
  BY DEF OrdinaryPlan
<1> HIDE DEF Q, S, T, R
<1>4. /\ WithId(live, Q \cup S) \in SUBSET Ids /\ WithId(live, R) \in SUBSET Ids
      /\ WithId(live, (Q \ S) \cup T) \in SUBSET Ids
  BY <1>1, <1>2, WithIdFacts
<1>5. Retags(live, req) \in SUBSET (Tag \X Image)
  BY SnapFacts DEF Retags, NeedTags
<1> DEFINE stops == WithId(live, Q \cup S)
           removes == WithId(live, R)
           restarts == WithId(live, (Q \ S) \cup T)
           nets == NeedNets(req) \ live.nets
           loads == NeedImages(live, req) \ live.images
           tags == Retags(live, req)
           creates == Recreate(live, req)
           starts == Recreate(live, req) \cap snap.running
<1>6. OrdinaryPlan(live, req, V) \in Plan
  <2>1. /\ V \in SUBSET Vol /\ nets \in SUBSET Net /\ loads \in SUBSET Image
        /\ creates \in SUBSET Ctr /\ starts \in SUBSET Ctr
    BY SnapFacts
  <2>2. /\ stops \in SUBSET Ids /\ removes \in SUBSET Ids /\ restarts \in SUBSET Ids
        /\ tags \in SUBSET (Tag \X Image)
    BY <1>4, <1>5
  <2>3. OrdinaryPlan(live, req, V) =
          [stop |-> stops, remove |-> removes, nets |-> nets, load |-> loads,
           tags |-> tags, vols |-> V, create |-> creates, start |-> starts,
           restart |-> restarts]
    BY <1>3
  <2> HIDE DEF stops, removes, restarts, nets, loads, tags, creates, starts
  <2> QED BY <2>1, <2>2, <2>3 DEF Plan
<1>7. Q \cup S \cup T \cup R \in SUBSET Ctr
  BY <1>2
<1> QED BY <1>3, <1>6, <1>7 DEF Q, S, T, R

(* What a plan of the name-trusting modes has. *)
LEMMA ByNamePlanFacts ==
  ASSUME TypeOK
  PROVE  LET p == ByNamePlan(live, req) IN
         /\ p \in Plan
         /\ p.stop = {} /\ p.nets = {} /\ p.load = {} /\ p.tags = {} /\ p.vols = {}
         /\ p.restart = {}
         /\ \A m \in p.remove : m[2] = live.id[m[1]]
         /\ p.create \in SUBSET Ctr /\ p.start \in SUBSET Ctr
<1>1. PICK C \in SUBSET Ctr :
        ByNamePlan(live, req) =
          [NoPlan EXCEPT !.remove = WithId(live, {c \in C : Exists(live, c)}),
                         !.create = C, !.start = C \cap snap.running]
  <2>1. Selected(req) \in SUBSET Ctr /\ {c \in Selected(req) : ~ Exists(live, c)} \in SUBSET Ctr
    BY SnapFacts, Zenon
  <2>2. CASE req.mode = "current"
    BY <2>1, <2>2, Zenon DEF ByNamePlan
  <2>3. CASE req.mode # "current"
    BY <2>1, <2>3 DEF ByNamePlan
  <2> QED BY <2>2, <2>3
<1> DEFINE R == {c \in C : Exists(live, c)}
<1>2. R \in SUBSET Ctr /\ live \in Engine
  BY DEF TypeOK
<1>3. WithId(live, R) \in SUBSET Ids /\ \A m \in WithId(live, R) : m[2] = live.id[m[1]]
  <2> HIDE DEF R
  <2> QED BY <1>2, WithIdFacts
<1> HIDE DEF R
<1>4. ByNamePlan(live, req) =
        [stop |-> {}, remove |-> WithId(live, R), nets |-> {}, load |-> {}, tags |-> {},
         vols |-> {}, create |-> C, start |-> C \cap snap.running, restart |-> {}]
  BY <1>1 DEF NoPlan, R
<1> QED BY <1>3, <1>4 DEF Plan

(* The planner's answers for the run do not change while its inputs stay. *)
LEMMA Frame ==
  ASSUME UNCHANGED <<snap, live, req>>
  PROVE  /\ Selected(req)' = Selected(req) /\ NeedVols(req)' = NeedVols(req)
         /\ NeedNets(req)' = NeedNets(req) /\ Recreate(live, req)' = Recreate(live, req)
         /\ NeedImages(live, req)' = NeedImages(live, req)
         /\ NeedTags(live, req)' = NeedTags(live, req)
         /\ Retags(live, req)' = Retags(live, req)
         /\ Conflicts(live, req)' = Conflicts(live, req)
         /\ Ordinary' = Ordinary
BY DEF Selected, NeedVols, NeedNets, Recreate, NeedImages, NeedTags, Retags, Conflicts,
       Ordinary, ByName

(* The initial states satisfy the inductive invariant. *)
LEMMA InitInvariant == Init => IInv
<1> SUFFICES ASSUME Init PROVE IInv
  OBVIOUS
<1>1. /\ eng \in Engine /\ NoRequest \in Requests /\ snap \in Snapshots
      /\ \A v \in Vol : eng.vol[v] # "partial"
      /\ \A c \in Ctr : Exists(eng, c) => \A v \in Mounts[c][eng.config[c]] : eng.vol[v] # "none"
  BY RollbackAssumption DEF Init, NoRequest, Exists
<1>2. TypeOK
  <2>1. NoPlan \in Plan
    BY DEF NoPlan, Plan
  <2>2. runs \in 0..MaxRuns /\ users \in 0..MaxUsers
    BY RollbackAssumption DEF Init
  <2>3. filling \in plan.vols \cup {NoVol} /\ plan \in Plan
    BY <2>1 DEF Init
  <2> QED BY <1>1, <2>2, <2>3 DEF Init, TypeOK
<1>3. IdInv
  <2>1. eng.id \in [Ctr -> Nat]
    BY <1>1 DEF Engine
  <2>2. made = {} /\ live = eng /\ cp = eng
    BY DEF Init
  <2> QED BY <2>1, <2>2 DEF IdInv
<1>4. VolumesInv
  BY <1>1, RollbackAssumption DEF Init, VolumesInv, NoPlan, Planned
<1>5. QuiescedInv
  BY <1>1 DEF Init, QuiescedInv, NoPlan, UsersOf
<1>6. PlanInv
  BY DEF Init, PlanInv, NoPlan
<1>7. NoPartialObserved
  BY <1>1 DEF NoPartialObserved
<1> QED BY <1>2, <1>3, <1>4, <1>5, <1>6, <1>7 DEF IInv

(* A run begins, or is given up: nothing is planned, and the engine is as it is known. *)
LEMMA EndsPreserve ==
  ASSUME IInv, (\E r \in Requests : Fetch(r)) \/ Abort
  PROVE  IInv'
<1>1. /\ live' = eng /\ cp' = eng /\ plan' = NoPlan /\ filling' = NoVol /\ made' = {}
      /\ eng' = eng /\ snap' = snap /\ meddled' = {} /\ consent' = FALSE
      /\ foreign' \subseteq foreign
      /\ \A c \in foreign \ foreign' : ~ eng.running[c]
      /\ phase' \in {"idle", "consent", "compare"}
      /\ phase' = "compare" /\ Ordinary' => Conflicts(live, req)' = {}
  <2>1. CASE Abort
    BY <2>1 DEF Abort
  <2>2. ASSUME NEW r \in Requests, Fetch(r)
        PROVE  /\ phase' \in {"consent", "compare"}
               /\ phase' = "compare" /\ Ordinary' => Conflicts(live, req)' = {}
    BY <2>2 DEF Fetch, Ordinary, ByName, Conflicts, NeedTags, NeedImages, Recreate, Selected
  <2>3. ASSUME NEW r \in Requests, Fetch(r)
        PROVE  /\ live' = eng /\ cp' = eng /\ plan' = NoPlan /\ filling' = NoVol
               /\ made' = {} /\ eng' = eng /\ snap' = snap /\ meddled' = {}
               /\ consent' = FALSE /\ foreign' \subseteq foreign
               /\ \A c \in foreign \ foreign' : ~ eng.running[c]
    BY <2>3 DEF Fetch
  <2> QED BY <2>1, <2>2, <2>3
<1>2. TypeOK'
  <2>1. NoPlan \in Plan /\ NoRequest \in Requests
    BY RollbackAssumption DEF NoPlan, Plan, NoRequest
  <2>2. /\ req' \in Requests /\ runs' \in 0..MaxRuns /\ users' = users /\ touched' = {}
        /\ owed' = owed
    BY <2>1, RollbackAssumption DEF Fetch, Abort, IInv, TypeOK
  <2> QED BY <1>1, <2>1, <2>2, RollbackAssumption DEF IInv, TypeOK, NoPlan
<1>3. eng \in Engine /\ eng.id \in [Ctr -> Nat]
  BY DEF IInv, TypeOK, Engine
<1>4. IdInv'
  BY <1>1, <1>3 DEF IdInv
<1>5. VolumesInv'
  <2>1. \A v \in Vol : eng.vol[v] = "partial" => v \in snap.vols
    BY DEF IInv, VolumesInv
  <2> QED BY <1>1, <2>1 DEF VolumesInv, NoPlan, Planned
<1>6. QuiescedInv'
  <2>1. \A c \in Ctr, v \in Vol : c \in UsersOf(eng, v) => eng.vol[v] # "none"
    BY DEF IInv, QuiescedInv
  <2>2. \A c \in Ctr \ foreign' : eng.running[c] =>
          \A v \in Vol : c \in UsersOf(eng, v) => eng.vol[v] # "partial"
    BY <1>1 DEF IInv, NoPartialObserved
  <2> QED BY <1>1, <2>1, <2>2 DEF QuiescedInv, NoPlan
<1>7. PlanInv'
  BY <1>1 DEF PlanInv, NoPlan
<1>8. NoPartialObserved'
  BY <1>1 DEF IInv, NoPartialObserved, UsersOf, Exists
<1> QED BY <1>2, <1>4, <1>5, <1>6, <1>7, <1>8 DEF IInv

(* A plan is built: it rewrites whatever needs it now, and stops or removes whatever
   runs on it.                                                                *)
LEMMA BuildPreserves == IInv /\ Build => IInv'
<1> SUFFICES ASSUME IInv, Build PROVE IInv'
  OBVIOUS
<1>1. /\ phase = "compare" /\ phase' \in {"done", "confirm", "checkpoint"}
      /\ phase' = "done" => plan' = NoPlan
      /\ UNCHANGED <<snap, eng, req, live, consent, filling, made, cp, runs, users, touched,
                     meddled, foreign, owed>>
  BY DEF Build
<1>2. TypeOK /\ filling = NoVol /\ live \in Engine
  BY <1>1 DEF IInv, VolumesInv, TypeOK
<1>3. \/ ByName(req) /\ plan' = ByNamePlan(live, req)
      \/ Ordinary /\ \E V \in SUBSET NeedVols(req) :
           /\ plan' = OrdinaryPlan(live, req, V)
           /\ \A v \in NeedVols(req) : eng.vol[v] = "partial" => v \in V
  BY DEF Build, Ordinary, ByName
<1>4. IdInv'
  BY <1>1 DEF IInv, IdInv, Exists
<1>5. NoPartialObserved'
  BY <1>1 DEF IInv, NoPartialObserved, UsersOf, Exists
<1>6. UNCHANGED <<Selected(req), NeedVols(req), Retags(live, req), Conflicts(live, req), Ordinary>>
  BY <1>1, Frame
<1>7. CASE ByName(req) /\ plan' = ByNamePlan(live, req)
  <2>1. /\ plan' \in Plan /\ plan'.stop = {} /\ plan'.tags = {} /\ plan'.vols = {}
        /\ plan'.restart = {}
        /\ \A m \in plan'.remove : m[2] = live.id[m[1]]
        /\ ~ Ordinary
    BY <1>2, <1>7, ByNamePlanFacts DEF Ordinary
  <2>2. TypeOK'
    BY <1>1, <1>2, <2>1 DEF TypeOK
  <2>3. VolumesInv'
    BY <1>1, <1>2, <1>6, <2>1 DEF IInv, VolumesInv
  <2>4. QuiescedInv'
    <3>1. QuiescedInv
      BY DEF IInv
    <3> QED BY <1>1, <1>6, <2>1, <3>1 DEF QuiescedInv, UsersOf, Exists
  <2>5. PlanInv'
    BY <1>1, <1>6, <2>1 DEF IInv, PlanInv
  <2> QED BY <1>4, <1>5, <2>2, <2>3, <2>4, <2>5 DEF IInv
<1>8. ASSUME Ordinary, NEW V \in SUBSET NeedVols(req), plan' = OrdinaryPlan(live, req, V),
             \A v \in NeedVols(req) : eng.vol[v] = "partial" => v \in V
      PROVE  IInv'
  <2> DEFINE Q == Quiesce(live, req, V)
             S == ToStop(live, req)
             T == ToStart(live, req)
             R == Replaced(live, req)
  <2>1. /\ plan' \in Plan /\ plan'.vols = V /\ plan'.tags = Retags(live, req)
        /\ plan'.stop = WithId(live, Q \cup S) /\ plan'.remove = WithId(live, R)
        /\ plan'.start \subseteq Selected(req)
        /\ plan'.restart = WithId(live, (Q \ S) \cup T)
        /\ Q \cup S \in SUBSET Ctr /\ R \in SUBSET Ctr /\ (Q \ S) \cup T \in SUBSET Ctr
    BY <1>2, <1>8, OrdinaryPlanFacts, SnapFacts
  <2>2. \A c \in Ctr : live.running[c] /\ (\E v \in V : c \in UsersOf(live, v)) => c \in Q \cup R
    BY DEF Quiesce
  <2>3. \A c \in Q : live.running[c]
    BY DEF Quiesce
  <2>4. \A c \in T : c \in Selected(req) /\ live.config[c] = "recorded"
    <3>1. \A c \in T : c \in Selected(req) /\ c \notin Recreate(live, req)
      BY DEF ToStart, Kept
    <3> QED BY <3>1 DEF Recreate
  <2> HIDE DEF Q, S, T, R
  <2>5. /\ \A c \in Ctr : <<c, live.id[c]>> \in plan'.stop <=> c \in Q \cup S
        /\ \A c \in Ctr : <<c, live.id[c]>> \in plan'.remove <=> c \in R
        /\ \A m \in plan'.stop \cup plan'.remove : m[2] = live.id[m[1]]
        /\ \A m \in plan'.restart : m[2] = live.id[m[1]] /\ m[1] \in (Q \ S) \cup T
    BY <1>2, <2>1, WithIdFacts
  <2>6. TypeOK'
    BY <1>1, <1>2, <2>1 DEF TypeOK
  <2>7. VolumesInv'
    <3>1. \A v \in Vol : eng.vol[v] = "partial" =>
            v \in snap.vols /\ live.vol[v] = "partial" /\ (v \in NeedVols(req) => v \in V)
      <4>1. \A v \in Vol : v # NoVol
        BY RollbackAssumption
      <4> QED BY <1>2, <1>8, <4>1 DEF IInv, VolumesInv
    <3>2. \A v \in Vol \ meddled : v # filling =>
            eng.vol[v] = cp.vol[v] /\ (eng.vol[v] = "partial" => cp.vol[v] = "partial")
      BY <1>1 DEF IInv, VolumesInv
    <3> QED BY <1>1, <1>2, <1>6, <1>8, <2>1, <3>1, <3>2 DEF VolumesInv, Planned
  <2>8. QuiescedInv'
    <3>1. \A v \in V, c \in Ctr \ foreign : eng.running[c] /\ c \in UsersOf(eng, v) =>
            <<c, live.id[c]>> \in plan'.stop \cup plan'.remove
      <4>1. SUFFICES ASSUME NEW v \in V, NEW c \in Ctr \ foreign, eng.running[c],
                            c \in UsersOf(eng, v)
                     PROVE  c \in Q \cup R
        BY <2>5
      <4>2. live.running[c] /\ live.config[c] = eng.config[c]
        BY <1>1, <4>1 DEF IInv, QuiescedInv, UsersOf
      <4>3. c \in UsersOf(live, v)
        BY <4>1, <4>2 DEF UsersOf, Exists
      <4> QED BY <2>2, <4>2, <4>3
    <3>2. QuiescedInv
      BY DEF IInv
    <3>3. \A m \in plan'.restart :
            /\ m[2] = live.id[m[1]]
            /\ live.running[m[1]]
               \/ (m[1] \in Selected(req) /\ live.config[m[1]] = "recorded")
      BY <2>3, <2>4, <2>5
    <3>4. /\ phase' \notin {"consent", "compare"}
          /\ \A v \in plan'.vols, c \in Ctr \ foreign' :
               eng'.running[c] /\ c \in UsersOf(eng', v) =>
                 <<c, live'.id[c]>> \in plan'.stop \cup plan'.remove
          /\ \A m \in plan'.restart :
               /\ Ordinary' /\ m[2] = live'.id[m[1]]
               /\ live'.running[m[1]]
                  \/ (m[1] \in Selected(req)' /\ live'.config[m[1]] = "recorded")
          /\ plan'.start \subseteq Selected(req)'
      BY <1>1, <1>6, <1>8, <2>1, <3>1, <3>3
    <3>5. /\ \A c \in Ctr \ foreign' :
               Exists(eng, c) /\ eng.id[c] = live.id[c] /\ live.running[c] =>
                 \A v \in Vol : c \in UsersOf(live, v) => live.vol[v] # "partial"
          /\ \A c \in Ctr, v \in Vol : c \in UsersOf(eng, v) => eng.vol[v] # "none"
      BY <1>1, <3>2 DEF QuiescedInv
    <3>6. /\ \A c \in Ctr : Exists(eng, c)' = Exists(eng, c)
          /\ \A v \in Vol : /\ UsersOf(eng, v)' = UsersOf(eng', v)
                            /\ UsersOf(eng, v)' = UsersOf(eng, v)
                            /\ UsersOf(live, v)' = UsersOf(live, v)
      BY <1>1 DEF UsersOf, Exists
    <3>7. \A v \in plan'.vols : UsersOf(eng, v)' = UsersOf(eng', v)
      BY DEF UsersOf, Exists
    <3> HIDE DEF Ordinary
    <3> QED BY <1>1, <3>4, <3>5, <3>6, <3>7 DEF QuiescedInv
  <2>9. PlanInv'
    <3>1. phase' = "done" => plan'.tags = {}
      BY <1>1 DEF NoPlan
    <3> QED BY <1>1, <1>6, <1>8, <2>1, <2>5, <3>1 DEF IInv, PlanInv
  <2> QED BY <1>4, <1>5, <2>6, <2>7, <2>8, <2>9 DEF IInv
<1> QED BY <1>3, <1>7, <1>8

(* From phase to phase the plan and the engine stay. *)
LEMMA PhaseSteps ==
  ASSUME IInv, Consent \/ Checkpoint \/ Confirm \/ EndApply
  PROVE  IInv'
<1>1. /\ UNCHANGED <<snap, eng, req, live, plan, filling, made, runs, users, touched, foreign,
                     owed>>
      /\ consent' = consent \/ (consent' = TRUE /\ phase' = "compare")
      /\ \/ UNCHANGED <<cp, meddled>>
         \/ cp' = eng /\ meddled' = {} /\ phase' = "confirm"
      /\ phase # phase' /\ phase' \in {"compare", "confirm", "apply", "done"}
      /\ phase' = "compare" => phase = "consent" /\ consent'
      /\ phase' = "done" => phase = "apply" /\ plan = NoPlan
      /\ phase' = "confirm" => phase = "checkpoint"
      /\ phase' = "apply" => phase = "confirm"
  BY DEF Consent, Checkpoint, Confirm, EndApply
<1>2. UNCHANGED <<Selected(req), NeedVols(req), Retags(live, req), Conflicts(live, req), Ordinary>>
  BY <1>1, Frame
<1>3. TypeOK'
  BY <1>1 DEF IInv, TypeOK
<1>4. live.id \in [Ctr -> Nat] /\ cp.id \in [Ctr -> Nat] /\ eng.id \in [Ctr -> Nat]
  BY DEF IInv, TypeOK, Engine
<1>5. IdInv'
  <2>1. IdInv
    BY DEF IInv
  <2>2. CASE cp' = cp
    BY <1>1, <2>1, <2>2 DEF IdInv, Exists
  <2>3. CASE cp' = eng
    BY <1>1, <1>4, <2>1, <2>3 DEF IdInv, Exists
  <2> QED BY <1>1, <2>2, <2>3
<1>6. phase' # "apply" => filling = NoVol
  BY <1>1 DEF IInv, VolumesInv, TypeOK, NoPlan
<1>7. VolumesInv'
  <2>1. VolumesInv
    BY DEF IInv
  <2>2. /\ (phase' # "apply" => filling' = NoVol)
        /\ plan'.vols \subseteq NeedVols(req)' /\ (~ Ordinary' => plan'.vols = {})
    BY <1>1, <1>2, <1>6, <2>1 DEF VolumesInv
  <2>3. \A v \in Vol : eng'.vol[v] = "partial" =>
          /\ v \in snap'.vols
          /\ v # filling' => live'.vol[v] = "partial"
          /\ Planned' /\ Ordinary' /\ v \in NeedVols(req)' => v \in plan'.vols
    <3>1. Planned' => Planned
      BY <1>1 DEF Planned
    <3> HIDE DEF Ordinary
    <3> QED BY <1>1, <1>2, <2>1, <3>1 DEF VolumesInv
  <2>4. \A v \in Vol \ meddled' : v # filling' =>
          /\ v \in plan'.vols \/ phase' \in {"consent", "compare"} => eng'.vol[v] = cp'.vol[v]
          /\ eng'.vol[v] = "partial" => cp'.vol[v] = "partial"
    <3>1. CASE UNCHANGED <<cp, meddled>>
      BY <1>1, <2>1, <3>1 DEF VolumesInv
    <3>2. CASE cp' = eng
      BY <1>1, <3>2
    <3> QED BY <1>1, <3>1, <3>2
  <2> HIDE DEF Ordinary, Planned
  <2> QED BY <2>2, <2>3, <2>4 DEF VolumesInv
<1>8. QuiescedInv'
  <2>1. QuiescedInv
    BY DEF IInv
  <2> QED BY <1>1, <1>2, <2>1 DEF QuiescedInv, UsersOf, Exists
<1>9. PlanInv'
  <2>1. phase' = "done" => plan.tags = {}
    BY <1>1 DEF NoPlan
  <2> HIDE DEF Ordinary
  <2> QED BY <1>1, <1>2, <2>1 DEF IInv, PlanInv
<1>10. NoPartialObserved'
  BY <1>1 DEF IInv, NoPartialObserved, UsersOf, Exists
<1> QED BY <1>3, <1>5, <1>7, <1>8, <1>9, <1>10 DEF IInv

(* What every step of Apply leaves as it was. *)
LEMMA KeptFacts ==
  ASSUME IInv, phase = "apply", UNCHANGED kept
  PROVE  /\ UNCHANGED <<snap, phase, req, live, consent, cp, runs, users, touched, meddled>>
         /\ UNCHANGED <<Selected(req), NeedVols(req), Retags(live, req), Conflicts(live, req),
                        Ordinary>>
         /\ TypeOK /\ eng \in Engine /\ live \in Engine /\ plan \in Plan
         /\ eng.config \in [Ctr -> Configs \cup {"none"}] /\ eng.image \in [Ctr -> Image]
         /\ eng.running \in [Ctr -> BOOLEAN] /\ eng.id \in [Ctr -> Nat]
         /\ eng.vol \in [Vol -> Contents \cup {"none"}]
         /\ \A v \in Vol : v # NoVol
<1>1. UNCHANGED <<snap, phase, req, live, consent, cp, runs, users, touched, meddled>>
  BY DEF kept
<1>2. UNCHANGED <<Selected(req), NeedVols(req), Retags(live, req), Conflicts(live, req), Ordinary>>
  BY <1>1, Frame
<1>3. TypeOK /\ eng \in Engine /\ live \in Engine /\ plan \in Plan
  BY DEF IInv, TypeOK
<1> QED BY <1>1, <1>2, <1>3, RollbackAssumption DEF Engine

(* A container is stopped or removed. *)
LEMMA StopSteps ==
  ASSUME IInv, NEW c \in Ctr, NEW id \in Nat, StopContainer(c, id) \/ RemoveContainer(c, id)
  PROVE  IInv'
<1>1. /\ phase = "apply" /\ UNCHANGED kept /\ UNCHANGED <<filling, made>>
      /\ <<c, id>> \in plan.stop \cup plan.remove /\ Is(c, id)
      /\ \/ /\ eng' = [eng EXCEPT !.running[c] = FALSE]
            /\ plan' = [plan EXCEPT !.stop = @ \ {<<c, id>>}]
            /\ owed' \subseteq owed \cup {c} /\ foreign' = foreign
         \/ /\ eng' = [eng EXCEPT !.config[c] = "none", !.running[c] = FALSE]
            /\ plan' = [plan EXCEPT !.remove = @ \ {<<c, id>>}]
            /\ owed' \subseteq owed /\ foreign' = foreign \ {c}
  BY DEF StopContainer, RemoveContainer, Before
<1>2. /\ UNCHANGED <<snap, phase, req, live, consent, cp, runs, users, touched, meddled>>
      /\ UNCHANGED <<Selected(req), NeedVols(req), Retags(live, req), Conflicts(live, req), Ordinary>>
      /\ TypeOK
  BY <1>1, KeptFacts
<1>3. /\ eng'.vol = eng.vol /\ eng'.id = eng.id /\ eng'.image = eng.image
      /\ \A d \in Ctr : d # c => /\ eng'.config[d] = eng.config[d]
                                 /\ eng'.running[d] = eng.running[d]
      /\ eng'.running[c] = FALSE
      /\ eng'.config[c] = "none" \/ (eng'.config[c] = eng.config[c] /\ foreign' = foreign)
      /\ foreign' \subseteq foreign /\ foreign \subseteq foreign' \cup {c}
  <2>1. CASE eng' = [eng EXCEPT !.running[c] = FALSE] /\ foreign' = foreign
    <3>1. eng' = [eng EXCEPT !.running = [eng.running EXCEPT ![c] = FALSE]]
      BY <2>1
    <3> QED BY <1>1, <2>1, <3>1, KeptFacts DEF Engine
  <2>2. CASE /\ eng' = [eng EXCEPT !.config[c] = "none", !.running[c] = FALSE]
             /\ foreign' = foreign \ {c}
    <3>1. eng' = [eng EXCEPT !.config = [eng.config EXCEPT ![c] = "none"],
                             !.running = [eng.running EXCEPT ![c] = FALSE]]
      BY <2>2, KeptFacts, <1>1 DEF Engine
    <3> QED BY <1>1, <2>2, <3>1, KeptFacts DEF Engine
  <2> QED BY <1>1, <2>1, <2>2
<1>4. /\ plan'.vols = plan.vols /\ plan'.tags = plan.tags /\ plan'.restart = plan.restart
      /\ plan'.start = plan.start
      /\ plan'.stop \cup plan'.remove \subseteq plan.stop \cup plan.remove
      /\ \A m \in plan.stop \cup plan.remove : m \in plan'.stop \cup plan'.remove \/ m = <<c, id>>
  BY <1>1, KeptFacts DEF Plan
<1>5. TypeOK'
  <2>1. eng' \in Engine
    <3>1. CASE eng' = [eng EXCEPT !.running[c] = FALSE]
      BY <1>1, <3>1, KeptFacts DEF Engine
    <3>2. CASE eng' = [eng EXCEPT !.config[c] = "none", !.running[c] = FALSE]
      BY <1>1, <3>2, KeptFacts DEF Engine
    <3> QED BY <1>1, <3>1, <3>2
  <2>2. plan' \in Plan
    BY <1>1, KeptFacts DEF Plan
  <2> QED BY <1>1, <1>2, <1>4, <2>1, <2>2 DEF TypeOK
<1>6. \A d \in Ctr, v \in Vol : d \in UsersOf(eng', v) => d \in UsersOf(eng, v)
  BY <1>3 DEF UsersOf, Exists
<1>7. IdInv'
  BY <1>1, <1>2, <1>3 DEF IInv, IdInv, Exists
<1>8. VolumesInv'
  <2> HIDE DEF Ordinary
  <2> QED BY <1>1, <1>2, <1>3, <1>4 DEF IInv, VolumesInv, Planned
<1>9. QuiescedInv'
  <2>1. QuiescedInv
    BY DEF IInv
  <2>2. \A v \in plan'.vols, d \in Ctr \ foreign' : eng'.running[d] /\ d \in UsersOf(eng', v) =>
          <<d, live.id[d]>> \in plan'.stop \cup plan'.remove
    <3>1. plan.vols \subseteq Vol
      BY <1>2 DEF TypeOK, Plan
    <3> QED BY <1>3, <1>4, <1>6, <2>1, <3>1 DEF QuiescedInv
  <2>3. \A d \in Ctr \ foreign' :
          Exists(eng', d) /\ eng'.id[d] = live.id[d] /\ live.running[d] =>
            \A v \in Vol : d \in UsersOf(live, v) => live.vol[v] # "partial"
    <3>1. \A d \in Ctr \ foreign' : Exists(eng', d) => Exists(eng, d) /\ d \notin foreign
      BY <1>3 DEF Exists
    <3> QED BY <1>3, <2>1, <3>1 DEF QuiescedInv
  <2>4. \A d \in Ctr, v \in Vol : d \in UsersOf(eng', v) => eng'.vol[v] # "none"
    BY <1>3, <1>6, <2>1 DEF QuiescedInv
  <2>5. \A m \in plan'.restart : /\ Ordinary' /\ m[2] = live.id[m[1]]
                                 /\ live.running[m[1]]
                                    \/ (m[1] \in Selected(req) /\ live.config[m[1]] = "recorded")
    BY <1>2, <1>4, <2>1 DEF QuiescedInv
  <2> HIDE DEF Ordinary
  <2> QED BY <1>1, <1>2, <1>4, <2>1, <2>2, <2>3, <2>4, <2>5 DEF QuiescedInv, UsersOf, Exists
<1>10. PlanInv'
  <2> HIDE DEF Ordinary
  <2> QED BY <1>1, <1>2, <1>4 DEF IInv, PlanInv
<1>11. NoPartialObserved'
  BY <1>3, <1>6 DEF IInv, NoPartialObserved, UsersOf, Exists
<1> QED BY <1>5, <1>7, <1>8, <1>9, <1>10, <1>11 DEF IInv

(* Networks, images and names. *)
LEMMA DependencySteps ==
  ASSUME IInv,
         \/ \E n \in Net : CreateNetwork(n)
         \/ \E i \in Image : LoadImage(i)
         \/ \E t \in Tag, i \in Image : TagImage(t, i)
  PROVE  IInv'
<1>1. /\ phase = "apply" /\ UNCHANGED kept /\ UNCHANGED <<filling, made, foreign, owed>>
      /\ \/ \E n \in Net : /\ eng' = [eng EXCEPT !.nets = @ \cup {n}]
                           /\ plan' = [plan EXCEPT !.nets = @ \ {n}]
         \/ \E i \in Image : /\ eng' = [eng EXCEPT !.images = @ \cup {i}]
                             /\ plan' = [plan EXCEPT !.load = @ \ {i}]
         \/ \E t \in Tag, i \in Image : /\ eng' = [eng EXCEPT !.tag[t] = i]
                                        /\ plan' = [plan EXCEPT !.tags = @ \ {<<t, i>>}]
  BY DEF CreateNetwork, LoadImage, TagImage, Before
<1>2. /\ UNCHANGED <<snap, phase, req, live, consent, cp, runs, users, touched, meddled>>
      /\ UNCHANGED <<Selected(req), NeedVols(req), Retags(live, req), Conflicts(live, req), Ordinary>>
      /\ TypeOK
  BY <1>1, KeptFacts
<1>3. /\ eng'.vol = eng.vol /\ eng'.id = eng.id /\ eng'.image = eng.image
      /\ eng'.config = eng.config /\ eng'.running = eng.running
      /\ plan'.vols = plan.vols /\ plan'.restart = plan.restart /\ plan'.start = plan.start
      /\ plan'.stop = plan.stop /\ plan'.remove = plan.remove
      /\ plan'.tags \subseteq plan.tags
  BY <1>1, KeptFacts DEF Engine, Plan
<1>4. TypeOK'
  <2>1. eng' \in Engine
    BY <1>1, KeptFacts DEF Engine
  <2>2. plan' \in Plan
    BY <1>1, KeptFacts DEF Plan
  <2> QED BY <1>1, <1>2, <1>3, <2>1, <2>2 DEF TypeOK
<1>5. \A d \in Ctr : Exists(eng', d) = Exists(eng, d)
  BY <1>3 DEF Exists
<1>6. IdInv'
  BY <1>1, <1>2, <1>3 DEF IInv, IdInv, Exists
<1>7. VolumesInv'
  <2> HIDE DEF Ordinary
  <2> QED BY <1>1, <1>2, <1>3 DEF IInv, VolumesInv, Planned
<1>8. QuiescedInv'
  <2> HIDE DEF Ordinary
  <2> QED BY <1>1, <1>2, <1>3 DEF IInv, QuiescedInv, UsersOf, Exists
<1>9. PlanInv'
  <2> HIDE DEF Ordinary
  <2> QED BY <1>1, <1>2, <1>3 DEF IInv, PlanInv
<1>10. NoPartialObserved'
  BY <1>1, <1>3 DEF IInv, NoPartialObserved, UsersOf, Exists
<1> QED BY <1>4, <1>6, <1>7, <1>8, <1>9, <1>10 DEF IInv

(* A volume is cleared when nothing of the run's knowledge runs on it, and filled. *)
LEMMA VolumeSteps ==
  ASSUME IInv, (\E v \in Vol : ClearVolume(v)) \/ FillVolume
  PROVE  IInv'
<1>1. /\ phase = "apply" /\ UNCHANGED kept /\ UNCHANGED <<made, foreign, owed>>
      /\ \E v \in Vol, k \in {"partial", "recorded"} :
           /\ v \in plan.vols
           /\ eng' = [eng EXCEPT !.vol[v] = k]
           /\ k = "partial" => /\ plan.stop = {} /\ plan.remove = {}
                               /\ filling = NoVol /\ filling' = v /\ plan' = plan
           /\ k = "recorded" => /\ filling = v /\ filling' = NoVol
                                /\ plan' = [plan EXCEPT !.vols = @ \ {v}]
  <2>1. ASSUME NEW v \in Vol, ClearVolume(v)
        PROVE  /\ v \in plan.vols /\ eng' = [eng EXCEPT !.vol[v] = "partial"]
               /\ plan.stop = {} /\ plan.remove = {} /\ filling = NoVol /\ filling' = v
               /\ plan' = plan /\ UNCHANGED kept /\ UNCHANGED <<made, foreign, owed>>
               /\ phase = "apply"
    BY <2>1 DEF ClearVolume, Before, K1, K2, K3, K4
  <2>2. CASE FillVolume
    <3>1. filling \in plan.vols /\ filling \in Vol
      BY <2>2 DEF FillVolume, IInv, TypeOK, Plan
    <3> QED BY <2>2, <3>1 DEF FillVolume
  <2> QED BY <2>1, <2>2
<1>2. PICK v \in Vol, k \in {"partial", "recorded"} :
           /\ v \in plan.vols
           /\ eng' = [eng EXCEPT !.vol[v] = k]
           /\ k = "partial" => /\ plan.stop = {} /\ plan.remove = {}
                               /\ filling = NoVol /\ filling' = v /\ plan' = plan
           /\ k = "recorded" => /\ filling = v /\ filling' = NoVol
                                /\ plan' = [plan EXCEPT !.vols = @ \ {v}]
  BY <1>1
<1>3. /\ UNCHANGED <<snap, phase, req, live, consent, cp, runs, users, touched, meddled>>
      /\ UNCHANGED <<Selected(req), NeedVols(req), Retags(live, req), Conflicts(live, req), Ordinary>>
      /\ TypeOK /\ \A w \in Vol : w # NoVol
  BY <1>1, KeptFacts
<1>4. /\ eng'.id = eng.id /\ eng'.image = eng.image
      /\ eng'.config = eng.config /\ eng'.running = eng.running
      /\ eng'.vol[v] = k /\ \A w \in Vol : w # v => eng'.vol[w] = eng.vol[w]
      /\ plan'.restart = plan.restart /\ plan'.start = plan.start
      /\ plan'.stop = plan.stop /\ plan'.remove = plan.remove /\ plan'.tags = plan.tags
      /\ plan'.vols = IF k = "recorded" THEN plan.vols \ {v} ELSE plan.vols
  <2>1. eng' = [eng EXCEPT !.vol = [eng.vol EXCEPT ![v] = k]]
    BY <1>2
  <2>2. /\ eng'.id = eng.id /\ eng'.image = eng.image
        /\ eng'.config = eng.config /\ eng'.running = eng.running
        /\ eng'.vol[v] = k /\ \A w \in Vol : w # v => eng'.vol[w] = eng.vol[w]
    BY <1>1, <2>1, KeptFacts DEF Engine
  <2>3. /\ plan'.restart = plan.restart /\ plan'.start = plan.start
        /\ plan'.stop = plan.stop /\ plan'.remove = plan.remove /\ plan'.tags = plan.tags
        /\ plan'.vols = IF k = "recorded" THEN plan.vols \ {v} ELSE plan.vols
    BY <1>1, <1>2, KeptFacts DEF Plan
  <2> QED BY <2>2, <2>3
<1>5. TypeOK'
  <2>1. eng' \in Engine
    BY <1>1, <1>2, KeptFacts DEF Engine, Contents
  <2>2. plan' \in Plan
    BY <1>1, <1>2, KeptFacts DEF Plan
  <2>3. filling' \in plan'.vols \cup {NoVol}
    BY <1>2
  <2> QED BY <1>1, <1>3, <2>1, <2>2, <2>3 DEF TypeOK
<1>6. \A d \in Ctr, w \in Vol : d \in UsersOf(eng', w) <=> d \in UsersOf(eng, w)
  BY <1>4 DEF UsersOf, Exists
<1>7. \A d \in Ctr \ foreign : k = "partial" /\ eng.running[d] => d \notin UsersOf(eng, v)
  <2>1. QuiescedInv
    BY DEF IInv
  <2> QED BY <1>2, <2>1 DEF QuiescedInv
<1>8. IdInv'
  BY <1>1, <1>3, <1>4 DEF IInv, IdInv, Exists
<1>9. VolumesInv'
  <2>1. VolumesInv /\ plan.vols \subseteq Vol
    BY <1>3 DEF IInv, TypeOK, Plan
  <2>2. /\ (phase' # "apply" => filling' = NoVol)
        /\ plan'.vols \subseteq NeedVols(req)' /\ (~ Ordinary' => plan'.vols = {})
    BY <1>1, <1>3, <1>4, <2>1 DEF VolumesInv
  <2>3. \A w \in Vol : eng'.vol[w] = "partial" =>
          /\ w \in snap.vols
          /\ w # filling' => live.vol[w] = "partial"
          /\ Planned /\ Ordinary /\ w \in NeedVols(req) => w \in plan'.vols
    <3>1. v \in snap.vols
      BY <1>2, <2>1 DEF VolumesInv, NeedVols
    <3> HIDE DEF Ordinary, Planned
    <3>2. CASE k = "partial"
      BY <1>2, <1>3, <1>4, <2>1, <3>1, <3>2 DEF VolumesInv
    <3>3. CASE k = "recorded"
      <4>1. eng'.vol[v] = "recorded"
        BY <1>4, <3>3
      <4> QED BY <1>2, <1>4, <2>1, <3>3, <4>1 DEF VolumesInv
    <3> QED BY <3>2, <3>3
  <2>4. \A w \in Vol \ meddled : w # filling' =>
          /\ w \in plan'.vols \/ phase \in {"consent", "compare"} => eng'.vol[w] = cp.vol[w]
          /\ eng'.vol[w] = "partial" => cp.vol[w] = "partial"
    <3>1. CASE k = "partial"
      BY <1>1, <1>2, <1>3, <1>4, <2>1, <3>1 DEF VolumesInv
    <3>2. CASE k = "recorded"
      BY <1>1, <1>2, <1>3, <1>4, <2>1, <3>2 DEF VolumesInv
    <3> QED BY <3>1, <3>2
  <2>5. Planned' = Planned
    BY <1>3 DEF Planned
  <2> HIDE DEF Ordinary, Planned
  <2> QED BY <1>3, <2>2, <2>3, <2>4, <2>5 DEF VolumesInv
<1>10. QuiescedInv'
  <2>1. QuiescedInv /\ plan.vols \subseteq Vol
    BY <1>3 DEF IInv, TypeOK, Plan
  <2>2. \A w \in plan'.vols, d \in Ctr \ foreign' : eng'.running[d] /\ d \in UsersOf(eng', w) =>
          <<d, live.id[d]>> \in plan'.stop \cup plan'.remove
    BY <1>1, <1>4, <1>6, <2>1 DEF QuiescedInv
  <2>3. \A d \in Ctr \ foreign' :
          Exists(eng', d) /\ eng'.id[d] = live.id[d] /\ live.running[d] =>
            \A w \in Vol : d \in UsersOf(live, w) => live.vol[w] # "partial"
    BY <1>1, <1>4, <2>1 DEF QuiescedInv, Exists
  <2>4. \A d \in Ctr, w \in Vol : d \in UsersOf(eng', w) => eng'.vol[w] # "none"
    BY <1>4, <1>6, <2>1 DEF QuiescedInv
  <2>5. \A m \in plan'.restart : /\ Ordinary' /\ m[2] = live.id[m[1]]
                                 /\ live.running[m[1]]
                                    \/ (m[1] \in Selected(req) /\ live.config[m[1]] = "recorded")
    BY <1>3, <1>4, <2>1 DEF QuiescedInv
  <2> HIDE DEF Ordinary
  <2> QED BY <1>1, <1>3, <1>4, <2>1, <2>2, <2>3, <2>4, <2>5 DEF QuiescedInv, UsersOf, Exists
<1>11. PlanInv'
  <2> HIDE DEF Ordinary
  <2> QED BY <1>3, <1>4 DEF IInv, PlanInv
<1>12. NoPartialObserved'
  <2>1. \A d \in Ctr \ foreign : eng'.running[d] =>
          \A w \in Vol : d \in UsersOf(eng', w) => eng'.vol[w] # "partial"
    <3>1. SUFFICES ASSUME NEW d \in Ctr \ foreign, eng.running[d], NEW w \in Vol,
                          d \in UsersOf(eng, w)
                   PROVE  eng'.vol[w] # "partial"
      BY <1>4, <1>6
    <3>2. eng.vol[w] # "partial"
      BY <3>1 DEF IInv, NoPartialObserved
    <3> QED BY <1>4, <1>7, <3>1, <3>2
  <2> QED BY <1>1, <2>1 DEF NoPartialObserved, UsersOf, Exists
<1> QED BY <1>5, <1>8, <1>9, <1>10, <1>11, <1>12 DEF IInv

(* A container is created: it has a new id, and does not run yet. *)
LEMMA CreatePreserves ==
  ASSUME IInv, NEW c \in Ctr, CreateContainer(c)
  PROVE  IInv'
<1>1. /\ phase = "apply" /\ UNCHANGED kept /\ UNCHANGED <<filling, foreign, owed>>
      /\ plan.vols = {} /\ plan.stop = {} /\ plan.remove = {}
      /\ ~ Exists(eng, c) /\ Resolved(c) \in eng.images
      /\ eng' = [eng EXCEPT
           !.config[c] = "recorded", !.image[c] = Resolved(c), !.running[c] = FALSE,
           !.id[c] = @ + 1,
           !.vol = [v \in Vol |-> IF v \in Mounts[c]["recorded"] /\ @[v] = "none"
                                  THEN "drifted" ELSE @[v]]]
      /\ plan' = [plan EXCEPT !.create = @ \ {c}]
      /\ made' = made \cup {<<c, eng.id[c] + 1>>}
  BY DEF CreateContainer, Before, K1, K2, K3, K4, K5
<1>2. /\ UNCHANGED <<snap, phase, req, live, consent, cp, runs, users, touched, meddled>>
      /\ UNCHANGED <<Selected(req), NeedVols(req), Retags(live, req), Conflicts(live, req), Ordinary>>
      /\ TypeOK /\ eng.id[c] \in Nat /\ live.id \in [Ctr -> Nat]
      /\ Mounts \in [Ctr -> [Configs -> SUBSET Vol]]
  BY <1>1, KeptFacts, RollbackAssumption DEF Engine
<1>3. eng' = [eng EXCEPT
         !.config = [eng.config EXCEPT ![c] = "recorded"],
         !.image = [eng.image EXCEPT ![c] = Resolved(c)],
         !.running = [eng.running EXCEPT ![c] = FALSE],
         !.id = [eng.id EXCEPT ![c] = eng.id[c] + 1],
         !.vol = [v \in Vol |-> IF v \in Mounts[c]["recorded"] /\ eng.vol[v] = "none"
                                THEN "drifted" ELSE eng.vol[v]]]
  BY <1>1
<1>4. /\ eng'.config = [eng.config EXCEPT ![c] = "recorded"]
      /\ eng'.image = [eng.image EXCEPT ![c] = Resolved(c)]
      /\ eng'.running = [eng.running EXCEPT ![c] = FALSE]
      /\ eng'.id = [eng.id EXCEPT ![c] = eng.id[c] + 1]
      /\ eng'.vol = [v \in Vol |-> IF v \in Mounts[c]["recorded"] /\ eng.vol[v] = "none"
                                   THEN "drifted" ELSE eng.vol[v]]
      /\ eng'.nets = eng.nets /\ eng'.images = eng.images /\ eng'.tag = eng.tag
  BY <1>1, <1>3, KeptFacts DEF Engine
<1>5. /\ \A d \in Ctr : d # c => /\ eng'.config[d] = eng.config[d]
                                 /\ eng'.image[d] = eng.image[d] /\ eng'.id[d] = eng.id[d]
                                 /\ eng'.running[d] = eng.running[d]
      /\ eng'.config[c] = "recorded" /\ eng'.running[c] = FALSE /\ eng'.id[c] = eng.id[c] + 1
      /\ \A v \in Vol : /\ eng'.vol[v] = eng.vol[v] \/ eng'.vol[v] = "drifted"
                        /\ eng'.vol[v] = "none" => eng.vol[v] = "none"
                        /\ eng'.vol[v] = "none" => v \notin Mounts[c]["recorded"]
  BY <1>1, <1>4, KeptFacts
<1>6. /\ plan'.vols = plan.vols /\ plan'.restart = plan.restart /\ plan'.start = plan.start
      /\ plan'.stop = plan.stop /\ plan'.remove = plan.remove /\ plan'.tags = plan.tags
  BY <1>1, KeptFacts DEF Plan
<1>7. TypeOK'
  <2>1. eng' \in Engine
    <3>1. Resolved(c) \in Image
      BY <1>1, KeptFacts DEF Engine
    <3>2. /\ eng'.config \in [Ctr -> Configs \cup {"none"}] /\ eng'.image \in [Ctr -> Image]
          /\ eng'.running \in [Ctr -> BOOLEAN] /\ eng'.id \in [Ctr -> Nat]
          /\ eng'.vol \in [Vol -> Contents \cup {"none"}]
      BY <1>1, <1>2, <1>4, <3>1, KeptFacts DEF Configs, Contents
    <3>3. /\ eng.nets \subseteq Net /\ eng.images \subseteq Image
          /\ eng.tag \in [Tag -> Image \cup {NoImage}]
          /\ eng = [config |-> eng.config, image |-> eng.image, running |-> eng.running,
                    id |-> eng.id, vol |-> eng.vol, nets |-> eng.nets, images |-> eng.images,
                    tag |-> eng.tag]
      BY <1>1, KeptFacts DEF Engine
    <3>4. eng' = [config |-> eng'.config, image |-> eng'.image, running |-> eng'.running,
                  id |-> eng'.id, vol |-> eng'.vol, nets |-> eng'.nets,
                  images |-> eng'.images, tag |-> eng'.tag]
      BY <1>3, <3>3
    <3> QED BY <1>4, <3>2, <3>3, <3>4 DEF Engine
  <2>2. plan' \in Plan
    BY <1>1, KeptFacts DEF Plan
  <2>3. made' \subseteq Ids
    BY <1>1, <1>2 DEF TypeOK, Ids
  <2> QED BY <1>1, <1>2, <1>6, <2>1, <2>2, <2>3 DEF TypeOK
<1>8. IdInv'
  <2>1. IdInv /\ made \subseteq Ids /\ live.id[c] \in Nat /\ cp.id[c] \in Nat
    BY <1>2 DEF IInv, TypeOK, Engine
  <2>2. ASSUME NEW d \in Ctr, d # c
        PROVE  /\ live.id[d] <= cp.id[d] /\ cp.id[d] <= eng'.id[d]
               /\ Exists(eng', d) /\ eng'.id[d] = live.id[d] =>
                    eng'.config[d] = live.config[d] /\ eng'.image[d] = live.image[d]
               /\ Exists(eng', d) /\ eng'.id[d] = cp.id[d] => eng'.config[d] = cp.config[d]
               /\ \A m \in made' : m[1] = d =>
                    /\ live.id[d] < m[2] /\ m[2] <= eng'.id[d]
                    /\ Exists(eng', d) /\ eng'.id[d] = m[2] => eng'.config[d] = "recorded"
    BY <1>1, <1>5, <2>1, <2>2 DEF IdInv, Exists
  <2>3. /\ live.id[c] <= cp.id[c] /\ cp.id[c] <= eng'.id[c]
        /\ eng'.id[c] # live.id[c] /\ eng'.id[c] # cp.id[c]
        /\ live.id[c] < eng.id[c] + 1
    BY <1>2, <1>5, <2>1 DEF IdInv
  <2>4. \A m \in made' : m[1] = c =>
          /\ live.id[c] < m[2] /\ m[2] <= eng'.id[c]
          /\ Exists(eng', c) /\ eng'.id[c] = m[2] => eng'.config[c] = "recorded"
    <3>1. SUFFICES ASSUME NEW m \in made', m[1] = c
                   PROVE  live.id[c] < m[2] /\ m[2] <= eng'.id[c]
      BY <1>5
    <3>2. CASE m \in made
      <4>1. m[2] \in Nat /\ live.id[c] < m[2] /\ m[2] <= eng.id[c]
        BY <2>1, <3>1, <3>2 DEF IdInv, Ids
      <4> QED BY <1>2, <1>5, <4>1
    <3>3. CASE m = <<c, eng.id[c] + 1>>
      BY <1>2, <1>5, <2>3, <3>3
    <3> QED BY <1>1, <3>2, <3>3
  <2> QED BY <1>2, <2>2, <2>3, <2>4 DEF IdInv, Exists
<1>9. VolumesInv'
  <2> HIDE DEF Ordinary
  <2> QED BY <1>1, <1>2, <1>5, <1>6 DEF IInv, VolumesInv, Planned
<1>10. QuiescedInv'
  <2>1. QuiescedInv
    BY DEF IInv
  <2>2. \A d \in Ctr \ foreign' :
          Exists(eng', d) /\ eng'.id[d] = live.id[d] /\ live.running[d] =>
            \A w \in Vol : d \in UsersOf(live, w) => live.vol[w] # "partial"
    <3>1. eng'.id[c] # live.id[c]
      <4>1. live.id[c] <= cp.id[c] /\ cp.id[c] <= eng.id[c] /\ cp.id[c] \in Nat
        BY <1>2 DEF IInv, IdInv, TypeOK, Engine
      <4> QED BY <1>2, <1>5, <4>1
    <3> QED BY <1>1, <1>5, <2>1, <3>1 DEF QuiescedInv, Exists
  <2>3. \A d \in Ctr, v \in Vol : d \in UsersOf(eng', v) => eng'.vol[v] # "none"
    <3>1. \A d \in Ctr, v \in Vol : d # c /\ d \in UsersOf(eng', v) => d \in UsersOf(eng, v)
      BY <1>5 DEF UsersOf, Exists
    <3>2. \A v \in Vol : c \in UsersOf(eng', v) => v \in Mounts[c]["recorded"]
      BY <1>5 DEF UsersOf
    <3> QED BY <1>5, <2>1, <3>1, <3>2 DEF QuiescedInv
  <2>4. \A m \in plan'.restart : /\ Ordinary' /\ m[2] = live.id[m[1]]
                                 /\ live.running[m[1]]
                                    \/ (m[1] \in Selected(req) /\ live.config[m[1]] = "recorded")
    BY <1>2, <1>6, <2>1 DEF QuiescedInv
  <2> HIDE DEF Ordinary
  <2> QED BY <1>1, <1>2, <1>6, <2>1, <2>2, <2>3, <2>4 DEF QuiescedInv, UsersOf, Exists
<1>11. PlanInv'
  <2> HIDE DEF Ordinary
  <2> QED BY <1>2, <1>6 DEF IInv, PlanInv
<1>12. NoPartialObserved'
  <2>1. \A d \in Ctr \ foreign, v \in Vol :
          eng'.running[d] /\ d \in UsersOf(eng', v) => eng'.vol[v] # "partial"
    <3>1. \A d \in Ctr, v \in Vol : d # c /\ d \in UsersOf(eng', v) => d \in UsersOf(eng, v)
      BY <1>5 DEF UsersOf, Exists
    <3> QED BY <1>5, <3>1 DEF IInv, NoPartialObserved
  <2> QED BY <1>1, <2>1 DEF NoPartialObserved, UsersOf, Exists
<1> QED BY <1>7, <1>8, <1>9, <1>10, <1>11, <1>12 DEF IInv

(* A container is started on volumes that are all whole. *)
LEMMA StartSteps ==
  ASSUME IInv, NEW c \in Ctr,
         StartContainer(c) \/ \E id \in Nat : RestartContainer(c, id)
  PROVE  IInv'
<1>1. /\ phase = "apply" /\ UNCHANGED kept /\ UNCHANGED <<filling, made>>
      /\ plan.vols = {} /\ plan.stop = {} /\ plan.remove = {} /\ Exists(eng, c)
      /\ eng' = [eng EXCEPT !.running[c] = TRUE]
      /\ owed' = owed \ {c}
      /\ foreign' = IF ByName(req) THEN foreign \cup {c} ELSE foreign
      /\ \/ plan' = [plan EXCEPT !.start = @ \ {c}]
         \/ \E id \in Nat : plan' = [plan EXCEPT !.restart = @ \ {<<c, id>>}]
      /\ \/ c \in plan.start /\ \E m \in made : m[1] = c /\ eng.id[c] = m[2]
         \/ \E m \in plan.restart : m[1] = c /\ eng.id[c] = m[2]
  <2>1. CASE StartContainer(c)
    <3>1. \E m \in made : m[1] = c /\ eng.id[c] = m[2]
      BY <2>1 DEF StartContainer, Is
    <3> QED BY <2>1, <3>1 DEF StartContainer, Started, Is, Before, K1, K2, K3, K4, K5, K6
  <2>2. ASSUME NEW id \in Nat, RestartContainer(c, id)
        PROVE  /\ phase = "apply" /\ UNCHANGED kept /\ UNCHANGED <<filling, made>>
               /\ plan.vols = {} /\ plan.stop = {} /\ plan.remove = {} /\ Exists(eng, c)
               /\ eng' = [eng EXCEPT !.running[c] = TRUE]
               /\ owed' = owed \ {c}
               /\ foreign' = IF ByName(req) THEN foreign \cup {c} ELSE foreign
               /\ plan' = [plan EXCEPT !.restart = @ \ {<<c, id>>}]
               /\ \E m \in plan.restart : m[1] = c /\ eng.id[c] = m[2]
    BY <2>2 DEF RestartContainer, Started, Is, Before, K1, K2, K3, K4, K5, K6, K7
  <2> QED BY <2>1, <2>2
<1>2. /\ UNCHANGED <<snap, phase, req, live, consent, cp, runs, users, touched, meddled>>
      /\ UNCHANGED <<Selected(req), NeedVols(req), Retags(live, req), Conflicts(live, req), Ordinary>>
      /\ TypeOK /\ filling = NoVol /\ \A v \in Vol : v # NoVol
  <2>1. filling = NoVol
    BY <1>1 DEF IInv, TypeOK
  <2> QED BY <1>1, <2>1, KeptFacts
<1>3. /\ eng'.vol = eng.vol /\ eng'.id = eng.id /\ eng'.image = eng.image
      /\ eng'.config = eng.config /\ eng'.running[c] = TRUE
      /\ \A d \in Ctr : d # c => eng'.running[d] = eng.running[d]
  <2>1. eng' = [eng EXCEPT !.running = [eng.running EXCEPT ![c] = TRUE]]
    BY <1>1
  <2> QED BY <1>1, <2>1, KeptFacts DEF Engine
<1>4. /\ plan'.vols = {} /\ plan'.stop = {} /\ plan'.remove = {} /\ plan'.tags = plan.tags
      /\ plan'.restart \subseteq plan.restart /\ plan'.start \subseteq plan.start
  BY <1>1, KeptFacts DEF Plan
<1>5. TypeOK'
  <2>1. eng' \in Engine
    BY <1>1, KeptFacts DEF Engine
  <2>2. plan' \in Plan
    BY <1>1, KeptFacts DEF Plan
  <2>3. foreign' \cup owed' \subseteq Ctr
    BY <1>1, <1>2 DEF TypeOK
  <2> QED BY <1>1, <1>2, <2>1, <2>2, <2>3 DEF TypeOK
<1>6. \A d \in Ctr, w \in Vol : d \in UsersOf(eng', w) <=> d \in UsersOf(eng, w)
  BY <1>3 DEF UsersOf, Exists
<1>7. c \notin foreign' => \A v \in Vol : c \in UsersOf(eng, v) => eng.vol[v] # "partial"
  <2>1. SUFFICES ASSUME c \notin foreign', NEW v \in Vol, c \in UsersOf(eng, v),
                        eng.vol[v] = "partial"
                 PROVE  FALSE
    OBVIOUS
  <2>2. Ordinary /\ c \notin foreign /\ Planned
    BY <1>1, <2>1 DEF Ordinary, Planned
  <2>3. v \in snap.vols /\ v \notin NeedVols(req) /\ live.vol[v] = "partial"
    <3> HIDE DEF Ordinary, Planned
    <3> QED BY <1>1, <1>2, <2>1, <2>2 DEF IInv, VolumesInv
  <2>4. c \in Selected(req) => eng.config[c] # "recorded"
    <3>1. SUFFICES ASSUME c \in Selected(req), eng.config[c] = "recorded" PROVE FALSE
      OBVIOUS
    <3>2. v \in Mounts[c]["recorded"]
      BY <2>1, <3>1 DEF UsersOf
    <3> QED BY <2>3, <3>1, <3>2 DEF NeedVols
  <2>5. CASE c \in plan.start /\ \E m \in made : m[1] = c /\ eng.id[c] = m[2]
    <3>1. c \in Selected(req)
      BY <2>2, <2>5 DEF IInv, QuiescedInv
    <3>2. eng.config[c] = "recorded"
      BY <1>1, <2>5 DEF IInv, IdInv
    <3> QED BY <2>4, <3>1, <3>2
  <2>6. CASE \E m \in plan.restart : m[1] = c /\ eng.id[c] = m[2]
    <3>1. /\ eng.id[c] = live.id[c]
          /\ live.running[c] \/ (c \in Selected(req) /\ live.config[c] = "recorded")
      BY <2>6 DEF IInv, QuiescedInv
    <3>2. eng.config[c] = live.config[c]
      BY <1>1, <3>1 DEF IInv, IdInv
    <3>3. live.running[c]
      BY <2>4, <3>1, <3>2
    <3>4. c \in UsersOf(live, v)
      BY <1>1, <2>1, <3>2 DEF UsersOf, Exists
    <3> QED BY <1>1, <2>2, <2>3, <3>1, <3>3, <3>4 DEF IInv, QuiescedInv
  <2> QED BY <1>1, <2>5, <2>6
<1>8. IdInv'
  BY <1>1, <1>2, <1>3 DEF IInv, IdInv, Exists
<1>9. VolumesInv'
  <2>1. VolumesInv
    BY DEF IInv
  <2>2. Planned' = Planned
    BY <1>2 DEF Planned
  <2> HIDE DEF Ordinary, Planned
  <2> QED BY <1>1, <1>2, <1>3, <1>4, <2>1, <2>2 DEF VolumesInv
<1>10. QuiescedInv'
  <2>1. QuiescedInv
    BY DEF IInv
  <2>2. \A d \in Ctr \ foreign' :
          Exists(eng', d) /\ eng'.id[d] = live.id[d] /\ live.running[d] =>
            \A w \in Vol : d \in UsersOf(live, w) => live.vol[w] # "partial"
    BY <1>1, <1>3, <2>1 DEF QuiescedInv, Exists
  <2>3. \A d \in Ctr, w \in Vol : d \in UsersOf(eng', w) => eng'.vol[w] # "none"
    BY <1>3, <1>6, <2>1 DEF QuiescedInv
  <2>4. /\ \A m \in plan'.restart : /\ Ordinary' /\ m[2] = live.id[m[1]]
                                    /\ live.running[m[1]]
                                       \/ (m[1] \in Selected(req) /\ live.config[m[1]] = "recorded")
        /\ Ordinary' => plan'.start \subseteq Selected(req)
    <3> HIDE DEF Ordinary
    <3> QED BY <1>2, <1>4, <2>1 DEF QuiescedInv
  <2> HIDE DEF Ordinary
  <2> QED BY <1>1, <1>2, <1>4, <2>2, <2>3, <2>4 DEF QuiescedInv, UsersOf, Exists
<1>11. PlanInv'
  <2> HIDE DEF Ordinary
  <2> QED BY <1>2, <1>4 DEF IInv, PlanInv
<1>12. NoPartialObserved'
  <2>1. \A d \in Ctr \ foreign', w \in Vol :
          eng'.running[d] /\ d \in UsersOf(eng', w) => eng'.vol[w] # "partial"
    BY <1>1, <1>3, <1>6, <1>7 DEF IInv, NoPartialObserved
  <2> QED BY <2>1 DEF NoPartialObserved, UsersOf, Exists
<1> QED BY <1>5, <1>8, <1>9, <1>10, <1>11, <1>12 DEF IInv

(* Other clients: what they start is not the run's, and what they replace has a new id. *)
LEMMA UserSteps == IInv /\ User => IInv'
<1> SUFFICES ASSUME IInv, User PROVE IInv'
  OBVIOUS
<1>1. /\ UNCHANGED <<snap, run, owed>>
      /\ \E x \in Ctr \cup Vol \cup Tag :
           touched' = touched \cup {x} /\ meddled' = meddled \cup {x}
      /\ users' = users + 1 /\ users < MaxUsers
      /\ \/ \E c \in Ctr : /\ Exists(eng, c) /\ foreign \cup {c} = foreign' /\ eng' = [eng EXCEPT !.running[c] = TRUE]
         \/ \E c \in Ctr : Exists(eng, c) /\ foreign' = foreign /\ eng' = [eng EXCEPT !.running[c] = FALSE]
         \/ \E c \in Ctr : /\ Mounts[c]["drifted"] \subseteq {v \in Vol : eng.vol[v] # "none"}
                           /\ foreign' = foreign \cup {c}
                           /\ eng' = [eng EXCEPT !.config[c] = "drifted", !.running[c] = TRUE,
                                                 !.id[c] = @ + 1]
         \/ \E v \in Vol : /\ eng.vol[v] = "recorded" /\ foreign' = foreign
                           /\ meddled' = meddled \cup {v}
                           /\ eng' = [eng EXCEPT !.vol[v] = "drifted"]
         \/ \E t \in Tag, i \in Image : foreign' = foreign /\ eng' = [eng EXCEPT !.tag[t] = i]
  BY DEF User, UserStarts, UserStops, UserReplaces, ContainerWrites, UserTags, Meddle
<1>2. /\ UNCHANGED <<snap, phase, req, live, consent, plan, filling, made, cp, runs, owed>>
      /\ TypeOK /\ eng \in Engine
      /\ eng.config \in [Ctr -> Configs \cup {"none"}] /\ eng.image \in [Ctr -> Image]
      /\ eng.running \in [Ctr -> BOOLEAN] /\ eng.id \in [Ctr -> Nat]
      /\ eng.vol \in [Vol -> Contents \cup {"none"}]
      /\ live.id \in [Ctr -> Nat] /\ cp.id \in [Ctr -> Nat]
  <2>1. UNCHANGED <<snap, phase, req, live, consent, plan, filling, made, cp, runs, owed>>
    BY <1>1 DEF run
  <2>2. TypeOK /\ eng \in Engine /\ live \in Engine /\ cp \in Engine
    BY DEF IInv, TypeOK
  <2> QED BY <2>1, <2>2 DEF Engine
<1>3. UNCHANGED <<Selected(req), NeedVols(req), Retags(live, req), Conflicts(live, req), Ordinary>>
  BY <1>2, Frame, Zenon
(* As one step: at most one container is changed, and at most one volume. *)
<1> DEFINE Effect ==
      /\ \A d \in Ctr : \/ /\ eng'.config[d] = eng.config[d] /\ eng'.id[d] = eng.id[d]
                           /\ eng'.running[d] = eng.running[d]
                        \/ /\ eng'.config[d] = eng.config[d] /\ eng'.id[d] = eng.id[d]
                           /\ Exists(eng, d)
                           /\ ~ eng'.running[d] \/ d \in foreign'
                        \/ /\ d \in foreign' /\ eng'.id[d] = eng.id[d] + 1
                           /\ eng'.config[d] = "drifted"
                           /\ \A v \in Mounts[d]["drifted"] : eng'.vol[v] # "none"
      /\ eng'.image = eng.image
      /\ \A v \in Vol : \/ eng'.vol[v] = eng.vol[v]
                        \/ /\ eng'.vol[v] = "drifted" /\ eng.vol[v] = "recorded"
                           /\ v \in meddled'
      /\ foreign \subseteq foreign' /\ meddled \subseteq meddled' /\ eng' \in Engine
      /\ foreign' \subseteq Ctr
<1>4. Effect
  <2>1. ASSUME NEW c \in Ctr, NEW b \in BOOLEAN, Exists(eng, c), eng' = [eng EXCEPT !.running[c] = b],
               foreign' = foreign \cup {c} \/ (foreign' = foreign /\ b = FALSE)
        PROVE  Effect
    <3>1. eng' = [eng EXCEPT !.running = [eng.running EXCEPT ![c] = b]]
      BY <2>1
    <3>2. /\ eng'.config = eng.config /\ eng'.id = eng.id /\ eng'.vol = eng.vol
          /\ eng'.image = eng.image
          /\ eng'.running[c] = b /\ \A d \in Ctr : d # c => eng'.running[d] = eng.running[d]
      BY <1>2, <3>1 DEF Engine
    <3>3. eng' \in Engine
      BY <1>2, <2>1 DEF Engine
    <3> QED BY <1>1, <1>2, <2>1, <3>2, <3>3 DEF TypeOK
  <2>2. ASSUME NEW c \in Ctr, Mounts[c]["drifted"] \subseteq {v \in Vol : eng.vol[v] # "none"},
               eng' = [eng EXCEPT !.config[c] = "drifted", !.running[c] = TRUE, !.id[c] = @ + 1],
               foreign' = foreign \cup {c}
        PROVE  Effect
    <3>1. eng' = [eng EXCEPT !.config = [eng.config EXCEPT ![c] = "drifted"],
                             !.running = [eng.running EXCEPT ![c] = TRUE],
                             !.id = [eng.id EXCEPT ![c] = eng.id[c] + 1]]
      BY <2>2
    <3>2. /\ eng'.config = [eng.config EXCEPT ![c] = "drifted"]
          /\ eng'.running = [eng.running EXCEPT ![c] = TRUE]
          /\ eng'.id = [eng.id EXCEPT ![c] = eng.id[c] + 1]
          /\ eng'.vol = eng.vol /\ eng'.image = eng.image
      BY <1>2, <3>1 DEF Engine
    <3>3. eng' \in Engine
      <4>1. /\ [eng.config EXCEPT ![c] = "drifted"] \in [Ctr -> Configs \cup {"none"}]
            /\ [eng.running EXCEPT ![c] = TRUE] \in [Ctr -> BOOLEAN]
            /\ [eng.id EXCEPT ![c] = eng.id[c] + 1] \in [Ctr -> Nat]
        BY <1>2 DEF Configs
      <4> QED BY <1>2, <3>1, <4>1 DEF Engine
    <3>4. /\ \A d \in Ctr : d # c => /\ eng'.config[d] = eng.config[d]
                                     /\ eng'.id[d] = eng.id[d]
                                     /\ eng'.running[d] = eng.running[d]
          /\ c \in foreign' /\ eng'.id[c] = eng.id[c] + 1 /\ eng'.config[c] = "drifted"
          /\ \A v \in Mounts[c]["drifted"] : eng'.vol[v] # "none"
      BY <1>2, <2>2, <3>2
    <3>5. foreign' \subseteq Ctr /\ foreign \subseteq foreign' /\ meddled \subseteq meddled'
      BY <1>1, <1>2, <2>2 DEF TypeOK
    <3> QED BY <3>2, <3>3, <3>4, <3>5
  <2>3. ASSUME NEW v \in Vol, eng.vol[v] = "recorded", eng' = [eng EXCEPT !.vol[v] = "drifted"],
               foreign' = foreign, meddled' = meddled \cup {v}
        PROVE  Effect
    <3>1. eng' = [eng EXCEPT !.vol = [eng.vol EXCEPT ![v] = "drifted"]]
      BY <2>3
    <3>2. /\ eng'.config = eng.config /\ eng'.running = eng.running /\ eng'.id = eng.id
          /\ eng'.image = eng.image /\ eng'.vol = [eng.vol EXCEPT ![v] = "drifted"]
      BY <1>2, <3>1 DEF Engine
    <3>3. eng' \in Engine
      <4>1. [eng.vol EXCEPT ![v] = "drifted"] \in [Vol -> Contents \cup {"none"}]
        BY <1>2 DEF Contents
      <4> QED BY <1>2, <3>1, <4>1 DEF Engine
    <3>4. /\ \A w \in Vol : w # v => eng'.vol[w] = eng.vol[w]
          /\ eng'.vol[v] = "drifted" /\ v \in meddled'
      BY <1>2, <2>3, <3>2
    <3>5. foreign' \subseteq Ctr /\ foreign \subseteq foreign' /\ meddled \subseteq meddled'
      BY <1>2, <2>3 DEF TypeOK
    <3> QED BY <2>3, <3>2, <3>3, <3>4, <3>5
  <2>4. ASSUME NEW t \in Tag, NEW i \in Image, eng' = [eng EXCEPT !.tag[t] = i], foreign' = foreign
        PROVE  Effect
    <3>1. /\ eng'.config = eng.config /\ eng'.running = eng.running /\ eng'.id = eng.id
          /\ eng'.image = eng.image /\ eng'.vol = eng.vol /\ eng' \in Engine
      BY <1>2, <2>4 DEF Engine
    <3> QED BY <1>1, <1>2, <2>4, <3>1 DEF TypeOK
  <2> QED BY <1>1, <2>1, <2>2, <2>3, <2>4
<1>5. TypeOK'
  <2>1. users' \in 0..MaxUsers
    <3>1. users \in 0..MaxUsers /\ MaxUsers \in Nat
      BY <1>2, RollbackAssumption DEF TypeOK
    <3>2. users' = users + 1 /\ users < MaxUsers
      BY <1>1
    <3> HIDE DEF Effect
    <3> QED BY <3>1, <3>2
  <2>2. touched' \cup meddled' \subseteq Ctr \cup Vol \cup Tag
    BY <1>1, <1>2 DEF TypeOK
  <2>3. foreign' \cup owed' \subseteq Ctr
    BY <1>1, <1>2, <1>4 DEF TypeOK
  <2>4. eng' \in Engine
    BY <1>4
  <2> QED BY <1>2, <2>1, <2>2, <2>3, <2>4 DEF TypeOK
<1>6. ASSUME NEW d \in Ctr, d \notin foreign'
      PROVE  /\ d \notin foreign /\ eng'.config[d] = eng.config[d] /\ eng'.id[d] = eng.id[d]
             /\ eng'.running[d] => eng.running[d]
             /\ Exists(eng', d) <=> Exists(eng, d)
             /\ \A v \in Vol : d \in UsersOf(eng', v) <=> d \in UsersOf(eng, v)
  <2>1. /\ d \notin foreign /\ eng'.config[d] = eng.config[d] /\ eng'.id[d] = eng.id[d]
        /\ eng'.running[d] => eng.running[d]
    BY <1>4, <1>6
  <2> QED BY <2>1 DEF UsersOf, Exists
<1>7. IdInv'
  <2>1. IdInv /\ made \subseteq Ids
    BY <1>2 DEF IInv, TypeOK
  <2>2. ASSUME NEW d \in Ctr
        PROVE  /\ live.id[d] <= cp.id[d] /\ cp.id[d] <= eng'.id[d]
               /\ Exists(eng', d) /\ eng'.id[d] = live.id[d] =>
                    eng'.config[d] = live.config[d] /\ eng'.image[d] = live.image[d]
               /\ Exists(eng', d) /\ eng'.id[d] = cp.id[d] => eng'.config[d] = cp.config[d]
               /\ \A m \in made : m[1] = d =>
                    /\ live.id[d] < m[2] /\ m[2] <= eng'.id[d]
                    /\ Exists(eng', d) /\ eng'.id[d] = m[2] => eng'.config[d] = "recorded"
    <3>1. live.id[d] \in Nat /\ cp.id[d] \in Nat /\ eng.id[d] \in Nat
      BY <1>2
    <3>2. CASE eng'.config[d] = eng.config[d] /\ eng'.id[d] = eng.id[d]
      BY <1>4, <2>1, <3>2 DEF IdInv, Exists
    <3>3. CASE eng'.id[d] = eng.id[d] + 1
      <4>1. live.id[d] <= cp.id[d] /\ cp.id[d] <= eng.id[d]
        BY <2>1 DEF IdInv
      <4>2. \A m \in made : m[1] = d => m[2] \in Nat /\ live.id[d] < m[2] /\ m[2] <= eng.id[d]
        BY <2>1 DEF IdInv, Ids
      <4> QED BY <3>1, <3>3, <4>1, <4>2
    <3> QED BY <1>4, <3>2, <3>3
  <2> QED BY <1>2, <2>2 DEF IdInv, Exists
<1>8. VolumesInv'
  <2>1. VolumesInv
    BY DEF IInv
  <2>2. Planned' = Planned
    BY <1>2 DEF Planned
  <2> HIDE DEF Ordinary, Planned
  <2>3. \A v \in Vol : eng'.vol[v] = "partial" => eng.vol[v] = "partial"
    BY <1>4
  <2>4. \A v \in Vol \ meddled' : eng'.vol[v] = eng.vol[v] /\ v \notin meddled
    BY <1>4
  <2>5. \A v \in Vol : eng'.vol[v] = "partial" =>
          /\ v \in snap.vols
          /\ v # filling => live.vol[v] = "partial"
          /\ Planned /\ Ordinary /\ v \in NeedVols(req) => v \in plan.vols
    BY <2>1, <2>3 DEF VolumesInv
  <2>6. \A v \in Vol \ meddled' : v # filling =>
          /\ v \in plan.vols \/ phase \in {"consent", "compare"} => eng'.vol[v] = cp.vol[v]
          /\ eng'.vol[v] = "partial" => cp.vol[v] = "partial"
    BY <2>1, <2>4 DEF VolumesInv
  <2> QED BY <1>2, <1>3, <2>1, <2>2, <2>5, <2>6 DEF VolumesInv
<1>9. QuiescedInv'
  <2>1. QuiescedInv /\ plan.vols \subseteq Vol
    BY <1>2 DEF IInv, TypeOK, Plan
  <2>2. phase \in {"consent", "compare"} => \A d \in Ctr \ foreign' :
          eng'.running[d] /\ Exists(eng', d) => live.running[d] /\ live.config[d] = eng'.config[d]
    BY <1>6, <2>1 DEF QuiescedInv
  <2>3. \A v \in plan.vols, d \in Ctr \ foreign' : eng'.running[d] /\ d \in UsersOf(eng', v) =>
          <<d, live.id[d]>> \in plan.stop \cup plan.remove
    BY <1>6, <2>1 DEF QuiescedInv
  <2>4. \A d \in Ctr \ foreign' :
          Exists(eng', d) /\ eng'.id[d] = live.id[d] /\ live.running[d] =>
            \A v \in Vol : d \in UsersOf(live, v) => live.vol[v] # "partial"
    BY <1>6, <2>1 DEF QuiescedInv
  <2>5. \A d \in Ctr, v \in Vol : d \in UsersOf(eng', v) => eng'.vol[v] # "none"
    <3>1. SUFFICES ASSUME NEW d \in Ctr, NEW v \in Vol, d \in UsersOf(eng', v)
                   PROVE  eng'.vol[v] # "none"
      OBVIOUS
    <3>2. CASE eng'.config[d] = eng.config[d]
      <4>1. d \in UsersOf(eng, v)
        BY <3>1, <3>2 DEF UsersOf, Exists
      <4> QED BY <1>4, <2>1, <4>1 DEF QuiescedInv
    <3>3. CASE eng'.config[d] = "drifted" /\ \A w \in Mounts[d]["drifted"] : eng'.vol[w] # "none"
      BY <3>1, <3>3 DEF UsersOf
    <3> QED BY <1>4, <3>2, <3>3
  <2> HIDE DEF Ordinary
  <2> QED BY <1>2, <1>3, <2>1, <2>2, <2>3, <2>4, <2>5 DEF QuiescedInv, UsersOf, Exists
<1>10. PlanInv'
  <2> HIDE DEF Ordinary
  <2> QED BY <1>2, <1>3 DEF IInv, PlanInv
<1>11. NoPartialObserved'
  <2>1. \A d \in Ctr \ foreign', v \in Vol :
          eng'.running[d] /\ d \in UsersOf(eng', v) => eng'.vol[v] # "partial"
    BY <1>4, <1>6 DEF IInv, NoPartialObserved
  <2> QED BY <2>1 DEF NoPartialObserved, UsersOf, Exists
<1> QED BY <1>5, <1>7, <1>8, <1>9, <1>10, <1>11, ZenonT(30) DEF IInv

(* The inductive invariant holds: ids identify configurations, half-written volumes are
   known, and who runs on a volume to be rewritten is in the plan.            *)
THEOREM InductiveInvariant == Spec => []IInv
<1>1. ASSUME IInv, [Next]_vars PROVE IInv'
  <2>1. CASE UNCHANGED vars
    <3>1. UNCHANGED <<Selected(req), NeedVols(req), Retags(live, req), Conflicts(live, req), Ordinary>>
      BY <2>1, Frame DEF vars, run
    <3> HIDE DEF Ordinary
    <3> QED BY <1>1, <2>1, <3>1 DEF vars, run, IInv, TypeOK, IdInv, VolumesInv, QuiescedInv,
                                    PlanInv, NoPartialObserved, Planned, UsersOf, Exists
  <2>2. CASE (\E r \in Requests : Fetch(r)) \/ Abort
    BY <1>1, <2>2, EndsPreserve
  <2>3. CASE Build
    BY <1>1, <2>3, BuildPreserves
  <2>4. CASE Consent \/ Checkpoint \/ Confirm
    BY <1>1, <2>4, PhaseSteps
  <2>5. CASE ApplyStep
    <3>1. plan.stop \subseteq Ids /\ plan.remove \subseteq Ids /\ plan.restart \subseteq Ids
      BY <1>1 DEF IInv, TypeOK, Plan
    <3>2. CASE \E m \in plan.stop : StopContainer(m[1], m[2])
      BY <1>1, <3>1, <3>2, StopSteps DEF Ids
    <3>3. CASE \E m \in plan.remove : RemoveContainer(m[1], m[2])
      BY <1>1, <3>1, <3>3, StopSteps DEF Ids
    <3>4. CASE \/ \E n \in Net : CreateNetwork(n)
               \/ \E i \in Image : LoadImage(i)
               \/ \E t \in Tag, i \in Image : TagImage(t, i)
      BY <1>1, <3>4, DependencySteps
    <3>5. CASE (\E v \in Vol : ClearVolume(v)) \/ FillVolume
      BY <1>1, <3>5, VolumeSteps
    <3>6. CASE \E c \in Ctr : CreateContainer(c)
      BY <1>1, <3>6, CreatePreserves
    <3>7. CASE \E c \in Ctr : StartContainer(c)
      BY <1>1, <3>7, StartSteps
    <3>8. CASE \E m \in plan.restart : RestartContainer(m[1], m[2])
      BY <1>1, <3>1, <3>8, StartSteps DEF Ids
    <3>9. CASE EndApply
      BY <1>1, <3>9, PhaseSteps
    <3> QED BY <2>5, <3>2, <3>3, <3>4, <3>5, <3>6, <3>7, <3>8, <3>9 DEF ApplyStep
  <2>6. CASE User
    BY <1>1, <2>6, UserSteps
  <2> QED BY <1>1, <2>1, <2>2, <2>3, <2>4, <2>5, <2>6 DEF Next
<1> QED BY <1>1, InitInvariant, PTL DEF Spec

(* Every variable keeps its type. *)
THEOREM TypeCorrect == Spec => []TypeOK
<1>1. IInv => TypeOK
  BY DEF IInv
<1> QED BY <1>1, InductiveInvariant, PTL

(* No container runs on a half-written volume, unless somebody else or a run that trusts
   names started it, across failures and runs for any scope.                  *)
THEOREM PartialIsUnobserved == Spec => []NoPartialObserved
<1>1. IInv => NoPartialObserved
  BY DEF IInv
<1> QED BY <1>1, InductiveInvariant, PTL

(* Nothing but filling it is done while a volume is half-written. *)
LEMMA FillsWhatItCleared == Spec => []FillingInv
<1>1. Init => FillingInv
  BY DEF Init, FillingInv
<1>2. ASSUME IInv, FillingInv, [Next]_vars PROVE FillingInv'
  <2>1. plan \in Plan /\ (phase # "apply" => filling = NoVol)
    BY <1>2 DEF IInv, TypeOK, VolumesInv
  <2>2. CASE UNCHANGED <<plan, filling>>
    BY <1>2, <2>2 DEF FillingInv
  <2>3. CASE (\E r \in Requests : Fetch(r)) \/ Abort \/ Build \/ FillVolume
    BY <2>1, <2>3 DEF Fetch, Abort, Build, FillVolume, FillingInv
  <2>4. ASSUME NEW v \in Vol, ClearVolume(v) PROVE FillingInv'
    BY <2>4 DEF ClearVolume, Before, K1, K2, K3, K4, FillingInv
  <2>5. ASSUME NEW c, NEW id, StopContainer(c, id) \/ RemoveContainer(c, id)
                              \/ RestartContainer(c, id)
        PROVE  FillingInv'
    BY <1>2, <2>1, <2>5
       DEF StopContainer, RemoveContainer, RestartContainer, Plan, FillingInv
  <2>6. ASSUME NEW n, CreateNetwork(n) \/ LoadImage(n) PROVE FillingInv'
    BY <1>2, <2>1, <2>6 DEF CreateNetwork, LoadImage, Plan, FillingInv
  <2>7. ASSUME NEW t, NEW i, TagImage(t, i) PROVE FillingInv'
    BY <1>2, <2>1, <2>7 DEF TagImage, Plan, FillingInv
  <2>8. ASSUME NEW c, CreateContainer(c) \/ StartContainer(c) PROVE FillingInv'
    BY <1>2, <2>1, <2>8 DEF CreateContainer, StartContainer, Plan, FillingInv
  <2>9. CASE ApplyStep
    BY <2>2, <2>3, <2>4, <2>5, <2>6, <2>7, <2>8, <2>9, ZenonT(30) DEF ApplyStep, EndApply
  <2>10. CASE User \/ Consent \/ Checkpoint \/ Confirm \/ UNCHANGED vars
    BY <2>2, <2>10 DEF User, UserStarts, UserStops, UserReplaces, ContainerWrites, UserTags,
                       Meddle, run, Consent, Checkpoint, Confirm, vars
  <2> QED BY <1>2, <2>3, <2>9, <2>10 DEF Next
<1> QED BY <1>1, <1>2, InductiveInvariant, PTL DEF Spec

(* While no other client acts, and the run is at its steps, the steps are Apply's. *)
LEMMA OnlyApplyActs ==
  ASSUME TypeOK, Next, phase = "apply", phase' = "apply", users' = users
  PROVE  ApplyStep /\ ~ EndApply
<1>1. ~ User
  <2>1. User => users' = users + 1
    BY DEF User, UserStarts, UserStops, UserReplaces, ContainerWrites, UserTags, Meddle
  <2>2. users \in Nat
    BY RollbackAssumption DEF TypeOK
  <2> QED BY <2>1, <2>2
<1> QED BY <1>1 DEF Next, Fetch, Consent, Build, Checkpoint, Confirm, Abort, EndApply

(* Apply destroys a container by removing it, and a volume by clearing it. *)
LEMMA WhatDestroys ==
  ASSUME IInv, FillingInv, ApplyStep
  PROVE  /\ \A c \in Ctr : Exists(eng, c) /\ ~ Exists(eng', c) =>
              \E id \in Nat : RemoveContainer(c, id)
         /\ \A v \in Vol : eng'.vol[v] = "partial" =>
              \/ eng.vol[v] = "partial" /\ v # filling
              \/ v \in plan.vols /\ filling = NoVol
<1> DEFINE Goal ==
      /\ \A c \in Ctr : Exists(eng, c) /\ ~ Exists(eng', c) =>
           \E id \in Nat : RemoveContainer(c, id)
      /\ \A v \in Vol : eng'.vol[v] = "partial" =>
           \/ eng.vol[v] = "partial" /\ v # filling
           \/ v \in plan.vols /\ filling = NoVol
<1>1. /\ TypeOK /\ eng \in Engine /\ plan \in Plan /\ \A v \in Vol : v # NoVol
      /\ eng.config \in [Ctr -> Configs \cup {"none"}]
      /\ eng.vol \in [Vol -> Contents \cup {"none"}] /\ filling \in plan.vols \cup {NoVol}
      /\ plan.stop \subseteq Ids /\ plan.remove \subseteq Ids /\ plan.restart \subseteq Ids
  BY RollbackAssumption DEF IInv, TypeOK, Engine, Plan
<1>2. CASE eng'.config = eng.config /\ eng'.vol = eng.vol /\ filling = NoVol
  BY <1>1, <1>2 DEF Exists
<1>3. ASSUME NEW c \in Ctr, NEW id \in Nat, StopContainer(c, id) \/ RestartContainer(c, id)
      PROVE  Goal
  <2>1. filling = NoVol
    BY <1>1, <1>3 DEF StopContainer, RestartContainer, Before, FillingInv, K1, K2, K3, K4, K5,
                      K6, K7
  <2>2. \E b \in BOOLEAN : eng' = [eng EXCEPT !.running[c] = b]
    BY <1>3 DEF StopContainer, RestartContainer, Started
  <2>3. eng'.config = eng.config /\ eng'.vol = eng.vol
    BY <1>1, <2>2 DEF Engine
  <2> QED BY <1>2, <2>1, <2>3
<1>4. ASSUME NEW c \in Ctr, NEW id \in Nat, RemoveContainer(c, id)
      PROVE  Goal
  <2>1. /\ filling = NoVol /\ eng' = [eng EXCEPT !.config[c] = "none", !.running[c] = FALSE]
    BY <1>1, <1>4 DEF RemoveContainer, FillingInv
  <2>2. eng'.vol = eng.vol /\ \A d \in Ctr : d # c => eng'.config[d] = eng.config[d]
    BY <1>1, <2>1 DEF Engine
  <2> QED BY <1>1, <1>4, <2>1, <2>2 DEF Exists
<1>5. ASSUME \/ \E n \in Net : CreateNetwork(n)
             \/ \E i \in Image : LoadImage(i)
             \/ \E t \in Tag, i \in Image : TagImage(t, i)
      PROVE  Goal
  <2>1. filling = NoVol
    BY <1>1, <1>5 DEF CreateNetwork, LoadImage, TagImage, FillingInv
  <2>2. \/ \E n \in Net : eng' = [eng EXCEPT !.nets = @ \cup {n}]
        \/ \E i \in Image : eng' = [eng EXCEPT !.images = @ \cup {i}]
        \/ \E t \in Tag, i \in Image : eng' = [eng EXCEPT !.tag[t] = i]
    BY <1>5 DEF CreateNetwork, LoadImage, TagImage
  <2>3. eng'.config = eng.config /\ eng'.vol = eng.vol
    BY <1>1, <2>2 DEF Engine
  <2> QED BY <1>2, <2>1, <2>3
<1>6. ASSUME NEW v \in Vol, ClearVolume(v) PROVE Goal
  <2>1. v \in plan.vols /\ filling = NoVol /\ eng' = [eng EXCEPT !.vol[v] = "partial"]
    BY <1>6 DEF ClearVolume
  <2>2. eng'.config = eng.config /\ \A w \in Vol : w # v => eng'.vol[w] = eng.vol[w]
    BY <1>1, <2>1 DEF Engine
  <2> QED BY <1>1, <2>1, <2>2 DEF Exists
<1>7. ASSUME FillVolume PROVE Goal
  <2>1. filling \in Vol /\ eng' = [eng EXCEPT !.vol[filling] = "recorded"]
    BY <1>1, <1>7 DEF FillVolume, Plan
  <2>2. /\ eng'.config = eng.config /\ eng'.vol[filling] = "recorded"
        /\ \A w \in Vol : w # filling => eng'.vol[w] = eng.vol[w]
    BY <1>1, <2>1 DEF Engine
  <2> QED BY <1>1, <2>1, <2>2 DEF Exists
<1>8. ASSUME NEW c \in Ctr, CreateContainer(c) PROVE Goal
  <2>1. /\ filling = NoVol
        /\ eng' = [eng EXCEPT
             !.config[c] = "recorded", !.image[c] = Resolved(c), !.running[c] = FALSE,
             !.id[c] = @ + 1,
             !.vol = [v \in Vol |-> IF v \in Mounts[c]["recorded"] /\ @[v] = "none"
                                    THEN "drifted" ELSE @[v]]]
    BY <1>1, <1>8 DEF CreateContainer, Before, K1, K2, K3, K4, K5
  <2>2. /\ eng'.config[c] = "recorded" /\ \A d \in Ctr : d # c => eng'.config[d] = eng.config[d]
        /\ \A v \in Vol : eng'.vol[v] \in {"drifted", eng.vol[v]}
    BY <1>1, <2>1 DEF Engine
  <2> QED BY <1>1, <2>1, <2>2 DEF Exists
<1>9. ASSUME NEW c \in Ctr, StartContainer(c) PROVE Goal
  <2>1. filling = NoVol /\ eng' = [eng EXCEPT !.running[c] = TRUE]
    BY <1>1, <1>9 DEF StartContainer, Started, Before, K1, K2, K3, K4, K5, K6
  <2>2. eng'.config = eng.config /\ eng'.vol = eng.vol
    BY <1>1, <2>1 DEF Engine
  <2> QED BY <1>2, <2>1, <2>2
<1>10. ASSUME EndApply PROVE Goal
  <2>1. filling = NoVol
    BY <1>1, <1>10 DEF EndApply, NoPlan
  <2> QED BY <1>2, <1>10, <2>1 DEF EndApply
<1> HIDE DEF Goal
<1>11. ASSUME NEW m \in Ids,
              StopContainer(m[1], m[2]) \/ RemoveContainer(m[1], m[2])
                \/ RestartContainer(m[1], m[2])
       PROVE  Goal
  BY <1>3, <1>4, <1>11 DEF Ids
<1>12. Goal
  BY <1>1, <1>5, <1>6, <1>7, <1>8, <1>9, <1>10, <1>11 DEF ApplyStep
<1> QED BY <1>12 DEF Goal

(* What a step removes or clears, the checkpoint of this run has as it is. *)
THEOREM CheckpointHasWhatIsDestroyed == Spec => DestroysOnlyCheckpointed
<1>1. ASSUME IInv, FillingInv, [Next]_vars PROVE [Recoverable]_vars
  <2>1. SUFFICES ASSUME Next, phase = "apply", phase' = "apply", users' = users
                 PROVE  Recoverable
    BY <1>1 DEF Recoverable
  <2>2. TypeOK /\ \A v \in Vol : v # NoVol
    BY <1>1, RollbackAssumption DEF IInv
  <2>3. ApplyStep
    BY <2>1, <2>2, OnlyApplyActs
  <2>4. ASSUME NEW c \in Ctr, NEW id \in Nat, RemoveContainer(c, id)
        PROVE  cp.config[c] = eng.config[c] /\ cp.id[c] = eng.id[c]
    <3>1. <<c, id>> \in plan.remove /\ eng.id[c] = id /\ Exists(eng, c)
      BY <2>4 DEF RemoveContainer, Is
    <3>2. id = live.id[c]
      BY <1>1, <3>1 DEF IInv, PlanInv
    <3>3. live.id[c] <= cp.id[c] /\ cp.id[c] <= eng.id[c] /\ cp.id[c] \in Nat
      BY <1>1, <2>2 DEF IInv, IdInv, TypeOK, Engine
    <3>4. cp.id[c] = eng.id[c]
      BY <3>1, <3>2, <3>3
    <3> QED BY <1>1, <3>1, <3>4 DEF IInv, IdInv
  <2>5. \A v \in Vol \ meddled : eng'.vol[v] = "partial" => cp.vol[v] = eng.vol[v]
    <3>1. \A v \in Vol : eng'.vol[v] = "partial" =>
            \/ eng.vol[v] = "partial" /\ v # filling
            \/ v \in plan.vols /\ filling = NoVol
      BY <1>1, <2>3, WhatDestroys
    <3> QED BY <1>1, <2>2, <3>1 DEF IInv, VolumesInv
  <2>6. \A c \in Ctr : Exists(eng, c) /\ ~ Exists(eng', c) =>
          \E id \in Nat : RemoveContainer(c, id)
    BY <1>1, <2>3, WhatDestroys
  <2>7. \A c \in Ctr : Exists(eng, c) /\ ~ Exists(eng', c) =>
          cp.config[c] = eng.config[c] /\ cp.id[c] = eng.id[c]
    BY <2>4, <2>6
  <2>8. \A v \in Vol \ (Anonymous \cup meddled) :
          eng.vol[v] # "none" /\ eng'.vol[v] = "partial" => cp.vol[v] = eng.vol[v]
    BY <2>5
  <2> QED BY <2>7, <2>8 DEF Recoverable, Exists
<1> QED BY <1>1, InductiveInvariant, FillsWhatItCleared, PTL
       DEF Spec, DestroysOnlyCheckpointed

(* No name means two images to a run. *)
LEMMA NamesAreUnique ==
  ASSUME Unambiguous, TypeOK, NEW m \in NeedTags(live, req), NEW n \in NeedTags(live, req),
         m[1] = n[1]
  PROVE  m = n
<1>1. /\ snap \in Snapshots /\ req \in Requests
      /\ Recreate(live, req) \subseteq req.ctrs \cap snap.ctrs
  BY DEF TypeOK, Recreate, Selected
<1>2. m \in Tag \X Image /\ n \in Tag \X Image /\ m[1] # NoTag
  BY SnapFacts, RollbackAssumption DEF NeedTags
<1> DEFINE D == req.ctrs \cap snap.ctrs
<1>3. /\ \/ m[2] \in req.images /\ snap.tag[m[1]] = m[2]
         \/ \E c \in D : snap.ref[c] = m[1] /\ snap.image[c] = m[2]
      /\ \/ n[2] \in req.images /\ snap.tag[n[1]] = n[2]
         \/ \E c \in D : snap.ref[c] = n[1] /\ snap.image[c] = n[2]
  BY <1>1 DEF NeedTags
<1>4. \A c \in D : snap.ref[c] = m[1] =>
        /\ \A d \in D : snap.ref[d] = m[1] => snap.image[d] = snap.image[c]
        /\ snap.tag[m[1]] \in req.images => snap.tag[m[1]] = snap.image[c]
  BY <1>1, <1>2 DEF Unambiguous
<1> HIDE DEF D
<1>5. m[2] = n[2]
  BY <1>2, <1>3, <1>4
<1> QED BY <1>2, <1>5

(* A name the plan is still to move is where the run found it. *)
LEMMA NamesPreserve ==
  ASSUME Unambiguous, IInv, NamesInv, [Next]_vars
  PROVE  NamesInv'
<1>1. /\ TypeOK /\ live \in Engine /\ plan \in Plan /\ eng \in Engine
      /\ plan.tags \subseteq NeedTags(live, req) /\ PlanInv
  BY DEF IInv, PlanInv, TypeOK, Retags
<1>2. ASSUME UNCHANGED <<phase, live, req, touched>>, plan'.tags \subseteq plan.tags,
             eng'.tag = eng.tag
      PROVE  NamesInv'
  BY <1>2 DEF NamesInv, Ordinary, ByName
<1>3. CASE UNCHANGED vars
  BY <1>2, <1>3 DEF vars, run
<1>4. CASE (\E r \in Requests : Fetch(r)) \/ Abort
  <2>1. live' = eng /\ eng' = eng /\ plan'.tags = {}
    BY <1>4 DEF Fetch, Abort, NoPlan
  <2> QED BY <2>1 DEF NamesInv
<1>5. CASE Build
  <2>1. /\ phase = "compare" /\ phase' \notin {"consent", "compare"}
        /\ UNCHANGED <<live, req, touched, eng>>
    BY <1>5 DEF Build
  <2>2. NamesInv' \/ (Ordinary /\ \A t \in Tag \ touched : eng.tag[t] = live.tag[t])
    BY <2>1 DEF NamesInv, Ordinary, ByName
  <2> QED BY <2>1, <2>2 DEF NamesInv
<1>6. CASE Consent \/ Checkpoint \/ Confirm \/ EndApply
  <2>1. /\ UNCHANGED <<live, req, touched, eng, plan>>
        /\ phase' \in {"consent", "compare"} => phase = "consent"
    BY <1>6 DEF Consent, Checkpoint, Confirm, EndApply
  <2> QED BY <2>1 DEF NamesInv, Ordinary, ByName
<1>7. CASE User
  <2>1. /\ UNCHANGED <<phase, live, req, plan>>
        /\ \A t \in Tag \ touched' : t \notin touched /\ eng'.tag[t] = eng.tag[t]
    <3>1. UNCHANGED <<phase, live, req, plan>> /\ touched \subseteq touched'
      BY <1>7 DEF User, UserStarts, UserStops, UserReplaces, ContainerWrites, UserTags, Meddle, run
    <3>2. \/ eng'.tag = eng.tag
          \/ \E t \in Tag, i \in Image : eng' = [eng EXCEPT !.tag[t] = i] /\ t \in touched'
      <4>1. CASE \E t \in Tag, i \in Image : UserTags(t, i)
        BY <4>1 DEF UserTags, Meddle
      <4>2. CASE \E c \in Ctr : UserStarts(c) \/ UserStops(c) \/ UserReplaces(c)
        <5>1. ASSUME NEW c \in Ctr, UserStarts(c) \/ UserStops(c) PROVE eng'.tag = eng.tag
          BY <1>1, <5>1 DEF UserStarts, UserStops, Engine
        <5>2. ASSUME NEW c \in Ctr, UserReplaces(c) PROVE eng'.tag = eng.tag
          BY <1>1, <5>2 DEF UserReplaces, Engine
        <5> QED BY <4>2, <5>1, <5>2
      <4>3. CASE \E c \in Ctr, v \in Vol : ContainerWrites(c, v)
        BY <1>1, <4>3 DEF ContainerWrites, Engine
      <4> QED BY <1>7, <4>1, <4>2, <4>3 DEF User
    <3>3. \A t \in Tag \ touched' : eng'.tag[t] = eng.tag[t]
      <4>1. CASE eng'.tag = eng.tag
        BY <4>1
      <4>2. CASE \E t \in Tag, i \in Image : eng' = [eng EXCEPT !.tag[t] = i] /\ t \in touched'
        BY <1>1, <4>2 DEF Engine
      <4> QED BY <3>2, <4>1, <4>2
    <3>4. \A t \in Tag \ touched' : t \notin touched
      BY <3>1
    <3> QED BY <3>1, <3>3, <3>4, Zenon
  <2> QED BY <2>1 DEF NamesInv, Ordinary, ByName
<1>8. CASE ApplyStep /\ ~ EndApply
  <2>1. ASSUME NEW t \in Tag, NEW i \in Image, TagImage(t, i) PROVE NamesInv'
    <3>1. /\ <<t, i>> \in plan.tags /\ eng' = [eng EXCEPT !.tag[t] = i]
          /\ plan' = [plan EXCEPT !.tags = @ \ {<<t, i>>}]
          /\ UNCHANGED <<phase, live, req, touched>> /\ phase = "apply"
      BY <2>1 DEF TagImage, kept, Before
    <3>2. /\ plan'.tags = plan.tags \ {<<t, i>>}
          /\ \A u \in Tag : u # t => eng'.tag[u] = eng.tag[u]
      BY <1>1, <3>1 DEF Plan, Engine
    <3>3. \A j \in Image : <<t, j>> \notin plan'.tags
      BY <1>1, <3>1, <3>2, NamesAreUnique
    <3>4. \A u \in Tag, j \in Image : <<u, j>> \in plan'.tags =>
            u # t /\ <<u, j>> \in plan.tags /\ eng'.tag[u] = eng.tag[u]
      BY <3>2, <3>3
    <3> QED BY <3>1, <3>4 DEF NamesInv, Ordinary, ByName
  <2>2. ASSUME NEW m \in Ids, StopContainer(m[1], m[2]) \/ RemoveContainer(m[1], m[2])
                                \/ RestartContainer(m[1], m[2])
        PROVE  NamesInv'
    <3>1. UNCHANGED <<phase, live, req, touched>>
      BY <2>2 DEF StopContainer, RemoveContainer, RestartContainer, kept
    <3>2. plan'.tags = plan.tags /\ eng'.tag = eng.tag
      <4>1. CASE StopContainer(m[1], m[2])
        BY <1>1, <4>1 DEF StopContainer, Engine, Plan
      <4>2. CASE RemoveContainer(m[1], m[2])
        BY <1>1, <4>2 DEF RemoveContainer, Engine, Plan
      <4>3. CASE RestartContainer(m[1], m[2])
        BY <1>1, <4>3 DEF RestartContainer, Started, Engine, Plan
      <4> QED BY <2>2, <4>1, <4>2, <4>3
    <3> QED BY <1>2, <3>1, <3>2
  <2>3. ASSUME NEW n, CreateNetwork(n) \/ LoadImage(n) \/ ClearVolume(n) \/ StartContainer(n)
        PROVE  NamesInv'
    <3>1. UNCHANGED <<phase, live, req, touched>>
      BY <2>3 DEF CreateNetwork, LoadImage, ClearVolume, StartContainer, kept
    <3>2. plan'.tags = plan.tags /\ eng'.tag = eng.tag
      BY <1>1, <2>3 DEF CreateNetwork, LoadImage, ClearVolume, StartContainer, Started, Engine, Plan
    <3> QED BY <1>2, <3>1, <3>2
  <2>4. ASSUME FillVolume PROVE NamesInv'
    <3>1. UNCHANGED <<phase, live, req, touched>> /\ plan'.tags = plan.tags /\ eng'.tag = eng.tag
      BY <1>1, <2>4 DEF FillVolume, kept, Engine, Plan
    <3> QED BY <1>2, <3>1
  <2>5. ASSUME NEW c \in Ctr, CreateContainer(c) PROVE NamesInv'
    <3>1. UNCHANGED <<phase, live, req, touched>> /\ plan'.tags = plan.tags /\ eng'.tag = eng.tag
      BY <1>1, <2>5 DEF CreateContainer, kept, Engine, Plan
    <3> QED BY <1>2, <3>1
  <2>6. plan.stop \subseteq Ids /\ plan.remove \subseteq Ids /\ plan.restart \subseteq Ids
    BY <1>1 DEF Plan
  <2> QED BY <1>8, <2>1, <2>2, <2>3, <2>4, <2>5, <2>6 DEF ApplyStep
<1> QED BY <1>3, <1>4, <1>5, <1>6, <1>7, <1>8 DEF Next

(* Where no name means two images, a name in use is moved only with consent. *)
THEOREM NamesAreAskedFor ==
  ASSUME Unambiguous
  PROVE  Spec => NamesMoveWithConsent
<1>1. Init => NamesInv
  BY DEF Init, NamesInv, NoPlan
<1>2. IInv /\ NamesInv /\ [Next]_vars => NamesInv'
  BY NamesPreserve
<1>3. ASSUME IInv, NamesInv, [Next]_vars PROVE [Consented]_vars
  <2>1. SUFFICES ASSUME Next, users' = users,
                        NEW t \in Tag \ touched, eng.tag[t] # NoImage, eng'.tag[t] # eng.tag[t]
                 PROVE  consent
    BY <1>3 DEF Consented
  <2>2. TypeOK /\ eng \in Engine /\ PlanInv
    BY <1>3 DEF IInv, TypeOK
  <2>3. phase = "apply" /\ phase' = "apply"
    <3>1. ~ User
      <4>1. User => users' = users + 1
        BY DEF User, UserStarts, UserStops, UserReplaces, ContainerWrites, UserTags, Meddle
      <4>2. users \in Nat
        BY <2>2, RollbackAssumption DEF TypeOK
      <4> QED BY <2>1, <4>1, <4>2
    <3>2. ~ (Consent \/ Build \/ Checkpoint \/ Confirm \/ Abort \/ EndApply
               \/ \E r \in Requests : Fetch(r))
      BY <2>1 DEF Consent, Build, Checkpoint, Confirm, Abort, EndApply, Fetch
    <3>3. ApplyStep /\ ~ EndApply
      BY <2>1, <3>1, <3>2 DEF Next
    <3> QED BY <3>3 DEF ApplyStep, StopContainer, RemoveContainer, CreateNetwork, LoadImage,
                        TagImage, ClearVolume, FillVolume, CreateContainer, StartContainer,
                        RestartContainer, Before, kept
  <2>4. \E i \in Image : <<t, i>> \in plan.tags /\ eng'.tag[t] = i
    <3>1. ApplyStep /\ ~ EndApply
      BY <2>1, <2>2, <2>3, OnlyApplyActs
    <3>2. ASSUME NEW u \in Tag, NEW i \in Image, TagImage(u, i)
          PROVE  \E j \in Image : <<t, j>> \in plan.tags /\ eng'.tag[t] = j
      <4>1. <<u, i>> \in plan.tags /\ eng' = [eng EXCEPT !.tag[u] = i]
        BY <3>2 DEF TagImage
      <4>2. u = t
        BY <2>1, <2>2, <4>1 DEF Engine
      <4>3. eng'.tag[t] = i
        BY <2>1, <2>2, <4>1, <4>2 DEF Engine
      <4> QED BY <4>1, <4>2, <4>3
    <3>3. ASSUME NEW m, StopContainer(m[1], m[2]) \/ RemoveContainer(m[1], m[2])
                          \/ RestartContainer(m[1], m[2])
          PROVE  eng'.tag = eng.tag
      BY <2>2, <3>3 DEF StopContainer, RemoveContainer, RestartContainer, Started, Engine
    <3>4. ASSUME NEW n, CreateNetwork(n) \/ LoadImage(n) \/ ClearVolume(n) \/ StartContainer(n)
                          \/ CreateContainer(n) \/ FillVolume
          PROVE  eng'.tag = eng.tag
      BY <2>2, <3>4 DEF CreateNetwork, LoadImage, ClearVolume, StartContainer, CreateContainer,
                        FillVolume, Started, Engine
    <3> QED BY <2>1, <3>1, <3>2, <3>3, <3>4 DEF ApplyStep
  <2>5. PICK i \in Image : <<t, i>> \in plan.tags /\ eng'.tag[t] = i
    BY <2>4
  <2>6. Ordinary /\ <<t, i>> \in Retags(live, req)
    BY <2>2, <2>5 DEF PlanInv
  <2>7. live.tag[t] = eng.tag[t]
    BY <1>3, <2>5, <2>6 DEF NamesInv
  <2>8. <<t, i>> \in Conflicts(live, req)
    BY <2>1, <2>5, <2>6, <2>7 DEF Conflicts, Retags
  <2> QED BY <2>2, <2>3, <2>6, <2>8 DEF PlanInv
<1> QED BY <1>1, <1>2, <1>3, InductiveInvariant, PTL DEF Spec, NamesMoveWithConsent

(* A plan accounts for all that is not as the snapshot has it. *)
LEMMA BuildAccounts ==
  ASSUME IInv, CalmInv, Build
  PROVE  CalmInv'
<1>1. SUFFICES ASSUME Calm, Ordinary
               PROVE  CalmInv'
  BY DEF CalmInv, Build, Calm, Ordinary, ByName
<1>2. /\ phase = "compare" /\ phase' \in {"done", "confirm", "checkpoint"}
      /\ phase' = "done" => plan' = NoPlan
      /\ UNCHANGED <<snap, eng, req, live, touched>>
  BY DEF Build
<1>3. TypeOK /\ live \in Engine /\ live.id \in [Ctr -> Nat] /\ Untouched
      /\ live.running \in [Ctr -> BOOLEAN]
  BY <1>1, <1>2 DEF IInv, TypeOK, Engine, CalmInv
<1>4. PICK V \in SUBSET NeedVols(req) :
        /\ plan' = OrdinaryPlan(live, req, V)
        /\ \A v \in NeedVols(req) \ V : eng.vol[v] = "recorded"
  BY <1>1 DEF Build, Ordinary, ByName
<1>5. UNCHANGED <<Selected(req), NeedVols(req), NeedNets(req), Recreate(live, req),
                  NeedImages(live, req), NeedTags(live, req), Ordinary>>
  BY <1>2, Frame
<1> DEFINE Q == Quiesce(live, req, V)
           S == ToStop(live, req)
           T == ToStart(live, req)
           R == Replaced(live, req)
           C == Recreate(live, req)
<1>6. /\ plan'.stop = WithId(live, Q \cup S) /\ plan'.remove = WithId(live, R)
      /\ plan'.restart = WithId(live, (Q \ S) \cup T)
      /\ Q \cup S \in SUBSET Ctr /\ R \in SUBSET Ctr /\ (Q \ S) \cup T \in SUBSET Ctr
      /\ plan'.nets = NeedNets(req) \ live.nets
      /\ plan'.load = NeedImages(live, req) \ live.images
      /\ plan'.tags = Retags(live, req) /\ plan'.vols = V
      /\ plan'.create = C /\ plan'.start = C \cap snap.running
  BY <1>3, <1>4, OrdinaryPlanFacts
<1>7. C \subseteq Selected(req)
  BY <1>3, SnapFacts
<1>8. /\ \A c \in Ctr : c \in C => c \notin Q /\ c \notin S /\ c \notin T
      /\ \A c \in Ctr : c \notin C => c \notin R
      /\ \A c \in S : c \in Selected(req) /\ c \notin snap.running
      /\ \A c \in T : c \in Selected(req) /\ c \in snap.running
      /\ \A c \in Q : live.running[c]
      /\ \A c \in Selected(req) \ C :
           /\ live.running[c] /\ c \notin snap.running => c \in S
           /\ ~ live.running[c] /\ c \in snap.running => c \in T
  BY DEF Quiesce, Replaced, UsersOf, ToStop, ToStart, Kept
<1> HIDE DEF Q, S, T, R, C
<1>9. /\ \A c \in Ctr : <<c, live.id[c]>> \in plan'.stop <=> c \in Q \cup S
      /\ \A c \in Ctr : <<c, live.id[c]>> \in plan'.remove <=> c \in R
      /\ \A c \in Ctr : <<c, live.id[c]>> \in plan'.restart <=> c \in (Q \ S) \cup T
  BY <1>3, <1>6, WithIdFacts
<1>10. ASSUME NEW c \in Ctr PROVE Accounted(c)'
  <2>1. c \in C =>
          /\ <<c, live.id[c]>> \notin plan'.stop /\ <<c, live.id[c]>> \notin plan'.restart
          /\ c \in plan'.create
          /\ c \in plan'.start <=> c \in snap.running
    BY <1>6, <1>8, <1>9
  <2>2. c \notin C =>
          /\ <<c, live.id[c]>> \notin plan'.remove
          /\ c \notin plan'.create /\ c \notin plan'.start
          /\ <<c, live.id[c]>> \in plan'.restart => ShouldRun(c)
          /\ <<c, live.id[c]>> \in plan'.stop /\ <<c, live.id[c]>> \notin plan'.restart
               => ~ ShouldRun(c)
          /\ <<c, live.id[c]>> \notin plan'.stop /\ <<c, live.id[c]>> \notin plan'.restart
               => (eng.running[c] <=> ShouldRun(c))
    <3>1. live.running[c] \in BOOLEAN /\ eng.running[c] = live.running[c]
      BY <1>3 DEF Untouched
    <3>2. CASE c \in Selected(req)
      BY <1>6, <1>8, <1>9, <3>1, <3>2 DEF ShouldRun
    <3>3. CASE c \notin Selected(req)
      BY <1>6, <1>8, <1>9, <3>1, <3>3 DEF ShouldRun
    <3> QED BY <3>2, <3>3
  <2>3. eng.config = live.config /\ eng.image = live.image /\ eng.id = live.id
    BY <1>3 DEF Untouched
  <2>4. ShouldRun(c)' = ShouldRun(c) /\ (c \in Recreate(live, req)' <=> c \in C)
    BY <1>2, <1>5 DEF ShouldRun, C
  <2> QED BY <1>2, <2>1, <2>2, <2>3, <2>4 DEF Accounted
<1>11. /\ \A v \in NeedVols(req) \ plan'.vols : eng.vol[v] = "recorded"
       /\ NeedNets(req) \subseteq plan'.nets \cup eng.nets
       /\ NeedImages(live, req) \subseteq plan'.load \cup eng.images
       /\ \A m \in NeedTags(live, req) : m \in plan'.tags \/ eng.tag[m[1]] = m[2]
  BY <1>3, <1>4, <1>6 DEF Untouched, Retags
<1> QED BY <1>2, <1>5, <1>10, <1>11 DEF CalmInv

(* A container that a step leaves alone stays accounted for. *)
LEMMA OthersAccounted ==
  ASSUME UNCHANGED <<snap, live, req>>, NEW d \in Ctr, Accounted(d),
         eng'.config[d] = eng.config[d], eng'.image[d] = eng.image[d],
         eng'.running[d] = eng.running[d], eng'.id[d] = eng.id[d],
         <<d, live.id[d]>> \in plan'.stop <=> <<d, live.id[d]>> \in plan.stop,
         <<d, live.id[d]>> \in plan'.remove <=> <<d, live.id[d]>> \in plan.remove,
         <<d, live.id[d]>> \in plan'.restart <=> <<d, live.id[d]>> \in plan.restart,
         d \in plan'.create <=> d \in plan.create, d \in plan'.start <=> d \in plan.start
  PROVE  Accounted(d)'
<1>1. UNCHANGED <<Selected(req), Recreate(live, req)>>
  BY Frame
<1>2. ShouldRun(d)' = ShouldRun(d)
  BY <1>1 DEF ShouldRun
<1> QED BY <1>1, <1>2 DEF Accounted

(* What is accounted for while the steps are applied. *)
Accounts ==
  /\ \A c \in Ctr : Accounted(c)
  /\ \A v \in NeedVols(req) \ plan.vols : eng.vol[v] = "recorded"
  /\ NeedNets(req) \subseteq plan.nets \cup eng.nets
  /\ NeedImages(live, req) \subseteq plan.load \cup eng.images
  /\ \A m \in NeedTags(live, req) : m \in plan.tags \/ eng.tag[m[1]] = m[2]

(* Each step does what the plan owes, and nothing else. *)
LEMMA ContainerStepsAccount ==
  ASSUME IInv, Accounts, NEW c \in Ctr, NEW id \in Nat,
         StopContainer(c, id) \/ RemoveContainer(c, id) \/ RestartContainer(c, id)
           \/ StartContainer(c),
         UNCHANGED <<snap, live, req>>
  PROVE  Accounts'
<1>1. /\ TypeOK /\ eng \in Engine /\ plan \in Plan
      /\ eng.running \in [Ctr -> BOOLEAN] /\ eng.config \in [Ctr -> Configs \cup {"none"}]
  BY DEF IInv, TypeOK, Engine
<1>2. UNCHANGED <<NeedVols(req), NeedNets(req), NeedImages(live, req), NeedTags(live, req),
                  Recreate(live, req), Selected(req)>>
  BY Frame
<1>3. /\ eng'.vol = eng.vol /\ eng'.nets = eng.nets /\ eng'.images = eng.images
      /\ eng'.tag = eng.tag /\ eng'.image = eng.image /\ eng'.id = eng.id
      /\ plan'.vols = plan.vols /\ plan'.nets = plan.nets /\ plan'.load = plan.load
      /\ plan'.tags = plan.tags /\ plan'.create = plan.create
      /\ \A d \in Ctr : d # c =>
           /\ eng'.config[d] = eng.config[d] /\ eng'.running[d] = eng.running[d]
           /\ <<d, live.id[d]>> \in plan'.stop <=> <<d, live.id[d]>> \in plan.stop
           /\ <<d, live.id[d]>> \in plan'.remove <=> <<d, live.id[d]>> \in plan.remove
           /\ <<d, live.id[d]>> \in plan'.restart <=> <<d, live.id[d]>> \in plan.restart
           /\ d \in plan'.start <=> d \in plan.start
  <2>1. CASE StopContainer(c, id)
    <3>1. eng' = [eng EXCEPT !.running[c] = FALSE] /\ plan' = [plan EXCEPT !.stop = @ \ {<<c, id>>}]
      BY <2>1 DEF StopContainer
    <3> QED BY <1>1, <3>1 DEF Engine, Plan
  <2>2. CASE RemoveContainer(c, id)
    <3>1. /\ eng' = [eng EXCEPT !.config[c] = "none", !.running[c] = FALSE]
          /\ plan' = [plan EXCEPT !.remove = @ \ {<<c, id>>}]
      BY <2>2 DEF RemoveContainer
    <3> QED BY <1>1, <3>1 DEF Engine, Plan
  <2>3. CASE RestartContainer(c, id)
    <3>1. eng' = [eng EXCEPT !.running[c] = TRUE] /\ plan' = [plan EXCEPT !.restart = @ \ {<<c, id>>}]
      BY <2>3 DEF RestartContainer, Started
    <3> QED BY <1>1, <3>1 DEF Engine, Plan
  <2>4. CASE StartContainer(c)
    <3>1. eng' = [eng EXCEPT !.running[c] = TRUE] /\ plan' = [plan EXCEPT !.start = @ \ {c}]
      BY <2>4 DEF StartContainer, Started
    <3> QED BY <1>1, <3>1 DEF Engine, Plan
  <2> QED BY <2>1, <2>2, <2>3, <2>4
<1>4. \A d \in Ctr : d # c => Accounted(d)'
  BY <1>3, OthersAccounted DEF Accounts
<1>5. Accounted(c)
  BY DEF Accounts
<1>6. Accounted(c)'
  <2>1. ShouldRun(c)' = ShouldRun(c)
    BY <1>2 DEF ShouldRun
  <2>2. CASE StopContainer(c, id)
    <3>1. /\ <<c, live.id[c]>> \in plan.stop /\ id = live.id[c]
          /\ eng' = [eng EXCEPT !.running[c] = FALSE]
          /\ plan' = [plan EXCEPT !.stop = @ \ {<<c, id>>}]
      BY <2>2 DEF StopContainer, IInv, PlanInv
    <3>2. /\ eng'.running[c] = FALSE /\ eng'.config = eng.config
          /\ plan'.stop = plan.stop \ {<<c, live.id[c]>>}
          /\ plan'.remove = plan.remove /\ plan'.restart = plan.restart
          /\ plan'.start = plan.start
      BY <1>1, <3>1 DEF Engine, Plan
    <3>3. c \notin Recreate(live, req)
      BY <1>5, <3>1 DEF Accounted
    <3>4. <<c, live.id[c]>> \notin plan.restart => ~ ShouldRun(c)
      BY <1>5, <3>1, <3>3 DEF Accounted
    <3> QED BY <1>2, <1>3, <1>5, <2>1, <3>2, <3>3, <3>4 DEF Accounted
  <2>3. CASE RemoveContainer(c, id)
    <3>1. /\ <<c, live.id[c]>> \in plan.remove /\ id = live.id[c]
          /\ eng' = [eng EXCEPT !.config[c] = "none", !.running[c] = FALSE]
          /\ plan' = [plan EXCEPT !.remove = @ \ {<<c, id>>}]
      BY <2>3 DEF RemoveContainer, IInv, PlanInv
    <3>2. /\ plan'.remove = plan.remove \ {<<c, live.id[c]>>}
          /\ plan'.stop = plan.stop /\ plan'.restart = plan.restart
          /\ plan'.start = plan.start
      BY <1>1, <3>1 DEF Plan
    <3>3. c \in Recreate(live, req) /\ c \in plan.create
      BY <1>5, <3>1 DEF Accounted
    <3> QED BY <1>2, <1>3, <1>5, <3>2, <3>3 DEF Accounted
  <2>4. CASE RestartContainer(c, id)
    <3>1. /\ <<c, live.id[c]>> \in plan.restart /\ id = live.id[c] /\ plan.stop = {}
          /\ eng' = [eng EXCEPT !.running[c] = TRUE]
          /\ plan' = [plan EXCEPT !.restart = @ \ {<<c, id>>}]
      BY <2>4 DEF RestartContainer, Started, Before, K1, K2, K3, K4, K5, K6, K7, IInv, QuiescedInv
    <3>2. /\ eng'.running[c] = TRUE /\ eng'.config = eng.config
          /\ plan'.restart = plan.restart \ {<<c, live.id[c]>>}
          /\ plan'.remove = plan.remove /\ plan'.stop = {} /\ plan'.start = plan.start
      BY <1>1, <3>1 DEF Engine, Plan
    <3>3. c \notin Recreate(live, req) /\ ShouldRun(c)
      BY <1>5, <3>1 DEF Accounted
    <3> QED BY <1>2, <1>3, <1>5, <2>1, <3>2, <3>3 DEF Accounted
  <2>5. CASE StartContainer(c)
    <3>1. /\ c \in plan.start /\ plan.create = {}
          /\ eng' = [eng EXCEPT !.running[c] = TRUE]
          /\ plan' = [plan EXCEPT !.start = @ \ {c}]
      BY <2>5 DEF StartContainer, Started, Before, K1, K2, K3, K4, K5, K6
    <3>2. /\ eng'.running[c] = TRUE /\ eng'.config = eng.config
          /\ plan'.start = plan.start \ {c}
          /\ plan'.remove = plan.remove /\ plan'.stop = plan.stop
          /\ plan'.restart = plan.restart
      BY <1>1, <3>1 DEF Engine, Plan
    <3>3. c \in Recreate(live, req) /\ c \in snap.running
      BY <1>5, <3>1 DEF Accounted
    <3>4. c \notin plan'.create /\ c \notin plan'.start
      BY <1>3, <3>1, <3>2
    <3> QED BY <1>2, <1>3, <1>5, <3>1, <3>2, <3>3, <3>4 DEF Accounted
  <2> QED BY <2>2, <2>3, <2>4, <2>5
<1> QED BY <1>2, <1>3, <1>4, <1>6 DEF Accounts

(* Networks, images and names are what the plan still lacks of them; a name that is moved
   had no other image to go to.                                               *)
LEMMA DependencyStepsAccount ==
  ASSUME Unambiguous, IInv, Accounts, UNCHANGED <<snap, live, req>>,
         \/ \E n \in Net : CreateNetwork(n)
         \/ \E i \in Image : LoadImage(i)
         \/ \E t \in Tag, i \in Image : TagImage(t, i)
  PROVE  Accounts'
<1>1. /\ TypeOK /\ eng \in Engine /\ plan \in Plan /\ eng.tag \in [Tag -> Image \cup {NoImage}]
      /\ plan.tags \subseteq NeedTags(live, req)
  BY DEF IInv, TypeOK, Engine, PlanInv, Retags
<1>2. UNCHANGED <<NeedVols(req), NeedNets(req), NeedImages(live, req), NeedTags(live, req)>>
  BY Frame
<1>3. /\ eng'.config = eng.config /\ eng'.running = eng.running /\ eng'.id = eng.id
      /\ eng'.image = eng.image /\ eng'.vol = eng.vol
      /\ plan'.stop = plan.stop /\ plan'.remove = plan.remove /\ plan'.restart = plan.restart
      /\ plan'.create = plan.create /\ plan'.start = plan.start /\ plan'.vols = plan.vols
  <2>1. CASE \E n \in Net : CreateNetwork(n)
    BY <1>1, <2>1 DEF CreateNetwork, Engine, Plan
  <2>2. CASE \E i \in Image : LoadImage(i)
    BY <1>1, <2>2 DEF LoadImage, Engine, Plan
  <2>3. CASE \E t \in Tag, i \in Image : TagImage(t, i)
    BY <1>1, <2>3 DEF TagImage, Engine, Plan
  <2> QED BY <2>1, <2>2, <2>3
<1>4. \A c \in Ctr : Accounted(c)'
  BY <1>3, OthersAccounted DEF Accounts
<1>5. \A v \in NeedVols(req) \ plan'.vols : eng'.vol[v] = "recorded"
  BY <1>3 DEF Accounts
<1>6. CASE \E n \in Net : CreateNetwork(n)
  <2>1. PICK n \in Net : /\ eng' = [eng EXCEPT !.nets = @ \cup {n}]
                         /\ plan' = [plan EXCEPT !.nets = @ \ {n}]
    BY <1>6 DEF CreateNetwork
  <2>2. /\ eng'.nets = eng.nets \cup {n} /\ plan'.nets = plan.nets \ {n}
        /\ eng'.images = eng.images /\ eng'.tag = eng.tag
        /\ plan'.load = plan.load /\ plan'.tags = plan.tags
    BY <1>1, <2>1 DEF Engine, Plan
  <2>3. NeedNets(req) \subseteq plan'.nets \cup eng'.nets
    BY <2>2 DEF Accounts
  <2> QED BY <1>2, <1>4, <1>5, <2>2, <2>3 DEF Accounts
<1>7. CASE \E i \in Image : LoadImage(i)
  <2>1. PICK i \in Image : /\ eng' = [eng EXCEPT !.images = @ \cup {i}]
                           /\ plan' = [plan EXCEPT !.load = @ \ {i}]
    BY <1>7 DEF LoadImage
  <2>2. /\ eng'.images = eng.images \cup {i} /\ plan'.load = plan.load \ {i}
        /\ eng'.nets = eng.nets /\ eng'.tag = eng.tag
        /\ plan'.nets = plan.nets /\ plan'.tags = plan.tags
    BY <1>1, <2>1 DEF Engine, Plan
  <2>3. NeedImages(live, req) \subseteq plan'.load \cup eng'.images
    BY <2>2 DEF Accounts
  <2> QED BY <1>2, <1>4, <1>5, <2>2, <2>3 DEF Accounts
<1>8. CASE \E t \in Tag, i \in Image : TagImage(t, i)
  <2>1. PICK t \in Tag, i \in Image :
          /\ <<t, i>> \in plan.tags
          /\ eng' = [eng EXCEPT !.tag[t] = i]
          /\ plan' = [plan EXCEPT !.tags = @ \ {<<t, i>>}]
    BY <1>8 DEF TagImage
  <2>2. /\ eng'.tag[t] = i /\ \A u \in Tag : u # t => eng'.tag[u] = eng.tag[u]
        /\ plan'.tags = plan.tags \ {<<t, i>>}
        /\ eng'.nets = eng.nets /\ eng'.images = eng.images
        /\ plan'.nets = plan.nets /\ plan'.load = plan.load
    BY <1>1, <2>1 DEF Engine, Plan
  <2>3. ASSUME NEW m \in NeedTags(live, req)
        PROVE  m \in plan'.tags \/ eng'.tag[m[1]] = m[2]
    <3>1. m[1] \in Tag /\ m = <<m[1], m[2]>>
      BY DEF NeedTags
    <3>2. CASE m[1] = t
      <4>1. <<t, i>> \in NeedTags(live, req) /\ <<t, i>>[1] = m[1]
        BY <1>1, <2>1, <3>2
      <4>2. m = <<t, i>>
        BY <1>1, <4>1, NamesAreUnique
      <4> QED BY <2>2, <4>2
    <3>3. CASE m[1] # t
      <4>1. m # <<t, i>>
        BY <3>3
      <4> QED BY <2>2, <3>1, <3>3, <4>1 DEF Accounts
    <3> QED BY <3>2, <3>3
  <2> QED BY <1>2, <1>4, <1>5, <2>2, <2>3 DEF Accounts
<1> QED BY <1>6, <1>7, <1>8

(* Volumes. *)
LEMMA VolumeStepsAccount ==
  ASSUME IInv, Accounts, UNCHANGED <<snap, live, req>>,
         (\E v \in Vol : ClearVolume(v)) \/ FillVolume
  PROVE  Accounts'
<1>1. TypeOK /\ eng \in Engine /\ plan \in Plan /\ NeedVols(req) \subseteq Vol
  BY SnapFacts DEF IInv, TypeOK
<1>2. UNCHANGED <<NeedVols(req), NeedNets(req), NeedImages(live, req), NeedTags(live, req)>>
  BY Frame
<1>3. PICK v \in Vol :
        \/ v \in plan.vols /\ plan' = plan /\ eng' = [eng EXCEPT !.vol[v] = "partial"]
        \/ plan' = [plan EXCEPT !.vols = @ \ {v}] /\ eng' = [eng EXCEPT !.vol[v] = "recorded"]
  <2>1. CASE FillVolume
    <3>1. filling \in Vol
      BY <1>1, <2>1 DEF FillVolume, TypeOK, Plan
    <3> QED BY <2>1, <3>1 DEF FillVolume
  <2> QED BY <2>1 DEF ClearVolume
<1>4. /\ eng'.config = eng.config /\ eng'.running = eng.running /\ eng'.id = eng.id
      /\ eng'.image = eng.image /\ eng'.nets = eng.nets /\ eng'.images = eng.images
      /\ eng'.tag = eng.tag
      /\ plan'.stop = plan.stop /\ plan'.remove = plan.remove /\ plan'.restart = plan.restart
      /\ plan'.create = plan.create /\ plan'.start = plan.start
      /\ plan'.nets = plan.nets /\ plan'.load = plan.load /\ plan'.tags = plan.tags
  BY <1>1, <1>3 DEF Engine, Plan
<1>5. \A c \in Ctr : Accounted(c)'
  BY <1>4, OthersAccounted DEF Accounts
<1>6. \A w \in NeedVols(req) \ plan'.vols : eng'.vol[w] = "recorded"
  <2>1. CASE v \in plan.vols /\ plan' = plan /\ eng' = [eng EXCEPT !.vol[v] = "partial"]
    BY <1>1, <2>1 DEF Accounts, Engine
  <2>2. CASE plan' = [plan EXCEPT !.vols = @ \ {v}] /\ eng' = [eng EXCEPT !.vol[v] = "recorded"]
    <3>1. plan'.vols = plan.vols \ {v}
      BY <1>1, <2>2 DEF Plan
    <3>2. /\ eng'.vol[v] = "recorded" /\ \A w \in Vol : w # v => eng'.vol[w] = eng.vol[w]
      BY <1>1, <2>2 DEF Engine
    <3> QED BY <1>1, <3>1, <3>2 DEF Accounts
  <2> QED BY <1>3, <2>1, <2>2
<1> QED BY <1>2, <1>4, <1>5, <1>6 DEF Accounts

(* A created container has the recorded image: its name is in place by then. *)
LEMMA CreateAccounts ==
  ASSUME IInv, Accounts, UNCHANGED <<snap, live, req>>, NEW c \in Ctr, CreateContainer(c)
  PROVE  Accounts'
<1>1. /\ TypeOK /\ eng \in Engine /\ plan \in Plan /\ NeedVols(req) \subseteq Vol
      /\ plan.tags = {} /\ c \in plan.create
      /\ eng' = [eng EXCEPT
           !.config[c] = "recorded", !.image[c] = Resolved(c), !.running[c] = FALSE,
           !.id[c] = @ + 1,
           !.vol = [v \in Vol |-> IF v \in Mounts[c]["recorded"] /\ @[v] = "none"
                                  THEN "drifted" ELSE @[v]]]
      /\ plan' = [plan EXCEPT !.create = @ \ {c}]
  BY SnapFacts DEF IInv, TypeOK, CreateContainer, Before, K1, K2, K3, K4, K5
<1>2. UNCHANGED <<NeedVols(req), NeedNets(req), NeedImages(live, req), NeedTags(live, req),
                  Recreate(live, req), Selected(req)>>
  BY Frame
<1>3. eng' = [eng EXCEPT
         !.config = [eng.config EXCEPT ![c] = "recorded"],
         !.image = [eng.image EXCEPT ![c] = Resolved(c)],
         !.running = [eng.running EXCEPT ![c] = FALSE],
         !.id = [eng.id EXCEPT ![c] = eng.id[c] + 1],
         !.vol = [v \in Vol |-> IF v \in Mounts[c]["recorded"] /\ eng.vol[v] = "none"
                                THEN "drifted" ELSE eng.vol[v]]]
  BY <1>1
<1>4. /\ eng'.nets = eng.nets /\ eng'.images = eng.images /\ eng'.tag = eng.tag
      /\ eng'.config[c] = "recorded" /\ eng'.image[c] = Resolved(c) /\ eng'.running[c] = FALSE
      /\ \A d \in Ctr : d # c =>
           /\ eng'.config[d] = eng.config[d] /\ eng'.image[d] = eng.image[d]
           /\ eng'.running[d] = eng.running[d] /\ eng'.id[d] = eng.id[d]
      /\ \A v \in Vol : eng.vol[v] = "recorded" => eng'.vol[v] = "recorded"
  <2>1. /\ eng'.config = [eng.config EXCEPT ![c] = "recorded"]
        /\ eng'.image = [eng.image EXCEPT ![c] = Resolved(c)]
        /\ eng'.running = [eng.running EXCEPT ![c] = FALSE]
        /\ eng'.id = [eng.id EXCEPT ![c] = eng.id[c] + 1]
        /\ eng'.vol = [v \in Vol |-> IF v \in Mounts[c]["recorded"] /\ eng.vol[v] = "none"
                                     THEN "drifted" ELSE eng.vol[v]]
        /\ eng'.nets = eng.nets /\ eng'.images = eng.images /\ eng'.tag = eng.tag
    BY <1>1, <1>3 DEF Engine
  <2>2. /\ eng.config \in [Ctr -> Configs \cup {"none"}] /\ eng.image \in [Ctr -> Image]
        /\ eng.running \in [Ctr -> BOOLEAN] /\ eng.id \in [Ctr -> Nat]
    BY <1>1 DEF Engine
  <2> QED BY <2>1, <2>2
<1>5. /\ plan'.stop = plan.stop /\ plan'.remove = plan.remove /\ plan'.restart = plan.restart
      /\ plan'.create = plan.create \ {c} /\ plan'.start = plan.start /\ plan'.vols = plan.vols
      /\ plan'.nets = plan.nets /\ plan'.load = plan.load /\ plan'.tags = plan.tags
  BY <1>1 DEF Plan
<1>6. \A d \in Ctr : d # c => Accounted(d)'
  BY <1>4, <1>5, OthersAccounted DEF Accounts
<1>7. Accounted(c)'
  <2>1. Accounted(c) /\ c \in Recreate(live, req)
    BY <1>1 DEF Accounts, Accounted
  <2>2. Resolved(c) = snap.image[c]
    <3>1. CASE snap.ref[c] # NoTag
      <4>1. snap.ref[c] \in Tag /\ snap.image[c] \in NeedImages(live, req)
        BY <1>1, <2>1, <3>1, SnapFacts DEF Snapshot, NeedImages
      <4>2. <<snap.ref[c], snap.image[c]>> \in NeedTags(live, req)
        BY <2>1, <4>1 DEF NeedTags
      <4> QED BY <1>1, <3>1, <4>2 DEF Accounts, Resolved
    <3> QED BY <3>1 DEF Resolved
  <2>3. <<c, live.id[c]>> \notin plan.remove
    BY DEF CreateContainer, Before, K1, K2, K3, K4, K5
  <2> QED BY <1>1, <1>2, <1>4, <1>5, <2>1, <2>2, <2>3 DEF Accounted
<1>8. \A v \in NeedVols(req) \ plan'.vols : eng'.vol[v] = "recorded"
  BY <1>1, <1>4, <1>5 DEF Accounts
<1> QED BY <1>2, <1>4, <1>5, <1>6, <1>7, <1>8 DEF Accounts

(* While nobody else acts, every step keeps account. *)
LEMMA CalmPreserves ==
  ASSUME Unambiguous, IInv, CalmInv, [Next]_vars
  PROVE  CalmInv'
<1>1. TypeOK
  BY DEF IInv
<1>2. CASE UNCHANGED vars \/ Consent
  <2>1. /\ UNCHANGED <<snap, eng, req, live, plan, touched>>
        /\ phase' = phase \/ (phase = "consent" /\ phase' = "compare")
    BY <1>2 DEF vars, run, Consent
  <2>2. UNCHANGED <<NeedVols(req), NeedNets(req), NeedImages(live, req), NeedTags(live, req),
                    Ordinary, Calm, Untouched>>
    BY <2>1, Frame DEF Calm, Untouched
  <2>3. \A c \in Ctr : Accounted(c) => Accounted(c)'
    BY <2>1, OthersAccounted
  <2>4. Planned' = Planned /\ (phase' = "done" <=> phase = "done")
    BY <2>1 DEF Planned
  <2> HIDE DEF Ordinary, Calm, Untouched, Planned, Accounted
  <2> QED BY <2>1, <2>2, <2>3, <2>4 DEF CalmInv
<1>3. CASE (\E r \in Requests : Fetch(r)) \/ Abort
  BY <1>3 DEF Fetch, Abort, CalmInv, Untouched, Planned
<1>4. CASE Build
  BY <1>4, BuildAccounts, ZenonT(30)
<1>5. CASE User
  BY <1>5 DEF User, UserStarts, UserStops, UserReplaces, ContainerWrites, UserTags, Meddle,
              CalmInv, Calm
<1>6. CASE Checkpoint \/ Confirm \/ EndApply
  <2>1. /\ UNCHANGED <<snap, eng, req, live, plan, touched>>
        /\ Planned /\ Planned' /\ phase' \notin {"consent", "compare"}
        /\ phase' = "done" => plan = NoPlan
    BY <1>6 DEF Checkpoint, Confirm, EndApply, Planned
  <2>2. UNCHANGED <<NeedVols(req), NeedNets(req), NeedImages(live, req), NeedTags(live, req),
                    Ordinary, Calm>>
    BY <2>1, Frame DEF Calm
  <2>3. \A c \in Ctr : Accounted(c) => Accounted(c)'
    BY <2>1, OthersAccounted
  <2> HIDE DEF Ordinary, Calm, Planned, Accounted
  <2> QED BY <2>1, <2>2, <2>3 DEF CalmInv
<1>7. CASE ApplyStep /\ ~ EndApply
  <2>1. phase = "apply" /\ UNCHANGED <<snap, phase, req, live, touched>>
    BY <1>7 DEF ApplyStep, StopContainer, RemoveContainer, CreateNetwork, LoadImage, TagImage,
                ClearVolume, FillVolume, CreateContainer, StartContainer, RestartContainer,
                Before, kept
  <2>2. UNCHANGED <<Ordinary, Calm>>
    BY <2>1, Frame DEF Calm
  <2>3. Calm /\ Ordinary => Accounts
    BY <2>1 DEF CalmInv, Accounts, Planned
  <2>4. Accounts' => CalmInv'
    BY <2>1 DEF CalmInv, Accounts
  <2>5. ~ (Calm /\ Ordinary) => CalmInv'
    BY <2>2 DEF CalmInv
  <2>6. ASSUME Accounts PROVE Accounts'
    <3>1. plan.stop \subseteq Ids /\ plan.remove \subseteq Ids /\ plan.restart \subseteq Ids
      BY <1>1 DEF TypeOK, Plan
    <3>2. CASE \/ \E m \in plan.stop : StopContainer(m[1], m[2])
               \/ \E m \in plan.remove : RemoveContainer(m[1], m[2])
               \/ \E m \in plan.restart : RestartContainer(m[1], m[2])
      <4>1. \E m \in Ids : StopContainer(m[1], m[2]) \/ RemoveContainer(m[1], m[2])
                             \/ RestartContainer(m[1], m[2])
        BY <3>1, <3>2
      <4> QED BY <2>1, <2>6, <4>1, ContainerStepsAccount DEF Ids
    <3>3. ASSUME NEW c \in Ctr, StartContainer(c) PROVE Accounts'
      <4>1. 0 \in Nat
        OBVIOUS
      <4> QED BY <2>1, <2>6, <3>3, <4>1, ContainerStepsAccount
    <3>4. CASE \/ \E n \in Net : CreateNetwork(n)
               \/ \E i \in Image : LoadImage(i)
               \/ \E t \in Tag, i \in Image : TagImage(t, i)
      BY <2>1, <2>6, <3>4, DependencyStepsAccount
    <3>5. CASE (\E v \in Vol : ClearVolume(v)) \/ FillVolume
      BY <2>1, <2>6, <3>5, VolumeStepsAccount
    <3>6. ASSUME NEW c \in Ctr, CreateContainer(c) PROVE Accounts'
      BY <2>1, <2>6, <3>6, CreateAccounts
    <3> QED BY <1>7, <3>2, <3>3, <3>4, <3>5, <3>6 DEF ApplyStep
  <2> QED BY <2>3, <2>4, <2>5, <2>6
<1> QED BY <1>2, <1>3, <1>4, <1>5, <1>6, <1>7 DEF Next

(* Where no name means two images and nobody else acts, a run keeps account. *)
THEOREM KeepsAccount ==
  ASSUME Unambiguous
  PROVE  Spec => []CalmInv
<1>1. Init => CalmInv
  BY DEF Init, CalmInv, Planned
<1>2. IInv /\ CalmInv /\ [Next]_vars => CalmInv'
  BY CalmPreserves
<1> QED BY <1>1, <1>2, InductiveInvariant, PTL DEF Spec

(* An undisturbed run that succeeds has nothing left to account for. *)
LEMMA DoneFacts ==
  ASSUME TypeOK, CalmInv, phase = "done", Calm, Ordinary
  PROVE  /\ \A c \in Selected(req) :
              /\ eng.config[c] = "recorded" /\ eng.image[c] = snap.image[c]
              /\ eng.running[c] <=> c \in snap.running
         /\ \A v \in NeedVols(req) : eng.vol[v] = "recorded"
         /\ NeedNets(req) \subseteq eng.nets
         /\ NeedImages(live, req) \subseteq eng.images
         /\ \A m \in NeedTags(live, req) : eng.tag[m[1]] = m[2]
         /\ \A c \in Ctr \ Selected(req) :
              /\ eng.config[c] = live.config[c] /\ eng.image[c] = live.image[c]
              /\ eng.running[c] = live.running[c]
<1>1. plan = NoPlan /\ Planned
  BY DEF CalmInv, Planned
<1>2. /\ \A c \in Ctr : Accounted(c)
      /\ \A v \in NeedVols(req) : eng.vol[v] = "recorded"
      /\ NeedNets(req) \subseteq eng.nets
      /\ NeedImages(live, req) \subseteq eng.images
      /\ \A m \in NeedTags(live, req) : eng.tag[m[1]] = m[2]
  BY <1>1 DEF CalmInv, NoPlan
<1>3. /\ plan.stop = {} /\ plan.restart = {} /\ plan.create = {} /\ plan.start = {}
  BY <1>1 DEF NoPlan
<1>4. /\ Selected(req) \subseteq Ctr /\ Recreate(live, req) \subseteq Selected(req)
      /\ eng.running \in [Ctr -> BOOLEAN] /\ live.running \in [Ctr -> BOOLEAN]
  BY SnapFacts DEF TypeOK, Engine
<1>5. ASSUME NEW c \in Selected(req)
      PROVE  /\ eng.config[c] = "recorded" /\ eng.image[c] = snap.image[c]
             /\ eng.running[c] <=> c \in snap.running
  <2>1. Accounted(c)
    BY <1>2, <1>4
  <2>2. CASE c \in Recreate(live, req)
    BY <1>3, <2>1, <2>2 DEF Accounted
  <2>3. CASE c \notin Recreate(live, req)
    <3>1. live.config[c] = "recorded" /\ live.image[c] = snap.image[c]
      BY <2>3 DEF Recreate
    <3> QED BY <1>3, <2>1, <2>3, <3>1 DEF Accounted, ShouldRun
  <2> QED BY <2>2, <2>3
<1>6. ASSUME NEW c \in Ctr \ Selected(req)
      PROVE  /\ eng.config[c] = live.config[c] /\ eng.image[c] = live.image[c]
             /\ eng.running[c] <=> live.running[c]
  <2>1. Accounted(c) /\ c \notin Recreate(live, req)
    BY <1>2, <1>4
  <2> QED BY <1>3, <2>1 DEF Accounted, ShouldRun
<1>7. \A c \in Ctr \ Selected(req) : eng.running[c] = live.running[c]
  BY <1>4, <1>6
<1> QED BY <1>2, <1>5, <1>6, <1>7

(* A run that succeeds undisturbed has made its scope what the snapshot recorded, and left
   the rest as it found it, whatever failed runs left before it.              *)
THEOREM SuccessIsExact ==
  ASSUME Unambiguous
  PROVE  Spec => []RestoredExactly
<1>1. TypeOK /\ CalmInv => RestoredExactly
  BY DoneFacts DEF RestoredExactly, Ordinary
<1> QED BY <1>1, TypeCorrect, KeepsAccount, PTL

(* The same command line has nothing to do after it. *)
THEOREM RerunIsNoOp ==
  ASSUME Unambiguous
  PROVE  Spec => []Idempotent
<1>1. ASSUME TypeOK, CalmInv, phase = "done", Calm, Ordinary
      PROVE  OrdinaryPlan(eng, req, {v \in NeedVols(req) : eng.vol[v] # "recorded"}) = NoPlan
  <2>1. {v \in NeedVols(req) : eng.vol[v] # "recorded"} = {}
    BY <1>1, DoneFacts
  <2>2. \A c \in Selected(req) : /\ eng.config[c] = "recorded" /\ eng.image[c] = snap.image[c]
                                 /\ eng.running[c] <=> c \in snap.running
    BY <1>1, DoneFacts
  <2>3. Recreate(eng, req) = {} /\ Replaced(eng, req) = {}
    BY <2>2 DEF Recreate, Replaced
  <2>4. Quiesce(eng, req, {}) = {} /\ ToStop(eng, req) = {} /\ ToStart(eng, req) = {}
    BY <2>2, <2>3 DEF Quiesce, ToStop, ToStart, Kept
  <2>5. NeedImages(eng, req) \subseteq NeedImages(live, req)
    BY <2>3 DEF NeedImages
  <2>6. NeedTags(eng, req) \subseteq NeedTags(live, req)
    BY <2>3, <2>5 DEF NeedTags
  <2>7. /\ NeedNets(req) \ eng.nets = {} /\ NeedImages(eng, req) \ eng.images = {}
        /\ Retags(eng, req) = {}
    BY <1>1, <2>5, <2>6, DoneFacts DEF Retags
  <2>8. WithId(eng, {}) = {}
    BY DEF WithId
  <2> QED BY <2>1, <2>3, <2>4, <2>7, <2>8 DEF OrdinaryPlan, NoPlan
<1>2. TypeOK /\ CalmInv => Idempotent
  BY <1>1 DEF Idempotent, Ordinary
<1> QED BY <1>2, TypeCorrect, KeepsAccount, PTL

================================================================================
