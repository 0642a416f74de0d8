------------------------------- MODULE Rollback -------------------------------
(***************************************************************************)
(* `dockervc rollback <snapshot>` and `import --apply` against a live      *)
(* engine (internal/rollback, internal/cli/rollback.go).                   *)
(*                                                                         *)
(* A run fetches the live state, asks before image names are moved,        *)
(* compares the volumes, builds a plan, takes a checkpoint, asks again and *)
(* applies the plan step by step.  Every step may fail, a failed run is    *)
(* not undone, and the next run, for any scope, starts from what it left.  *)
(* Between fetch and the last step other clients use the engine.           *)
(*                                                                         *)
(* The state of a container's configuration and of a volume's content is   *)
(* relative to the snapshot: "recorded" or something else.  A container's  *)
(* id is the number of containers that have had its name.  The plan is a   *)
(* record of sets, one for each kind of step, applied kind by kind; within *)
(* a kind the code follows manifest or id order, the model any order.      *)
(* Left out: records of snapshots older than image recipes (ImageObject),  *)
(* and the internal tag dockervc gives to an image without a name, which   *)
(* is the image's identity here.                                           *)
(***************************************************************************)
EXTENDS Naturals

CONSTANTS Ctr, Vol, Net, Image, Tag,
          NoImage, NoTag, NoVol,
          Mounts,      \* [Ctr -> [configuration -> volumes]]
          Attached,    \* [Ctr -> networks] of the recorded configuration
          Anonymous,   \* volumes a checkpoint leaves out
          Snapshots,   \* the snapshots considered
          Engines,     \* the engine states considered before the first run
          Requests,    \* the command lines considered
          MaxRuns,     \* bound: rollback runs
          MaxUsers     \* bound: acts of other clients

Configs  == {"recorded", "drifted"}
Contents == {"recorded", "drifted", "partial"}

Snapshot == [ctrs : SUBSET Ctr, running : SUBSET Ctr, image : [Ctr -> Image],
             ref : [Ctr -> Tag \cup {NoTag}], vols : SUBSET Vol, nets : SUBSET Net,
             images : SUBSET Image, tag : [Tag -> Image \cup {NoImage}]]
Engine   == [config : [Ctr -> Configs \cup {"none"}], image : [Ctr -> Image],
             running : [Ctr -> BOOLEAN], id : [Ctr -> Nat],
             vol : [Vol -> Contents \cup {"none"}], nets : SUBSET Net,
             images : SUBSET Image, tag : [Tag -> Image \cup {NoImage}]]
Modes    == {"restore", "apply", "current", "missing"}
Request  == [mode : Modes, ctrs : SUBSET Ctr, vols : SUBSET Vol, nets : SUBSET Net,
             images : SUBSET Image, keep : BOOLEAN]

(* A captured container's image is captured, too (Capture!RecipesComplete).  The
   engine keeps a volume while a container mounts it, and only a rollback leaves
   one half-written.                                                          *)
ASSUME RollbackAssumption ==
  /\ Mounts \in [Ctr -> [Configs -> SUBSET Vol]]
  /\ Attached \in [Ctr -> SUBSET Net]
  /\ Snapshots \subseteq Snapshot /\ Engines \subseteq Engine
  /\ Requests \subseteq Request /\ Requests # {}
  /\ \A s \in Snapshots : /\ {s.image[c] : c \in s.ctrs} \subseteq s.images
                          /\ s.running \subseteq s.ctrs
  /\ \A e \in Engines : /\ \A v \in Vol : e.vol[v] # "partial"
                        /\ \A c \in Ctr : e.config[c] # "none" =>
                             \A v \in Mounts[c][e.config[c]] : e.vol[v] # "none"
  /\ MaxRuns \in Nat /\ MaxUsers \in Nat
  /\ NoImage \notin Image /\ NoTag \notin Tag /\ NoVol \notin Vol

VARIABLES
  snap,      \* the snapshot
  eng,       \* the engine
  phase,     \* where the run is
  req,       \* its command line
  live,      \* the engine as FetchLiveState saw it
  consent,   \* ReplaceConflictingImageNames
  plan,      \* the steps not applied yet
  filling,   \* the volume cleared and not filled yet
  made,      \* containers this run created
  cp,        \* the checkpoint: the engine as it was captured
  runs, users,
  \* history
  touched,   \* what other clients changed since the fetch
  meddled,   \* what they changed since the checkpoint
  foreign,   \* containers that somebody else, or a name-trusting run, started before
             \* the fetch and that ran then, or started since
  owed       \* containers a run stopped for a volume and has not started again

run  == <<phase, req, live, consent, plan, filling, made, cp, runs>>
vars == <<snap, eng, run, users, touched, meddled, foreign, owed>>

Ids == Ctr \X Nat

Plan == [stop : SUBSET Ids, remove : SUBSET Ids, nets : SUBSET Net, load : SUBSET Image,
         tags : SUBSET (Tag \X Image), vols : SUBSET Vol, create : SUBSET Ctr,
         start : SUBSET Ctr, restart : SUBSET Ids]

NoPlan == [stop |-> {}, remove |-> {}, nets |-> {}, load |-> {}, tags |-> {},
           vols |-> {}, create |-> {}, start |-> {}, restart |-> {}]

TypeOK ==
  /\ snap \in Snapshots /\ eng \in Engine
  /\ phase \in {"idle", "consent", "compare", "checkpoint", "confirm", "apply", "done"}
  /\ req \in Requests /\ live \in Engine /\ cp \in Engine
  /\ consent \in BOOLEAN
  /\ plan \in Plan /\ made \subseteq Ids
  /\ filling \in plan.vols \cup {NoVol}
  /\ runs \in 0..MaxRuns /\ users \in 0..MaxUsers
  /\ touched \cup meddled \subseteq Ctr \cup Vol \cup Tag
  /\ foreign \cup owed \subseteq Ctr

(* Between runs the request has no meaning. *)
NoRequest == CHOOSE r \in Requests : TRUE

Init ==
  /\ snap \in Snapshots /\ eng \in Engines /\ req = NoRequest
  /\ phase = "idle" /\ live = eng /\ consent = FALSE
  /\ plan = NoPlan /\ filling = NoVol /\ made = {} /\ cp = eng
  /\ runs = 0 /\ users = 0
  /\ touched = {} /\ meddled = {} /\ foreign = {} /\ owed = {}
------------------------------------------------------------------------------
(* The planner: functions of the snapshot, a live state l and a request r *)

Exists(l, c) == l.config[c] # "none"

Selected(r) == r.ctrs \cap snap.ctrs

(* A selected container pulls in what it mounts and attaches to, as far as the
   snapshot captured it.                                                     *)
NeedVols(r) ==
  snap.vols \cap (r.vols \cup UNION {Mounts[c]["recorded"] : c \in Selected(r)})
NeedNets(r) == snap.nets \cap (r.nets \cup UNION {Attached[c] : c \in Selected(r)})

(* Faulty: a container of another image counts as unchanged. *)
RecreateReconfigured(l, r) == {c \in Selected(r) : l.config[c] # "recorded"}

(* containerRecreateReason, or missing. *)
Recreate(l, r) ==
  {c \in Selected(r) : l.config[c] # "recorded" \/ l.image[c] # snap.image[c]}

Replaced(l, r) == {c \in Recreate(l, r) : Exists(l, c)}

NeedImages(l, r) == (r.images \cap snap.images) \cup {snap.image[c] : c \in Recreate(l, r)}

(* Names to restore: those of the images selected by themselves, and the one
   each recreated container was created from.                               *)
NeedTags(l, r) ==
  {m \in Tag \X NeedImages(l, r) :
     \/ m[2] \in r.images /\ snap.tag[m[1]] = m[2]
     \/ \E c \in Recreate(l, r) : snap.ref[c] = m[1] /\ snap.image[c] = m[2]}

(* Faulty: names of selected images are not looked at. *)
ConflictsOfContainers(l, r) ==
  {m \in NeedTags(l, r) :
     /\ l.tag[m[1]] \notin {NoImage, m[2]}
     /\ \E c \in Recreate(l, r) : snap.ref[c] = m[1]}

(* ConflictingImageNames *)
Conflicts(l, r) == {m \in NeedTags(l, r) : l.tag[m[1]] \notin {NoImage, m[2]}}

UsersOf(l, v) == {c \in Ctr : Exists(l, c) /\ v \in Mounts[c][l.config[c]]}

(* Faulty: name and id swapped. *)
WithIdSwapped(l, C) == {<<l.id[c], c>> : c \in C}

WithId(l, C) == {<<c, l.id[c]>> : c \in C}

(* Faulty: only selected containers are stopped. *)
QuiesceSelected(l, r, V) ==
  {c \in Selected(r) \ Replaced(l, r) : l.running[c] /\ \E v \in V : c \in UsersOf(l, v)}

(* Every running container attached to a volume about to be rewritten, in
   scope or not, but for those that are removed anyway.                     *)
Quiesce(l, r, V) ==
  {c \in Ctr \ Replaced(l, r) : l.running[c] /\ \E v \in V : c \in UsersOf(l, v)}

Kept(l, r)    == Selected(r) \ Recreate(l, r)
ToStop(l, r)  == {c \in Kept(l, r) : l.running[c] /\ c \notin snap.running}
ToStart(l, r) == {c \in Kept(l, r) : ~ l.running[c] /\ c \in snap.running}

(* Faulty: a present image is left alone, names and all. *)
TagsOfLoaded(l, r) == {m \in NeedTags(l, r) : m[2] \notin l.images}

Retags(l, r) == {m \in NeedTags(l, r) : l.tag[m[1]] # m[2]}

(* BuildPlan, when V are the volumes to rewrite. *)
OrdinaryPlan(l, r, V) ==
  [stop    |-> WithId(l, Quiesce(l, r, V) \cup ToStop(l, r)),
   remove  |-> WithId(l, Replaced(l, r)),
   nets    |-> NeedNets(r) \ l.nets,
   load    |-> NeedImages(l, r) \ l.images,
   tags    |-> Retags(l, r),
   vols    |-> V,
   create  |-> Recreate(l, r),
   start   |-> Recreate(l, r) \cap snap.running,
   restart |-> WithId(l, (Quiesce(l, r, V) \ ToStop(l, r)) \cup ToStart(l, r))]

(* --recreate-with-current-dependencies, and --reuse-existing-by-name *)
ByNamePlan(l, r) ==
  LET C == IF r.mode = "current" THEN Selected(r)
           ELSE {c \in Selected(r) : ~ Exists(l, c)}
  IN [NoPlan EXCEPT !.remove = WithId(l, {c \in C : Exists(l, c)}),
                    !.create = C,
                    !.start  = C \cap snap.running]

(* ValidateExistingDependenciesByName *)
Dependable(l, r) == \A c \in Selected(r) :
  /\ snap.ref[c] # NoTag /\ l.tag[snap.ref[c]] # NoImage
  /\ \A v \in Mounts[c]["recorded"] : l.vol[v] # "none"
  /\ Attached[c] \subseteq l.nets

ByName(r) == r.mode \in {"current", "missing"}
------------------------------------------------------------------------------
(* Up to the plan *)

(* A run begins by reading the engine.  The name-trusting modes only check that
   what they rely on is there; the others ask if names would move.           *)
Fetch(r) ==
  /\ phase \in {"idle", "done"} /\ runs < MaxRuns
  /\ ByName(r) => Dependable(eng, r)
  /\ runs' = runs + 1
  /\ req' = r /\ live' = eng
  /\ phase' = IF ~ ByName(r) /\ Conflicts(eng, r) # {} THEN "consent" ELSE "compare"
  /\ consent' = FALSE /\ plan' = NoPlan /\ filling' = NoVol /\ made' = {} /\ cp' = eng
  /\ touched' = {} /\ meddled' = {}
  /\ foreign' = {c \in foreign : eng.running[c]}
  /\ UNCHANGED <<snap, eng, users, owed>>

Consent ==
  /\ phase = "consent"
  /\ consent' = TRUE
  /\ phase' = "compare"
  /\ UNCHANGED <<snap, eng, req, live, plan, filling, made, cp, runs, users, touched,
                 meddled, foreign, owed>>

(* ReconcileVolumes, then BuildPlan: a needed volume is rewritten if it was
   absent at the fetch, differs now, or cannot be compared.  import --apply
   does not compare.                                                        *)
Build ==
  /\ phase = "compare"
  /\ \/ ByName(req) /\ plan' = ByNamePlan(live, req)
     \/ /\ req.mode = "apply"
        /\ plan' = OrdinaryPlan(live, req, NeedVols(req))
     \/ /\ req.mode = "restore"
        /\ \E unverifiable \in SUBSET NeedVols(req) :
             plan' = OrdinaryPlan(live, req, unverifiable \cup
                       {v \in NeedVols(req) : live.vol[v] = "none"
                                              \/ eng.vol[v] # "recorded"})
  /\ phase' = IF plan' = NoPlan THEN "done"
              ELSE IF req.keep THEN "confirm" ELSE "checkpoint"
  /\ UNCHANGED <<snap, eng, req, live, consent, filling, made, cp, runs, users, touched,
                 meddled, foreign, owed>>

(* A snapshot of everything, without --stop (Capture); it fails: Abort. *)
Checkpoint ==
  /\ phase = "checkpoint"
  /\ cp' = eng
  /\ meddled' = {}
  /\ phase' = "confirm"
  /\ UNCHANGED <<snap, eng, req, live, consent, plan, filling, made, runs, users,
                 touched, foreign, owed>>

Confirm ==
  /\ phase = "confirm"
  /\ phase' = "apply"
  /\ UNCHANGED <<snap, eng, req, live, consent, plan, filling, made, cp, runs, users,
                 touched, meddled, foreign, owed>>

(* A prompt is declined, a step or a check fails, the process is killed: what
   was applied stays.                                                        *)
Abort ==
  /\ phase \notin {"idle", "done"}
  /\ phase' = "idle"
  /\ req' = NoRequest /\ live' = eng /\ consent' = FALSE /\ cp' = eng
  /\ plan' = NoPlan /\ filling' = NoVol /\ made' = {}
  /\ touched' = {} /\ meddled' = {}
  /\ UNCHANGED <<snap, eng, runs, users, foreign, owed>>
------------------------------------------------------------------------------
(* Apply *)

(* Nothing of the kinds before is left to do. *)
Before(kinds) == phase = "apply" /\ \A k \in kinds : plan[k] = {}

K1 == {"stop"}
K2 == K1 \cup {"remove"}
K3 == K2 \cup {"nets"}
K4 == K3 \cup {"load", "tags"}
K5 == K4 \cup {"vols"}
K6 == K5 \cup {"create"}
K7 == K6 \cup {"start"}

Is(c, id) == Exists(eng, c) /\ eng.id[c] = id

kept == <<snap, phase, req, live, consent, cp, runs, users, touched, meddled>>

StopContainer(c, id) ==
  /\ Before({}) /\ <<c, id>> \in plan.stop
  /\ Is(c, id)
  /\ eng' = [eng EXCEPT !.running[c] = FALSE]
  /\ plan' = [plan EXCEPT !.stop = @ \ {<<c, id>>}]
  /\ owed' = IF <<c, id>> \in plan.restart THEN owed \cup {c} ELSE owed
  /\ UNCHANGED <<kept, filling, made, foreign>>

(* Faulty: whatever has the name by now is removed. *)
RemoveContainerByName(c, id) ==
  /\ Before(K1) /\ <<c, id>> \in plan.remove
  /\ Exists(eng, c)
  /\ eng' = [eng EXCEPT !.config[c] = "none", !.running[c] = FALSE]
  /\ plan' = [plan EXCEPT !.remove = @ \ {<<c, id>>}]
  /\ owed' = owed \ {c} /\ foreign' = foreign \ {c}
  /\ UNCHANGED <<kept, filling, made>>

RemoveContainer(c, id) ==
  /\ Before(K1) /\ <<c, id>> \in plan.remove
  /\ Is(c, id)
  /\ eng' = [eng EXCEPT !.config[c] = "none", !.running[c] = FALSE]
  /\ plan' = [plan EXCEPT !.remove = @ \ {<<c, id>>}]
  /\ owed' = owed \ {c} /\ foreign' = foreign \ {c}
  /\ UNCHANGED <<kept, filling, made>>

CreateNetwork(n) ==
  /\ Before(K2) /\ n \in plan.nets
  /\ n \notin eng.nets
  /\ eng' = [eng EXCEPT !.nets = @ \cup {n}]
  /\ plan' = [plan EXCEPT !.nets = @ \ {n}]
  /\ UNCHANGED <<kept, filling, made, foreign, owed>>

(* The stored archive carries no tags: loading moves no name. *)
LoadImage(i) ==
  /\ Before(K3) /\ i \in plan.load
  /\ eng' = [eng EXCEPT !.images = @ \cup {i}]
  /\ plan' = [plan EXCEPT !.load = @ \ {i}]
  /\ UNCHANGED <<kept, filling, made, foreign, owed>>

TagImage(t, i) ==
  /\ Before(K3) /\ <<t, i>> \in plan.tags
  /\ i \in eng.images \ plan.load
  /\ eng' = [eng EXCEPT !.tag[t] = i]
  /\ plan' = [plan EXCEPT !.tags = @ \ {<<t, i>>}]
  /\ UNCHANGED <<kept, filling, made, foreign, owed>>

(* VolumeCreate, and the helper's find -delete. *)
ClearVolume(v) ==
  /\ Before(K4) /\ v \in plan.vols /\ filling = NoVol
  /\ eng' = [eng EXCEPT !.vol[v] = "partial"]
  /\ filling' = v
  /\ UNCHANGED <<kept, plan, made, foreign, owed>>

FillVolume ==
  /\ phase = "apply" /\ filling # NoVol
  /\ eng' = [eng EXCEPT !.vol[filling] = "recorded"]
  /\ plan' = [plan EXCEPT !.vols = @ \ {filling}]
  /\ filling' = NoVol
  /\ UNCHANGED <<kept, made, foreign, owed>>

(* The image the engine finds under the reference of the create call. *)
Resolved(c) == IF snap.ref[c] = NoTag THEN snap.image[c] ELSE eng.tag[snap.ref[c]]

(* The engine creates the volumes of the configuration that do not exist. *)
CreateContainer(c) ==
  /\ Before(K5) /\ c \in plan.create
  /\ ~ Exists(eng, c)
  /\ Resolved(c) \in eng.images
  /\ Attached[c] \subseteq eng.nets
  /\ eng' = [eng EXCEPT
       !.config[c] = "recorded", !.image[c] = Resolved(c), !.running[c] = FALSE,
       !.id[c] = @ + 1,
       !.vol = [v \in Vol |-> IF v \in Mounts[c]["recorded"] /\ @[v] = "none"
                              THEN "drifted" ELSE @[v]]]
  /\ plan' = [plan EXCEPT !.create = @ \ {c}]
  /\ made' = made \cup {<<c, eng.id[c] + 1>>}
  /\ UNCHANGED <<kept, filling, foreign, owed>>

Started(c) ==
  /\ eng' = [eng EXCEPT !.running[c] = TRUE]
  /\ owed' = owed \ {c}
  /\ foreign' = IF ByName(req) THEN foreign \cup {c} ELSE foreign

StartContainer(c) ==
  /\ Before(K6) /\ c \in plan.start
  /\ \E id \in {m[2] : m \in made} : <<c, id>> \in made /\ Is(c, id)
  /\ Started(c)
  /\ plan' = [plan EXCEPT !.start = @ \ {c}]
  /\ UNCHANGED <<kept, filling, made>>

RestartContainer(c, id) ==
  /\ Before(K7) /\ <<c, id>> \in plan.restart
  /\ Is(c, id)
  /\ Started(c)
  /\ plan' = [plan EXCEPT !.restart = @ \ {<<c, id>>}]
  /\ UNCHANGED <<kept, filling, made>>

EndApply ==
  /\ phase = "apply" /\ plan = NoPlan
  /\ phase' = "done"
  /\ UNCHANGED <<snap, eng, req, live, consent, plan, filling, made, cp, runs, users,
                 touched, meddled, foreign, owed>>

ApplyStep ==
  \/ \E m \in plan.stop : StopContainer(m[1], m[2])
  \/ \E m \in plan.remove : RemoveContainer(m[1], m[2])
  \/ \E n \in Net : CreateNetwork(n)
  \/ \E i \in Image : LoadImage(i)
  \/ \E t \in Tag, i \in Image : TagImage(t, i)
  \/ \E v \in Vol : ClearVolume(v)
  \/ FillVolume
  \/ \E c \in Ctr : CreateContainer(c) \/ StartContainer(c)
  \/ \E m \in plan.restart : RestartContainer(m[1], m[2])
  \/ EndApply
------------------------------------------------------------------------------
(* Other clients *)

Meddle(x) ==
  /\ users < MaxUsers
  /\ users' = users + 1
  /\ touched' = touched \cup {x} /\ meddled' = meddled \cup {x}
  /\ UNCHANGED <<snap, run, owed>>

UserStarts(c) ==
  /\ Exists(eng, c) /\ ~ eng.running[c]
  /\ eng' = [eng EXCEPT !.running[c] = TRUE]
  /\ foreign' = foreign \cup {c}
  /\ Meddle(c)

UserStops(c) ==
  /\ Exists(eng, c) /\ eng.running[c]
  /\ eng' = [eng EXCEPT !.running[c] = FALSE]
  /\ UNCHANGED foreign
  /\ Meddle(c)

(* docker rm -f and docker run under the same name. *)
UserReplaces(c) ==
  /\ Mounts[c]["drifted"] \subseteq {v \in Vol : eng.vol[v] # "none"}
  /\ eng' = [eng EXCEPT !.config[c] = "drifted", !.running[c] = TRUE, !.id[c] = @ + 1]
  /\ eng.image[c] \in eng.images
  /\ foreign' = foreign \cup {c}
  /\ Meddle(c)

(* What runs in a container writes to a volume it mounts. *)
ContainerWrites(c, v) ==
  /\ eng.running[c] /\ c \in UsersOf(eng, v)
  /\ eng.vol[v] = "recorded"
  /\ eng' = [eng EXCEPT !.vol[v] = "drifted"]
  /\ UNCHANGED foreign
  /\ Meddle(v)

UserTags(t, i) ==
  /\ i \in eng.images /\ eng.tag[t] # i
  /\ eng' = [eng EXCEPT !.tag[t] = i]
  /\ UNCHANGED foreign
  /\ Meddle(t)

User ==
  \/ \E c \in Ctr : UserStarts(c) \/ UserStops(c) \/ UserReplaces(c)
  \/ \E c \in Ctr, v \in Vol : ContainerWrites(c, v)
  \/ \E t \in Tag, i \in Image : UserTags(t, i)

Next ==
  \/ \E r \in Requests : Fetch(r)
  \/ Consent \/ Build \/ Checkpoint \/ Confirm \/ Abort
  \/ ApplyStep
  \/ User

Spec == Init /\ [][Next]_vars
------------------------------------------------------------------------------
(* Properties *)

Calm == touched = {}

(* A run that reports success, in whatever state earlier failed runs left the
   engine, has made every selected container, every volume and every network
   it needs what the snapshot recorded, and left all other containers as it
   found them, provided nobody else acted meanwhile (BuildPlan, Apply).       *)
RestoredExactly ==
  phase = "done" /\ Calm /\ ~ ByName(req) =>
    /\ \A c \in Selected(req) :
         /\ eng.config[c] = "recorded" /\ eng.image[c] = snap.image[c]
         /\ eng.running[c] <=> c \in snap.running
    /\ \A v \in NeedVols(req) : eng.vol[v] = "recorded"
    /\ NeedNets(req) \subseteq eng.nets
    /\ \A c \in Ctr \ Selected(req) :
         /\ eng.config[c] = live.config[c] /\ eng.image[c] = live.image[c]
         /\ eng.running[c] = live.running[c]

(* Running a successful rollback again has nothing to do: "re-run same rollback
   -> no-op/skips" (ROLLBACK-PLAN.md), so containers are not recreated, names
   not moved and volumes not rewritten for ever.                              *)
Idempotent ==
  phase = "done" /\ Calm /\ ~ ByName(req) =>
    OrdinaryPlan(eng, req, {v \in NeedVols(req) : eng.vol[v] # "recorded"}) = NoPlan

(* No container runs on a volume that is being rewritten, or that a failed run
   left half-written, unless somebody else started it or a run that trusts
   what is there by name: "so nobody can write to or observe a partial
   restore" (plan.go), across failures and re-runs for any scope.             *)
NoPartialObserved ==
  \A c \in Ctr \ foreign : eng.running[c] =>
    \A v \in Vol : c \in UsersOf(eng, v) => eng.vol[v] # "partial"

(* What a step destroys the checkpoint has as it is. *)
Recoverable ==
  phase = "apply" /\ phase' = "apply" /\ ~ req.keep /\ users' = users =>
    /\ \A c \in Ctr : Exists(eng, c) /\ ~ Exists(eng', c) =>
         cp.config[c] = eng.config[c] /\ cp.id[c] = eng.id[c]
    /\ \A v \in Vol \ (Anonymous \cup meddled) :
         eng.vol[v] # "none" /\ eng'.vol[v] = "partial" => cp.vol[v] = eng.vol[v]

(* A container is removed and a volume cleared only if the checkpoint of this
   run has it, just as it is, unless it was changed since or is a volume the
   checkpoint leaves out (anonymous); --keep-current asks for no checkpoint.  *)
DestroysOnlyCheckpointed == [][Recoverable]_vars

(* A step of the run moves a name in use only when it may. *)
Consented == users' = users => \A t \in Tag \ touched :
  eng.tag[t] # NoImage /\ eng'.tag[t] # eng.tag[t] => consent

(* An image name in use is moved to another image only after the question was
   answered, unless another client gave it away in the meantime.              *)
NamesMoveWithConsent == [][Consented]_vars

(* The inductive invariant behind them, in parts (RollbackProofs). *)

(* A container keeps its configuration and image as long as its id: what a plan or
   a checkpoint knows of the id still holds when a step finds it.             *)
IdInv == \A c \in Ctr :
  /\ live.id[c] <= cp.id[c] /\ cp.id[c] <= eng.id[c]
  /\ Exists(eng, c) /\ eng.id[c] = live.id[c] =>
       eng.config[c] = live.config[c] /\ eng.image[c] = live.image[c]
  /\ Exists(eng, c) /\ eng.id[c] = cp.id[c] => eng.config[c] = cp.config[c]
  /\ \A m \in made : m[1] = c =>
       /\ live.id[c] < m[2] /\ m[2] <= eng.id[c]
       /\ Exists(eng, c) /\ eng.id[c] = m[2] => eng.config[c] = "recorded"

Planned  == phase \in {"checkpoint", "confirm", "apply", "done"}
Ordinary == ~ ByName(req)

(* Half-written volumes are volumes of the snapshot: one in the scope is in the plan,
   any other was so at the fetch and at the checkpoint.                       *)
VolumesInv ==
  /\ phase # "apply" => filling = NoVol
  /\ plan.vols \subseteq NeedVols(req) /\ (~ Ordinary => plan.vols = {})
  /\ \A v \in Vol : eng.vol[v] = "partial" =>
       /\ v \in snap.vols
       /\ v # filling => live.vol[v] = "partial"
       /\ Planned /\ Ordinary /\ v \in NeedVols(req) => v \in plan.vols
  /\ \A v \in Vol \ meddled : v # filling =>
       /\ v \in plan.vols \/ phase \in {"consent", "compare"} => eng.vol[v] = cp.vol[v]
       /\ eng.vol[v] = "partial" => cp.vol[v] = "partial"

(* A container is stopped, or removed, before a volume it mounts is cleared, and
   started when every volume it mounts is whole.                              *)
QuiescedInv ==
  /\ phase \in {"consent", "compare"} => \A c \in Ctr \ foreign :
       eng.running[c] /\ Exists(eng, c) =>
         live.running[c] /\ live.config[c] = eng.config[c]
  /\ \A v \in plan.vols, c \in Ctr \ foreign : eng.running[c] /\ c \in UsersOf(eng, v) =>
       <<c, live.id[c]>> \in plan.stop \cup plan.remove
  /\ \A m \in plan.restart :
       /\ Ordinary /\ m[2] = live.id[m[1]]
       /\ live.running[m[1]] \/ (m[1] \in Selected(req) /\ live.config[m[1]] = "recorded")
  /\ Ordinary => plan.start \subseteq Selected(req)
  /\ \A c \in Ctr \ foreign : Exists(eng, c) /\ eng.id[c] = live.id[c] /\ live.running[c] =>
       \A v \in Vol : c \in UsersOf(live, v) => live.vol[v] # "partial"
  /\ \A c \in Ctr, v \in Vol : c \in UsersOf(eng, v) => eng.vol[v] # "none"

(* Only what the snapshot and the fetch call for is removed or renamed, and the
   question is asked if a name would move.                                    *)
PlanInv ==
  /\ \A m \in plan.stop \cup plan.remove : m[2] = live.id[m[1]]
  /\ plan.tags \subseteq Retags(live, req)
  /\ phase \in {"compare", "checkpoint", "confirm", "apply"} /\ Ordinary
       /\ Conflicts(live, req) # {} => consent
  /\ plan.tags # {} => Ordinary /\ phase \in {"checkpoint", "confirm", "apply"}

IInv == TypeOK /\ IdInv /\ VolumesInv /\ QuiescedInv /\ PlanInv /\ NoPartialObserved

(* Until a cleared volume is filled nothing else is done. *)
FillingInv == filling # NoVol =>
  plan.stop = {} /\ plan.remove = {} /\ plan.nets = {} /\ plan.load = {} /\ plan.tags = {}

(* No command line selects two meanings of one name: containers created from it, or
   one of them and an image that has it, all mean the same image.             *)
Unambiguous == \A s \in Snapshots, r \in Requests : \A c \in r.ctrs \cap s.ctrs :
  s.ref[c] # NoTag =>
    /\ \A d \in r.ctrs \cap s.ctrs : s.ref[d] = s.ref[c] => s.image[d] = s.image[c]
    /\ s.tag[s.ref[c]] \in r.images => s.tag[s.ref[c]] = s.image[c]

(* While nobody else acts: what is not yet as the snapshot wants it is in the plan,
   and what is in no scope is as it was, or is in the plan.                   *)
ShouldRun(c) == IF c \in Selected(req) THEN c \in snap.running ELSE live.running[c]

Untouched ==
  /\ eng.config = live.config /\ eng.image = live.image /\ eng.running = live.running
  /\ eng.id = live.id /\ eng.tag = live.tag /\ eng.images = live.images
  /\ eng.nets = live.nets

Accounted(c) ==
  LET this == <<c, live.id[c]>> IN
  IF c \in Recreate(live, req)
  THEN /\ this \notin plan.stop /\ this \notin plan.restart
       /\ c \notin plan.create =>
            /\ eng.config[c] = "recorded" /\ eng.image[c] = snap.image[c]
            /\ eng.running[c] <=> c \in snap.running /\ c \notin plan.start
       /\ this \in plan.remove => c \in plan.create
       /\ c \in plan.start => c \in snap.running
       /\ c \in plan.create /\ c \in snap.running => c \in plan.start
  ELSE /\ this \notin plan.remove /\ c \notin plan.create /\ c \notin plan.start
       /\ eng.config[c] = live.config[c] /\ eng.image[c] = live.image[c]
       /\ eng.id[c] = live.id[c]
       /\ this \in plan.restart => ShouldRun(c)
       /\ this \in plan.stop /\ this \notin plan.restart => ~ ShouldRun(c)
       /\ this \notin plan.stop /\ this \notin plan.restart =>
            (eng.running[c] <=> ShouldRun(c))

CalmInv == Calm /\ Ordinary =>
  /\ phase \in {"consent", "compare"} => Untouched
  /\ Planned =>
       /\ \A c \in Ctr : Accounted(c)
       /\ \A v \in NeedVols(req) \ plan.vols : eng.vol[v] = "recorded"
       /\ NeedNets(req) \subseteq plan.nets \cup eng.nets
       /\ NeedImages(live, req) \subseteq plan.load \cup eng.images
       /\ \A m \in NeedTags(live, req) : m \in plan.tags \/ eng.tag[m[1]] = m[2]
  /\ phase = "done" => plan = NoPlan

(* A name is moved once. *)
NamesInv == Ordinary => \A t \in Tag \ touched :
  /\ phase \in {"consent", "compare"} => eng.tag[t] = live.tag[t]
  /\ \A i \in Image : <<t, i>> \in plan.tags => eng.tag[t] = live.tag[t]

(* What the documents say, and the code does not keep. *)

(* plan.go: "it will be stopped and restarted"; apply.go: "re-running the same
   command is the documented recovery".                                       *)
StoppedAreRestarted ==
  phase = "done" /\ ~ ByName(req) => owed \subseteq touched \cup foreign
==============================================================================
