-------------------------------- MODULE Drift --------------------------------
(***************************************************************************)
(* What is said about the distance between a snapshot and the engine       *)
(* (internal/snapshot/status.go, internal/cli/status.go, and the checklist *)
(* of internal/cli/tui_rollback.go), over the states of Rollback.          *)
(*                                                                         *)
(* Three pieces of code compare the two on their own: `status`, the        *)
(* rollback planner, and the full-screen checklist that fills in its       *)
(* command line.  They read different facts, so that they agree is no      *)
(* matter of course.  Networks, names of images and configurations are not *)
(* looked at by status; a volume's file index sees the difference between  *)
(* "recorded" and the other contents.                                      *)
(***************************************************************************)
EXTENDS Rollback

(* Faulty: a container that was merely stopped or started is unchanged. *)
ComputeDriftOfImages(e) ==
  LET ctrs == {c \in Ctr : Exists(e, c)}
      vols == {v \in Vol : e.vol[v] # "none"}
  IN [containers |-> [added |-> ctrs \ snap.ctrs, removed |-> snap.ctrs \ ctrs,
                      changed |-> {c \in ctrs \cap snap.ctrs : e.image[c] # snap.image[c]}],
      volumes    |-> [added |-> vols \ snap.vols, removed |-> snap.vols \ vols],
      images     |-> [added |-> e.images \ snap.images, removed |-> snap.images \ e.images]]

(* Containers and volumes go by name, images by digest. *)
ComputeDrift(e) ==
  LET ctrs == {c \in Ctr : Exists(e, c)}
      vols == {v \in Vol : e.vol[v] # "none"}
  IN [containers |-> [added |-> ctrs \ snap.ctrs, removed |-> snap.ctrs \ ctrs,
                      changed |-> {c \in ctrs \cap snap.ctrs :
                                     \/ e.image[c] # snap.image[c]
                                     \/ e.running[c] # (c \in snap.running)}],
      volumes    |-> [added |-> vols \ snap.vols, removed |-> snap.vols \ vols],
      images     |-> [added |-> e.images \ snap.images, removed |-> snap.images \ e.images]]

(* status --deep: the volumes scanned, of those wanted (none named: all), those
   that differ, and those without an index or whose scan failed.  An unknown
   name is an error before the first scan.                                      *)
Wanted(named) == IF named = {} THEN snap.vols ELSE named

Known(e, named) == named \subseteq snap.vols \cup ComputeDrift(e).volumes.added

LiveVolumeDrift(e, named, failing) ==
  LET scanned == (Wanted(named) \cap snap.vols) \ ComputeDrift(e).volumes.removed
  IN [changed |-> {v \in scanned \ failing : e.vol[v] # "recorded"},
      unavailable |-> scanned \cap failing]

(* printDrift's "No drift" *)
NoDrift(d, deep) ==
  /\ d.containers = [added |-> {}, removed |-> {}, changed |-> {}]
  /\ d.volumes = [added |-> {}, removed |-> {}]
  /\ d.images = [added |-> {}, removed |-> {}]
  /\ deep = [changed |-> {}, unavailable |-> {}]
------------------------------------------------------------------------------
(* The checklist *)

(* Faulty: what differs is ticked like what is gone. *)
PreCheckedChanged(l) ==
  [mode |-> "restore", keep |-> FALSE, ctrs |-> {},
   vols   |-> {v \in snap.vols : l.vol[v] # "recorded"},
   images |-> snap.images \ l.images,
   nets   |-> snap.nets \ l.nets]

(* The items rollbackEntityLists ticks: what is gone, but for containers, which
   have no filesystem image of their own in a snapshot of today and are all
   noted as skipped.                                                           *)
PreChecked(l) ==
  [mode |-> "restore", keep |-> FALSE, ctrs |-> {},
   vols   |-> {v \in snap.vols : l.vol[v] = "none"},
   images |-> snap.images \ l.images,
   nets   |-> snap.nets \ l.nets]
------------------------------------------------------------------------------
(* Properties *)

(* The store's lock keeps status and the checklist out of a running rollback. *)
BetweenRuns == phase \in {"idle", "done"}

Everything(m) == [mode |-> m, keep |-> FALSE, ctrs |-> snap.ctrs, vols |-> snap.vols,
                  nets |-> snap.nets, images |-> snap.images]

(* status and rollback agree (ComputeDrift, addLiveVolumeDrift; BuildPlan).  If a
   deep status of everything prints "No drift", whatever scans failed, a rollback
   of everything has nothing to rewrite, load, stop or start, and would at most
   replace containers whose configuration changed.  And after a rollback of
   everything that nobody disturbed, status finds nothing removed or changed.  *)
StatusAgreesWithRollback ==
  /\ BetweenRuns => \A failing \in SUBSET Vol :
       NoDrift(ComputeDrift(eng), LiveVolumeDrift(eng, {}, failing)) =>
         LET V == {v \in snap.vols : eng.vol[v] # "recorded"}
             p == OrdinaryPlan(eng, Everything("restore"), V)
         IN /\ p.vols = {} /\ p.load = {} /\ p.stop = {} /\ p.restart = {}
            /\ p.create = {m[1] : m \in p.remove}
            /\ \A c \in p.create : eng.config[c] = "drifted"
  /\ phase = "done" /\ Calm /\ ~ ByName(req) /\ req = Everything(req.mode) =>
       LET d == ComputeDrift(eng) IN
       /\ d.containers.removed \cup d.containers.changed = {}
       /\ d.volumes.removed = {} /\ d.images.removed = {}
       /\ \A named \in SUBSET Vol :
            Known(eng, named) => LiveVolumeDrift(eng, named, {}).changed = {}

(* Confirming the checklist as it comes up brings back what is gone and costs
   nothing that is there: the command line it becomes removes and stops no
   container and rewrites no existing volume.                                 *)
DefaultsDestroyNothing == BetweenRuns =>
  LET r == PreChecked(eng)
      p == OrdinaryPlan(eng, r, {v \in NeedVols(r) : eng.vol[v] # "recorded"})
  IN /\ p.remove = {} /\ p.stop = {}
     /\ \A v \in p.vols : eng.vol[v] = "none"
     /\ p.load = snap.images \ eng.images /\ p.nets = snap.nets \ eng.nets
==============================================================================
