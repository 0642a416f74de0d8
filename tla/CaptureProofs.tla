----------------------------- MODULE CaptureProofs -----------------------------
(***************************************************************************)
(* Proofs about Capture for any engine: any containers, images, volumes    *)
(* and networks, any --only scopes and any number of acts of other         *)
(* clients.                                                                *)
(***************************************************************************)
EXTENDS Capture, TLAPS

(* The order of the phases: the images are passed by only when none is required,
   and nothing leads back to the stop phase.                                  *)
LEMMA FollowsFacts ==
  ASSUME NEW n, NEW k, Follows(n, k)
  PROVE  /\ n \in Working /\ InScope(n)
         /\ n = "stop" => k = "start"
         /\ k = "start" /\ opt.stop => n = "stop"
         /\ n \in {"networks", "persist"} =>
              k \in {"images", "networks"} \/ required = {}
         /\ n = "images" => k \notin {"images", "networks", "persist"}
<1>1. PICK i \in 1..8, j \in 1..8 :
        /\ k = At(i) /\ n = At(j) /\ i < j /\ InScope(n)
        /\ \A m \in i+1..j-1 : ~ InScope(At(m))
  <2>1. Len(Order) = 8
    BY DEF Order
  <2> QED BY <2>1 DEF Follows
<1>2. /\ At(1) = "start" /\ At(2) = "stop" /\ At(3) = "containers" /\ At(4) = "volumes"
      /\ At(5) = "bindmounts" /\ At(6) = "images" /\ At(7) = "networks" /\ At(8) = "persist"
  BY DEF At, Order
<1> HIDE DEF At
<1>3. /\ \A x \in 1..8 : At(x) = "start" => x = 1
      /\ \A x \in 1..8 : At(x) = "stop" => x = 2
      /\ \A x \in 1..8 : At(x) = "images" => x = 6
      /\ \A x \in 1..8 : At(x) = "networks" => x = 7
      /\ \A x \in 1..8 : At(x) = "persist" => x = 8
  <2>1. \A x \in 1..8 : x \in {1, 2, 3, 4, 5, 6, 7, 8}
    OBVIOUS
  <2> QED BY <1>2, <2>1
<1>4. j \in 2..8 /\ n \in Working
  BY <1>1, <1>2 DEF Working, Kinds
<1>5. n = "stop" => k = "start"
  <2>1. n = "stop" => j = 2
    BY <1>1, <1>3
  <2> QED BY <1>1, <1>2, <2>1
<1>6. k = "start" /\ opt.stop => n = "stop"
  <2>1. k = "start" => i = 1
    BY <1>1, <1>3
  <2>2. opt.stop => InScope("stop")
    BY DEF InScope
  <2>3. i = 1 /\ j > 2 => 2 \in i+1..j-1
    BY <1>1
  <2>4. i = 1 => j = 2 \/ j > 2
    BY <1>1
  <2> QED BY <1>1, <1>2, <2>1, <2>2, <2>3, <2>4
<1>7. n \in {"networks", "persist"} => k \in {"images", "networks"} \/ required = {}
  <2>1. n \in {"networks", "persist"} => j \in 7..8
    BY <1>1, <1>3
  <2>2. k \notin {"images", "networks"} /\ j \in 7..8 => 6 \in i+1..j-1
    BY <1>1, <1>2
  <2>3. ~ InScope("images") => required = {}
    BY DEF InScope
  <2> QED BY <1>1, <1>2, <2>1, <2>2, <2>3
<1>8. n = "images" => k \notin {"images", "networks", "persist"}
  <2>1. n = "images" => j = 6
    BY <1>1, <1>3
  <2> QED BY <1>1, <1>2, <2>1
<1> QED BY <1>1, <1>4, <1>5, <1>6, <1>7, <1>8

(* The initial states satisfy the inductive invariant. *)
LEMMA InitInvariant == Init => IInv
<1> SUFFICES ASSUME Init PROVE IInv
  OBVIOUS
<1>1. phase \in Working /\ (opt.stop => phase = "stop")
  BY FollowsFacts DEF Init
<1>2. TypeOK
  <2>1. Empty \in Manifest
    BY DEF Empty, Manifest
  <2>2. state \in [Ctr -> {"running", "stopped", "restarting", "gone"}]
    BY DEF Init
  <2>3. opt \in Options /\ users \in 0..MaxUser /\ stored \subseteq Image
    BY EngineAssumption DEF Init
  <2> QED BY <1>1, <2>1, <2>2, <2>3 DEF Init, TypeOK
<1>3. RecipesInv /\ RecipesComplete
  BY DEF Init, RecipesInv, RecipesComplete, Empty
<1>4. RestartInv
  BY <1>1 DEF Init, RestartInv, Ours, Working, Kinds
<1>5. QuietInv
  BY <1>1 DEF Init, QuietInv
<1> QED BY <1>2, <1>3, <1>4, <1>5 DEF IInv

(* However Run returns: an error return, or the end of the last phase. *)
LEMMA LeavePreserves ==
  ASSUME IInv, phase \in Working, Leave,
         UNCHANGED <<engine, history, opt, stopped, deferred, stored>>,
         failure' \in {"none", "engine", "vanished", "helper"},
         committed' = committed \/ (phase = "persist" /\ committed' = man)
  PROVE  IInv'
<1> USE DEF engine, history
<1>1. TypeOK'
  <2>1. Empty \in Manifest
    BY DEF Empty, Manifest
  <2>2. phase' \in {"restart", "done"} /\ todo' \subseteq Ctr
    BY DEF Leave, IInv, TypeOK
  <2>3. committed' \in Manifest \cup {None}
    BY DEF IInv, TypeOK
  <2> QED BY <2>1, <2>2, <2>3 DEF Leave, IInv, TypeOK, Ended
<1>2. phase' \in {"restart", "done"} /\ phase' \notin Working
      /\ phase' \notin {"stop", "images", "networks", "persist"}
  BY DEF Leave, Working, Kinds
<1>3. RecipesInv'
  BY <1>2 DEF Leave, RecipesInv, Empty
<1>4. RecipesComplete'
  BY DEF IInv, RecipesInv, RecipesComplete
<1>5. RestartInv'
  BY <1>2 DEF Leave, IInv, RestartInv, Ours
<1>6. QuietInv'
  BY <1>2 DEF IInv, QuietInv
<1> QED BY <1>1, <1>3, <1>4, <1>5, <1>6 DEF IInv

(* A step within a phase that neither stops nor starts a container and commits
   nothing; what it may do to the recipes is asked of it.                     *)
LEMMA WorkPreserves ==
  ASSUME IInv, phase \in Working, phase # "stop",
         UNCHANGED <<state, before, touched, warned, opt, phase, listed, stopped, deferred,
                     committed, failure>>,
         TypeOK', RecipesInv', hot' \subseteq hot \cup Running
  PROVE  IInv'
<1>1. RecipesComplete'
  BY DEF IInv, RecipesComplete
<1>2. RestartInv'
  BY DEF IInv, RestartInv, Ours, Working, Kinds
<1>3. QuietInv'
  BY DEF IInv, QuietInv, Running
<1> QED BY <1>1, <1>2, <1>3 DEF IInv

(* The lists, and the way from one phase to the next. *)
LEMMA PhaseSteps ==
  ASSUME IInv, List \/ NextPhase
  PROVE  IInv'
<1> USE DEF engine, history
<1>1. /\ phase \in Working \ {"persist"} /\ opt \in Options
      /\ state \in [Ctr -> {"running", "stopped", "restarting", "gone"}]
  BY DEF List, NextPhase, IInv, TypeOK
<1>2. CASE List
  <2>1. CASE phase = "images" /\ ~ (required \subseteq images)
    <3>1. Fail("vanished") /\ UNCHANGED <<engine, history>>
      BY <1>2, <2>1 DEF List
    <3> QED BY <1>1, <3>1, LeavePreserves DEF Fail
  <2>2. CASE ~ (phase = "images" /\ ~ (required \subseteq images))
    <3>1. /\ ~ listed /\ listed' = TRUE /\ todo' = Listing(phase)
          /\ UNCHANGED <<engine, history, opt, phase, paths, stopped, deferred, required,
                         man, stored, committed, failure>>
      BY <1>2, <2>2 DEF List
    <3>2. Listing(phase) \subseteq Ctr \cup Vol \cup Image \cup Net
      <4>1. /\ Running \subseteq Ctr /\ Existing \subseteq Ctr /\ helpers \subseteq Vol
            /\ volumes \subseteq Vol /\ images \subseteq Image /\ networks \subseteq Net
        BY DEF Running, Existing, IInv, TypeOK
      <4>2. phase \in {"stop", "containers", "bindmounts", "volumes", "images", "networks"}
        BY <1>1 DEF Working, Kinds
      <4> QED BY <4>1, <4>2 DEF Listing
    <3>3. TypeOK'
      BY <3>1, <3>2 DEF IInv, TypeOK
    <3>4. RecipesInv'
      <4>1. phase = "images" => required \subseteq Listing(phase)
        BY <2>2 DEF Listing
      <4> QED BY <3>1, <4>1 DEF IInv, RecipesInv
    <3>5. RecipesComplete'
      BY <3>1 DEF IInv, RecipesComplete
    <3>6. phase = "stop" => todo' = {c \in Ctr : state[c] = "running"}
      BY <3>1 DEF Listing, Running
    <3>7. RestartInv'
      <4>1. phase = "stop" => \A c \in Ours : state[c] = before[c]
        BY <3>1 DEF IInv, RestartInv
      <4>2. phase # "restart" /\ phase # "done"
        BY <1>1 DEF Working, Kinds
      <4> QED BY <3>1, <3>6, <4>1, <4>2 DEF IInv, RestartInv, Ours
    <3>8. QuietInv'
      BY <3>1, <3>6 DEF IInv, QuietInv
    <3> QED BY <3>3, <3>4, <3>5, <3>7, <3>8 DEF IInv
  <2> QED BY <2>1, <2>2
<1>3. CASE NextPhase
  <2>1. /\ listed /\ todo = {} /\ Follows(phase', phase) /\ listed' = FALSE
        /\ deferred' = (deferred \/ phase = "stop")
        /\ UNCHANGED <<engine, history, opt, todo, paths, stopped, required, man, stored,
                       committed, failure>>
    BY <1>3 DEF NextPhase
  <2>2. /\ phase' \in Working /\ phase' # "stop" /\ phase' \notin {"restart", "done"}
        /\ phase' \in {"networks", "persist"} =>
             phase \in {"images", "networks"} \/ required = {}
    <3>1. phase # "start"
      BY <1>1 DEF Working, Kinds
    <3>2. \A x \in Working : x \notin {"restart", "done"}
      BY DEF Working, Kinds
    <3> QED BY <2>1, <3>1, <3>2, FollowsFacts
  <2>3. TypeOK'
    BY <2>1, <2>2 DEF IInv, TypeOK
  <2>4. RecipesInv'
    BY <2>1, <2>2 DEF IInv, RecipesInv
  <2>5. RecipesComplete'
    BY <2>1 DEF IInv, RecipesComplete
  <2>6. RestartInv'
    BY <2>1, <2>2 DEF IInv, RestartInv, Ours
  <2>7. QuietInv'
    BY <1>1, <2>1, <2>2 DEF IInv, QuietInv
  <2> QED BY <2>3, <2>4, <2>5, <2>6, <2>7 DEF IInv
<1> QED BY <1>2, <1>3

(* A container that Run stops ran when it began, unless others changed it. *)
LEMMA StopPreserves ==
  ASSUME IInv, NEW c \in Ctr, StopContainer(c)
  PROVE  IInv'
<1> USE DEF history
<1>1. /\ phase = "stop" /\ listed /\ c \in todo /\ todo' = todo \ {c}
      /\ state' = [state EXCEPT ![c] = "stopped"] /\ stopped' = stopped \cup {c}
      /\ UNCHANGED <<images, volumes, networks, helpers, users, history, opt, phase, listed,
                     paths, deferred, required, man, stored, committed, failure>>
  BY DEF StopContainer, Take
<1>2. state \in [Ctr -> {"running", "stopped", "restarting", "gone"}]
  BY DEF IInv, TypeOK
<1>3. \A x \in Ctr : state'[x] = IF x = c THEN "stopped" ELSE state[x]
  BY <1>1, <1>2
<1>4. TypeOK'
  BY <1>1, <1>2 DEF IInv, TypeOK
<1>5. RecipesInv' /\ RecipesComplete'
  BY <1>1 DEF IInv, RecipesInv, RecipesComplete
<1>6. RestartInv'
  BY <1>1, <1>3 DEF IInv, RestartInv, Ours
<1>7. QuietInv'
  BY <1>1, <1>3 DEF IInv, QuietInv
<1> QED BY <1>4, <1>5, <1>6, <1>7 DEF IInv

(* The work on one listed entity: a recipe brings its image among the required ones,
   and a required image is recorded before its phase ends.                    *)
LEMMA WorkSteps ==
  ASSUME IInv,
         \/ CallFails \/ InsertSnapshot
         \/ \E c \in Ctr : CaptureContainer(c)
         \/ \E v \in Vol : CaptureVolume(v)
         \/ \E c \in Ctr \cup Vol : InspectBinds(c) \/ InspectFails(c)
         \/ \E b \in Path : CapturePath(b)
         \/ \E i \in Image : CaptureImage(i) \/ SaveFails(i)
         \/ \E n \in Net : CaptureNetwork(n)
  PROVE  IInv'
<1> USE DEF engine, history
<1>1. /\ man \in Manifest /\ required \subseteq Image /\ Running \subseteq Ctr
      /\ todo \subseteq Ctr \cup Vol \cup Image \cup Net /\ ImageOf \in [Ctr -> Image]
      /\ BindOf \in [Ctr -> SUBSET Path] /\ paths \subseteq Path
  BY EngineAssumption DEF IInv, TypeOK, Running
<1>2. \A x \in Kinds : x \in Working /\ x # "stop"
  BY DEF Kinds, Working
<1>3. CASE CallFails
  BY <1>3, LeavePreserves DEF CallFails, Fail
<1>4. CASE InsertSnapshot
  <2>1. phase = "persist" /\ phase \in Working
    BY <1>4 DEF InsertSnapshot, Working
  <2>2. failure' \in {"none", "engine", "vanished", "helper"}
    BY <1>4 DEF InsertSnapshot, IInv, TypeOK
  <2> QED BY <1>4, <2>1, <2>2, LeavePreserves DEF InsertSnapshot
<1>5. ASSUME NEW c \in Ctr, CaptureContainer(c) PROVE IInv'
  <2>1. /\ phase = "containers" /\ todo' = todo \ {c}
        /\ man' = [man EXCEPT !.containers = @ \cup {c},
                              !.running = @ \cup ({c} \cap Running)]
        /\ required' = required \cup {ImageOf[c]}
        /\ UNCHANGED <<engine, history, opt, phase, listed, paths, stopped, deferred,
                       stored, committed, failure>>
    BY <1>5 DEF CaptureContainer, Take
  <2>2. man' \in Manifest /\ man'.containers = man.containers \cup {c}
        /\ man'.images = man.images
    BY <1>1, <2>1 DEF Manifest
  <2>3. TypeOK'
    BY <1>1, <2>1, <2>2 DEF IInv, TypeOK
  <2>4. RecipesInv'
    <3>1. {ImageOf[x] : x \in man.containers \cup {c}}
            = {ImageOf[x] : x \in man.containers} \cup {ImageOf[c]}
      OBVIOUS
    <3> QED BY <2>1, <2>2, <3>1 DEF IInv, RecipesInv
  <2>5. phase \in Working /\ phase # "stop"
    BY <2>1 DEF Working, Kinds
  <2> QED BY <2>1, <2>3, <2>4, <2>5, WorkPreserves
<1>6. ASSUME NEW v \in Vol, CaptureVolume(v) PROVE IInv'
  <2>1. /\ phase = "volumes" /\ todo' = todo \ {v}
        /\ volumes' = volumes \cup {v} /\ helpers' = helpers \cup {v}
        /\ hot' = hot \cup {c \in Running : v \in Mounts[c]}
        /\ man' = [man EXCEPT !.volumes = @ \cup {v}]
        /\ UNCHANGED <<state, images, networks, users, before, touched, warned, opt, phase,
                       listed, paths, stopped, deferred, required, stored, committed,
                       failure>>
    BY <1>6 DEF CaptureVolume, Take, Record
  <2>2. man' \in Manifest /\ man'.containers = man.containers /\ man'.images = man.images
    BY <1>1, <2>1 DEF Manifest
  <2>3. hot' \subseteq hot \cup Running
    BY <2>1
  <2>4. TypeOK'
    BY <1>1, <2>1, <2>2, <2>3 DEF IInv, TypeOK
  <2>5. RecipesInv'
    BY <2>1, <2>2 DEF IInv, RecipesInv
  <2>6. phase \in Working /\ phase # "stop"
    BY <2>1 DEF Working, Kinds
  <2> QED BY <2>1, <2>3, <2>4, <2>5, <2>6, WorkPreserves
<1>7. ASSUME NEW c \in Ctr \cup Vol, InspectBinds(c) PROVE IInv'
  <2>1. /\ phase = "bindmounts" /\ todo' = todo \ {c}
        /\ UNCHANGED <<engine, history, opt, phase, listed, stopped, deferred, required, man,
                       stored, committed, failure>>
    BY <1>7 DEF InspectBinds, Take
  <2>2. paths' \subseteq Path
    BY <1>1, <1>7 DEF InspectBinds, Existing
  <2>3. TypeOK' /\ RecipesInv'
    BY <2>1, <2>2 DEF IInv, TypeOK, RecipesInv
  <2>4. phase \in Working /\ phase # "stop"
    BY <2>1 DEF Working, Kinds
  <2> QED BY <2>1, <2>3, <2>4, WorkPreserves
<1>8. ASSUME NEW c \in Ctr \cup Vol, InspectFails(c) PROVE IInv'
  <2>1. phase \in Working
    BY <1>8 DEF InspectFails, Working, Kinds
  <2> QED BY <1>8, <2>1, LeavePreserves DEF InspectFails, Fail
<1>9. ASSUME NEW b \in Path, CapturePath(b) PROVE IInv'
  <2>1. /\ phase = "bindmounts" /\ paths' = paths \ {b}
        /\ man' = [man EXCEPT !.binds = @ \cup {b}] \/ man' = man
        /\ UNCHANGED <<engine, history, opt, phase, listed, todo, stopped, deferred,
                       required, stored, committed, failure>>
    BY <1>9 DEF CapturePath, Record
  <2>2. man' \in Manifest /\ man'.containers = man.containers /\ man'.images = man.images
    BY <1>1, <2>1 DEF Manifest
  <2>3. TypeOK' /\ RecipesInv'
    BY <2>1, <2>2 DEF IInv, TypeOK, RecipesInv
  <2>4. phase \in Working /\ phase # "stop"
    BY <2>1 DEF Working, Kinds
  <2> QED BY <2>1, <2>3, <2>4, WorkPreserves
<1>10. ASSUME NEW i \in Image, CaptureImage(i) PROVE IInv'
  <2>1. /\ phase = "images" /\ listed /\ todo' = todo \ {i} /\ stored' = stored \cup {i}
        /\ man' = [man EXCEPT !.images = @ \cup {i}]
        /\ UNCHANGED <<engine, history, opt, phase, listed, paths, stopped, deferred,
                       required, committed, failure>>
    BY <1>10 DEF CaptureImage, Take, Record
  <2>2. man' \in Manifest /\ man'.containers = man.containers
        /\ man'.images = man.images \cup {i}
    BY <1>1, <2>1 DEF Manifest
  <2>3. TypeOK' /\ RecipesInv'
    BY <2>1, <2>2 DEF IInv, TypeOK, RecipesInv
  <2>4. phase \in Working /\ phase # "stop"
    BY <2>1 DEF Working, Kinds
  <2> QED BY <2>1, <2>3, <2>4, WorkPreserves
<1>11. ASSUME NEW i \in Image, SaveFails(i) PROVE IInv'
  <2>1. phase = "images" /\ phase \in Working /\ phase # "stop"
    BY <1>11 DEF SaveFails, Working, Kinds
  <2>2. CASE i \in required
    BY <1>11, <2>1, <2>2, LeavePreserves DEF SaveFails, Fail
  <2>3. CASE i \notin required
    <3>1. /\ todo' = todo \ {i}
          /\ UNCHANGED <<engine, history, opt, phase, listed, paths, stopped, deferred,
                         required, man, stored, committed, failure>>
      BY <1>11, <2>3 DEF SaveFails, Take
    <3>2. TypeOK' /\ RecipesInv'
      BY <2>1, <2>3, <3>1 DEF IInv, TypeOK, RecipesInv
    <3> QED BY <2>1, <3>1, <3>2, WorkPreserves
  <2> QED BY <2>2, <2>3
<1>12. ASSUME NEW n \in Net, CaptureNetwork(n) PROVE IInv'
  <2>1. /\ phase = "networks" /\ todo' = todo \ {n}
        /\ man' = [man EXCEPT !.networks = @ \cup {n}]
        /\ UNCHANGED <<engine, history, opt, phase, listed, paths, stopped, deferred,
                       required, stored, committed, failure>>
    BY <1>12 DEF CaptureNetwork, Take, Record
  <2>2. man' \in Manifest /\ man'.containers = man.containers /\ man'.images = man.images
    BY <1>1, <2>1 DEF Manifest
  <2>3. TypeOK' /\ RecipesInv'
    BY <2>1, <2>2 DEF IInv, TypeOK, RecipesInv
  <2>4. phase \in Working /\ phase # "stop"
    BY <2>1 DEF Working, Kinds
  <2> QED BY <2>1, <2>3, <2>4, WorkPreserves
<1> QED BY <1>3, <1>4, <1>5, <1>6, <1>7, <1>8, <1>9, <1>10, <1>11, <1>12

(* The deferred restart, the end of the run, and a kill. *)
LEMMA EndSteps ==
  ASSUME IInv, Return \/ Kill \/ \E c \in Ctr : Restart(c)
  PROVE  IInv'
<1> USE DEF engine, history
<1>1. state \in [Ctr -> {"running", "stopped", "restarting", "gone"}]
  BY DEF IInv, TypeOK
<1>2. "restart" \notin Working /\ "done" \notin Working /\ "killed" \notin Working
  BY DEF Working, Kinds
<1>3. CASE Return
  <2>1. TypeOK' /\ RecipesInv' /\ RecipesComplete'
    BY <1>3 DEF Return, IInv, TypeOK, Ended, RecipesInv, RecipesComplete
  <2>2. RestartInv' /\ QuietInv'
    BY <1>2, <1>3 DEF Return, IInv, RestartInv, Ours, QuietInv
  <2> QED BY <2>1, <2>2 DEF IInv
<1>4. CASE Kill
  <2>1. TypeOK'
    <3>1. Empty \in Manifest
      BY DEF Empty, Manifest
    <3> QED BY <1>4, <3>1 DEF Kill, IInv, TypeOK, Ended
  <2>2. RecipesInv' /\ RecipesComplete'
    BY <1>4 DEF Kill, IInv, RecipesInv, RecipesComplete, Empty
  <2>3. RestartInv' /\ QuietInv'
    BY <1>2, <1>4 DEF Kill, IInv, RestartInv, Ours, QuietInv
  <2> QED BY <2>1, <2>2, <2>3 DEF IInv
<1>5. ASSUME NEW c \in Ctr, Restart(c) PROVE IInv'
  <2>1. /\ phase = "restart" /\ c \in todo /\ todo' = todo \ {c}
        /\ \/ state' = [state EXCEPT ![c] = "running"] /\ warned' = warned
           \/ warned' = warned \cup {c} /\ state' = state
        /\ UNCHANGED <<images, volumes, networks, helpers, users, before, touched, hot, opt,
                       phase, listed, paths, stopped, deferred, required, man, stored,
                       committed, failure>>
    BY <1>5 DEF Restart, Take
  <2>2. TypeOK'
    <3>1. state' \in [Ctr -> {"running", "stopped", "restarting", "gone"}]
          /\ warned' \subseteq warned \cup {c}
      BY <1>1, <2>1
    <3> QED BY <2>1, <3>1 DEF IInv, TypeOK
  <2>3. RecipesInv' /\ RecipesComplete'
    BY <2>1 DEF IInv, RecipesInv, RecipesComplete
  <2>4. RestartInv'
    <3>1. \A x \in Ctr : x # c => state'[x] = state[x]
      BY <1>1, <2>1
    <3>2. Ours' \subseteq Ours /\ (c \in Ours' => state'[c] = "running")
      BY <1>1, <2>1 DEF Ours
    <3>3. Ours \subseteq Ctr /\ c \in stopped
      BY <2>1 DEF Ours, IInv, RestartInv
    <3> QED BY <2>1, <3>1, <3>2, <3>3 DEF IInv, RestartInv
  <2>5. QuietInv'
    BY <1>2, <2>1 DEF IInv, QuietInv
  <2> QED BY <2>2, <2>3, <2>4, <2>5 DEF IInv
<1> QED BY <1>3, <1>4, <1>5

(* The rest of the world: what others change is theirs from then on. *)
LEMMA WorldSteps ==
  ASSUME IInv, \/ \E v \in Vol : RemoveHelper(v)
               \/ \E c \in Ctr : Flap(c)
               \/ User
  PROVE  IInv'
<1> USE DEF run, history
<1>1. state \in [Ctr -> {"running", "stopped", "restarting", "gone"}]
      /\ users \in 0..MaxUser /\ MaxUser \in Nat
  BY EngineAssumption DEF IInv, TypeOK
<1>2. ASSUME TypeOK', UNCHANGED <<run, before, warned, hot>>, touched \subseteq touched',
             \A c \in Ctr \ (touched' \cup Looping) : state'[c] = state[c]
      PROVE  IInv'
  <2>1. RecipesInv' /\ RecipesComplete'
    BY <1>2 DEF IInv, RecipesInv, RecipesComplete
  <2>2. RestartInv'
    <3>1. Ours' \subseteq Ours /\ \A c \in Ours' : state'[c] = state[c]
      BY <1>2 DEF Ours
    <3> QED BY <1>2, <3>1 DEF IInv, RestartInv
  <2>3. QuietInv'
    BY <1>2 DEF IInv, QuietInv
  <2> QED BY <1>2, <2>1, <2>2, <2>3 DEF IInv
<1>3. ASSUME NEW v \in Vol, RemoveHelper(v) PROVE IInv'
  <2>1. TypeOK'
    BY <1>3 DEF RemoveHelper, IInv, TypeOK
  <2> QED BY <1>2, <1>3, <2>1 DEF RemoveHelper
<1>4. ASSUME NEW c \in Ctr, Flap(c) PROVE IInv'
  <2>1. /\ c \in Looping
        /\ \E r \in {"running", "restarting"} : state' = [state EXCEPT ![c] = r]
        /\ UNCHANGED <<images, volumes, networks, helpers, users, run, history>>
    BY <1>4 DEF Flap
  <2>2. TypeOK'
    BY <1>1, <2>1 DEF IInv, TypeOK
  <2> QED BY <1>1, <1>2, <2>1, <2>2
<1>5. CASE User
  <2>1. users' \in 0..MaxUser /\ UNCHANGED <<helpers, run, before, warned, hot>>
    BY <1>1, <1>5 DEF User
  <2>2. CASE \E c \in Existing, r \in {"running", "stopped", "gone"} :
               /\ state' = [state EXCEPT ![c] = r] /\ touched' = touched \cup {c}
               /\ UNCHANGED <<images, volumes, networks>>
    <3>1. PICK c \in Ctr, r \in {"running", "stopped", "gone"} :
            /\ state' = [state EXCEPT ![c] = r] /\ touched' = touched \cup {c}
            /\ UNCHANGED <<images, volumes, networks>>
      BY <2>2 DEF Existing
    <3>2. TypeOK'
      BY <1>1, <2>1, <3>1 DEF IInv, TypeOK
    <3> QED BY <1>1, <1>2, <2>1, <3>1, <3>2
  <2>3. CASE /\ UNCHANGED <<state, touched>>
             /\ images' \subseteq images /\ volumes' \subseteq volumes
             /\ networks' \subseteq networks
    <3>1. TypeOK'
      BY <2>1, <2>3 DEF IInv, TypeOK
    <3> QED BY <1>2, <2>1, <2>3, <3>1
  <2> QED BY <1>5, <2>2, <2>3 DEF User
<1> QED BY <1>3, <1>4, <1>5

(* The inductive invariant holds: recipes bring their images, every container is as it
   was or Run's to restart, and nothing Run stopped runs again before it ends. *)
THEOREM InductiveInvariant == Spec => []IInv
<1>1. ASSUME IInv, [Next]_vars PROVE IInv'
  <2>1. CASE UNCHANGED vars
    BY <1>1, <2>1 DEF vars, engine, run, history, IInv, TypeOK, RecipesInv, RecipesComplete,
                      RestartInv, Ours, QuietInv
  <2>2. CASE Step
    BY <1>1, <2>2, PhaseSteps, StopPreserves, WorkSteps, EndSteps DEF Step
  <2>3. CASE Kill
    BY <1>1, <2>3, EndSteps
  <2>4. CASE (\E v \in Vol : RemoveHelper(v)) \/ (\E c \in Ctr : Flap(c)) \/ User
    BY <1>1, <2>4, WorldSteps
  <2> QED BY <1>1, <2>1, <2>2, <2>3, <2>4 DEF Next
<1> QED BY <1>1, InitInvariant, PTL DEF Spec

(* Every variable keeps its type. *)
THEOREM TypeCorrect == Spec => []TypeOK
<1>1. IInv => TypeOK
  BY DEF IInv
<1> QED BY <1>1, InductiveInvariant, PTL

(* A committed manifest has the image of every container in it, whatever other clients
   removed while the snapshot was taken.                                      *)
THEOREM RecipesAreComplete == Spec => []RecipesComplete
<1>1. IInv => RecipesComplete
  BY DEF IInv
<1> QED BY <1>1, InductiveInvariant, PTL

(* A run that got past its stop phase leaves every container nobody else touched as it
   found it, on success and on every error return, unless it warned about it. *)
THEOREM RunStateIsRestored == Spec => []RestoresRunState
<1>1. IInv => RestoresRunState
  BY DEF IInv, RestartInv, Ours, RestoresRunState
<1> QED BY <1>1, InductiveInvariant, PTL

(* In a snapshot marked consistent no volume was archived under a container that Run
   could have stopped.                                                        *)
THEOREM ArchivedCold == Spec => []AppConsistent
<1>1. IInv => AppConsistent
  BY DEF IInv, QuietInv, AppConsistent
<1> QED BY <1>1, InductiveInvariant, PTL

================================================================================
