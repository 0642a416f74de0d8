------------------------------- MODULE Capture -------------------------------
(***************************************************************************)
(* One run of `dockervc snapshot` against a live Docker engine             *)
(* (internal/snapshot/capture.go, Capturer.Run).                           *)
(*                                                                         *)
(* Every list, inspect, stop, start and save is one engine call; between   *)
(* two calls other clients of the engine start, stop and remove things,    *)
(* crash-looping containers come and go, and the helper containers of the  *)
(* volume archives are removed in the background.  A call may fail; the    *)
(* process may be killed.  What the store does with the objects is         *)
(* ObjectStore's subject; here an archived entity is a manifest record.    *)
(***************************************************************************)
EXTENDS Naturals, Sequences

CONSTANTS Ctr, Vol, Image, Net, Path,
          ImageOf,    \* the image of every container
          Mounts,     \* the volumes it mounts
          BindOf,     \* the host paths it binds
          Looping,    \* containers whose restart policy keeps relaunching them
          Scopes,     \* the --only choices considered
          Saved,      \* images an earlier snapshot stored
          Anonymous,  \* volumes with a 64-hex name
          MaxUser,    \* bound: what other engine clients do during the run
          None

ASSUME EngineAssumption ==
  /\ ImageOf \in [Ctr -> Image]
  /\ Mounts \in [Ctr -> SUBSET Vol]
  /\ BindOf \in [Ctr -> SUBSET Path]
  /\ Scopes \subseteq SUBSET {"containers", "volumes", "bindmounts", "images", "networks"}
  /\ Looping \subseteq Ctr /\ Anonymous \subseteq Vol /\ Saved \subseteq Image
  /\ Ctr \cap Vol = {}
  /\ MaxUser \in Nat

VARIABLES
  \* the engine
  state,     \* run state of every container
  images, volumes, networks,  \* what else is present
  helpers,   \* archive helper containers not yet removed, named by their volume
  users,     \* how often other clients acted
  \* the run
  opt,       \* its options
  phase,     \* where Run is
  listed,    \* the phase has made its list call
  todo,      \* listed entities not handled yet
  paths,     \* host paths collected by captureBindMounts
  stopped,   \* toRestart
  deferred,  \* the restart defer is registered
  required,  \* requiredImages
  man,       \* the manifest under construction
  stored,    \* images whose object the store has
  committed, \* the manifest InsertSnapshot wrote
  failure,   \* why Run returns an error
  \* history
  before,    \* run states when Run began
  touched,   \* containers other clients changed since
  warned,    \* containers Run could not restart
  hot        \* containers that ran while a volume they mount was archived

engine  == <<state, images, volumes, networks, helpers, users>>
run     == <<opt, phase, listed, todo, paths, stopped, deferred, required, man,
             stored, committed, failure>>
history == <<before, touched, warned, hot>>
vars    == <<engine, run, history>>

Kinds   == {"containers", "volumes", "bindmounts", "images", "networks"}
Order   == <<"start", "stop", "containers", "volumes", "bindmounts", "images",
             "networks", "persist">>
Working == {"stop", "persist"} \cup Kinds
Ended   == {"done", "killed"}

Options  == [stop : BOOLEAN, only : Scopes, anonymous : BOOLEAN]
Manifest == [containers : SUBSET Ctr, running : SUBSET Ctr, volumes : SUBSET Vol,
             binds : SUBSET Path, images : SUBSET Image, networks : SUBSET Net]
Empty    == [containers |-> {}, running |-> {}, volumes |-> {}, binds |-> {},
             images |-> {}, networks |-> {}]

TypeOK ==
  /\ state \in [Ctr -> {"running", "stopped", "restarting", "gone"}]
  /\ images \subseteq Image /\ volumes \subseteq Vol /\ networks \subseteq Net
  /\ helpers \subseteq Vol
  /\ users \in 0..MaxUser
  /\ opt \in Options
  /\ phase \in Working \cup Ended \cup {"restart"}
  /\ listed \in BOOLEAN /\ deferred \in BOOLEAN
  /\ todo \subseteq Ctr \cup Vol \cup Image \cup Net
  /\ paths \subseteq Path
  /\ stopped \subseteq Ctr
  /\ required \subseteq Image /\ stored \subseteq Image
  /\ man \in Manifest
  /\ committed \in Manifest \cup {None}
  /\ failure \in {"none", "engine", "vanished", "helper"}
  /\ before \in [Ctr -> {"running", "stopped", "restarting", "gone"}]
  /\ touched \subseteq Ctr /\ warned \subseteq Ctr /\ hot \subseteq Ctr
------------------------------------------------------------------------------
(* The order of the phases *)

(* --only limits the kinds (all of them without it; bind mounts need their own
   flag, folded into "only"); images a captured container runs are in scope
   even when images are not asked for.                                        *)
InScope(k) ==
  \/ k = "persist"
  \/ k = "stop" /\ opt.stop
  \/ k = "images" /\ required # {}
  \/ k \in opt.only

At(i) == Order[i]

(* Phase n is the first in scope after phase k. *)
Follows(n, k) == \E i, j \in 1..Len(Order) :
  /\ k = At(i) /\ n = At(j) /\ i < j
  /\ InScope(n)
  /\ \A m \in i+1..j-1 : ~ InScope(At(m))

Init ==
  /\ state \in {f \in [Ctr -> {"running", "stopped", "restarting"}] :
                  \A c \in Ctr : f[c] = "restarting" => c \in Looping}
  /\ images = Image /\ volumes = Vol /\ networks = Net
  /\ helpers = {} /\ users = 0
  /\ opt \in Options
  /\ required = {}
  /\ Follows(phase, "start")
  /\ listed = FALSE /\ todo = {} /\ paths = {} /\ stopped = {}
  /\ deferred = FALSE
  /\ man = Empty
  /\ stored = Saved
  /\ committed = None
  /\ failure = "none"
  /\ before = state
  /\ touched = {} /\ warned = {} /\ hot = {}
------------------------------------------------------------------------------
(* How Run moves on and how it returns *)

(* Faulty: the restart is not deferred but written at the end of Run, and an
   error return passes it by.                                                *)
LeaveAtOnce ==
  /\ phase' = "done" /\ todo' = {}
  /\ listed' = FALSE /\ paths' = {} /\ required' = {} /\ man' = Empty

(* Only a registered defer restarts anything: Run returns directly from the
   stop phase when a stop failed.                                           *)
Leave ==
  /\ phase' = IF deferred THEN "restart" ELSE "done"
  /\ todo' = IF deferred THEN stopped ELSE {}
  /\ listed' = FALSE /\ paths' = {} /\ required' = {} /\ man' = Empty

Fail(why) ==
  /\ Leave
  /\ failure' = why
  /\ UNCHANGED <<opt, stopped, deferred, stored, committed>>

(* Any engine or storage call the phase has still to make returns an error. *)
CallFails ==
  /\ phase \in Working
  /\ listed => todo # {} \/ paths # {}
  /\ Fail("engine")
  /\ UNCHANGED <<engine, history>>

Existing == {c \in Ctr : state[c] # "gone"}
Running  == {c \in Ctr : state[c] = "running"}

Listing(k) ==
  CASE k = "stop"       -> Running
    [] k = "containers" -> Existing \cup helpers
    [] k = "bindmounts" -> Existing \cup helpers
    [] k = "volumes"    -> IF opt.anonymous THEN volumes ELSE volumes \ Anonymous
    [] k = "images"     -> IF k \in opt.only THEN images ELSE images \cap required
    [] k = "networks"   -> networks

(* The phase's list call, and its filter.  captureImages refuses to go on when
   an image a captured container needs is not listed.                        *)
List ==
  /\ phase \in Working \ {"persist"}
  /\ ~ listed
  /\ IF phase = "images" /\ ~ (required \subseteq images)
     THEN Fail("vanished")
     ELSE /\ listed' = TRUE
          /\ todo' = Listing(phase)
          /\ UNCHANGED <<opt, phase, paths, stopped, deferred, required, man, stored,
                         committed, failure>>
  /\ UNCHANGED <<engine, history>>

NextPhase ==
  /\ phase \in Working \ {"persist"}
  /\ listed /\ todo = {} /\ paths = {}
  /\ Follows(phase', phase)
  /\ listed' = FALSE
  /\ deferred' = (deferred \/ phase = "stop")
  /\ UNCHANGED <<engine, history, opt, todo, paths, stopped, required, man, stored,
                 committed, failure>>

Take(e) == e \in todo /\ todo' = todo \ {e}

Record(field, e) == man' = [man EXCEPT ![field] = @ \cup {e}]
------------------------------------------------------------------------------
(* The phases' work on one listed entity *)

(* Faulty: the stop is requested, its end not awaited. *)
StopContainerAsync(c) ==
  /\ phase = "stop" /\ listed
  /\ Take(c)
  /\ state[c] # "gone"
  /\ stopped' = stopped \cup {c}
  /\ UNCHANGED <<engine, history, opt, phase, listed, paths, deferred, required, man,
                 stored, committed, failure>>

(* StopContainer returns once the container has stopped; one that is gone is an
   error (CallFails).                                                         *)
StopContainer(c) ==
  /\ phase = "stop" /\ listed
  /\ Take(c)
  /\ state[c] # "gone"
  /\ state' = [state EXCEPT ![c] = "stopped"]
  /\ stopped' = stopped \cup {c}
  /\ UNCHANGED <<images, volumes, networks, helpers, users, history, opt, phase, listed,
                 paths, deferred, required, man, stored, committed, failure>>

(* Faulty: the container is noted as the image it requires. *)
CaptureContainerMixed(c) ==
  /\ phase = "containers" /\ listed
  /\ Take(c)
  /\ state[c] # "gone"
  /\ man' = [man EXCEPT !.containers = @ \cup {c}, !.running = @ \cup ({c} \cap Running)]
  /\ required' = required \cup {c}
  /\ UNCHANGED <<engine, history, opt, phase, listed, paths, stopped, deferred, stored,
                 committed, failure>>

(* The recipe: inspect, image and run state, all as of now. *)
CaptureContainer(c) ==
  /\ phase = "containers" /\ listed
  /\ Take(c)
  /\ state[c] # "gone"
  /\ man' = [man EXCEPT !.containers = @ \cup {c},
                        !.running = @ \cup ({c} \cap Running)]
  /\ required' = required \cup {ImageOf[c]}
  /\ UNCHANGED <<engine, history, opt, phase, listed, paths, stopped, deferred, stored,
                 committed, failure>>

(* The archive helper binds the volume by name, so the engine creates a volume
   that has disappeared since the list, and archives it empty.               *)
CaptureVolume(v) ==
  /\ phase = "volumes" /\ listed
  /\ Take(v)
  /\ volumes' = volumes \cup {v}
  /\ helpers' = helpers \cup {v}
  /\ hot' = hot \cup {c \in Running : v \in Mounts[c]}
  /\ Record("volumes", v)
  /\ UNCHANGED <<state, images, networks, users, before, touched, warned, opt, phase,
                 listed, paths, stopped, deferred, required, stored, committed, failure>>

InspectBinds(c) ==
  /\ phase = "bindmounts" /\ listed
  /\ Take(c)
  /\ \/ c \in Existing /\ paths' = paths \cup BindOf[c]
     \/ c \in helpers /\ UNCHANGED paths
  /\ UNCHANGED <<engine, history, opt, phase, listed, stopped, deferred, required, man,
                 stored, committed, failure>>

(* A path that cannot be opened is a warning. *)
CapturePath(b) ==
  /\ phase = "bindmounts" /\ listed /\ todo = {}
  /\ b \in paths
  /\ paths' = paths \ {b}
  /\ Record("binds", b) \/ UNCHANGED man
  /\ UNCHANGED <<engine, history, opt, phase, listed, todo, stopped, deferred, required,
                 stored, committed, failure>>

(* A listed container is gone when it is inspected. *)
InspectFails(c) ==
  /\ phase \in {"containers", "bindmounts"} /\ listed
  /\ c \in todo \ (Existing \cup helpers)
  /\ Fail(IF c \in Ctr THEN "vanished" ELSE "helper")
  /\ UNCHANGED <<engine, history>>

(* An image with a stored object is not saved again, present or not. *)
CaptureImage(i) ==
  /\ phase = "images" /\ listed
  /\ Take(i)
  /\ i \in stored \cup images
  /\ stored' = stored \cup {i}
  /\ Record("images", i)
  /\ UNCHANGED <<engine, history, opt, phase, listed, paths, stopped, deferred, required,
                 committed, failure>>

(* Faulty: a warning for every image. *)
SaveFailsSoftly(i) ==
  /\ phase = "images" /\ listed
  /\ i \in todo \ stored
  /\ Take(i)
  /\ UNCHANGED <<engine, history, opt, phase, listed, paths, stopped, deferred, required,
                 man, stored, committed, failure>>

(* docker save fails or the image is gone: fatal if a captured container needs
   it, else a warning.                                                        *)
SaveFails(i) ==
  /\ phase = "images" /\ listed
  /\ i \in todo \ stored
  /\ IF i \in required
     THEN Fail("vanished")
     ELSE /\ Take(i)
          /\ UNCHANGED <<opt, phase, listed, paths, stopped, deferred, required, man,
                         stored, committed, failure>>
  /\ UNCHANGED <<engine, history>>

CaptureNetwork(n) ==
  /\ phase = "networks" /\ listed
  /\ Take(n)
  /\ n \in networks
  /\ Record("networks", n)
  /\ UNCHANGED <<engine, history, opt, phase, listed, paths, stopped, deferred, required,
                 stored, committed, failure>>

InsertSnapshot ==
  /\ phase = "persist"
  /\ committed' = man
  /\ Leave
  /\ UNCHANGED <<engine, history, opt, stopped, deferred, stored, failure>>
------------------------------------------------------------------------------
(* The deferred restart *)

(* Faulty: the first container that does not start ends the restart. *)
RestartUntilError(c) ==
  /\ phase = "restart"
  /\ c \in todo
  /\ \/ /\ state[c] # "gone"
        /\ state' = [state EXCEPT ![c] = "running"]
        /\ todo' = todo \ {c}
        /\ UNCHANGED warned
     \/ /\ warned' = warned \cup {c}
        /\ todo' = {}
        /\ UNCHANGED state
  /\ UNCHANGED <<images, volumes, networks, helpers, users, before, touched, hot, opt,
                 phase, listed, paths, stopped, deferred, required, man, stored,
                 committed, failure>>

(* A container that does not start is logged. *)
Restart(c) ==
  /\ phase = "restart"
  /\ Take(c)
  /\ \/ /\ state[c] # "gone"
        /\ state' = [state EXCEPT ![c] = "running"]
        /\ UNCHANGED warned
     \/ warned' = warned \cup {c} /\ UNCHANGED state
  /\ UNCHANGED <<images, volumes, networks, helpers, users, before, touched, hot, opt,
                 phase, listed, paths, stopped, deferred, required, man, stored,
                 committed, failure>>

Return ==
  /\ phase = "restart" /\ todo = {}
  /\ phase' = "done"
  /\ UNCHANGED <<engine, history, opt, listed, todo, paths, stopped, deferred, required,
                 man, stored, committed, failure>>

(* Ctrl-C or a crash: no signal is handled, so no defer runs. *)
Kill ==
  /\ phase \notin Ended
  /\ phase' = "killed"
  /\ todo' = {} /\ listed' = FALSE /\ paths' = {} /\ required' = {} /\ man' = Empty
  /\ UNCHANGED <<engine, history, opt, stopped, deferred, stored, committed, failure>>

Step ==
  \/ CallFails \/ List \/ NextPhase
  \/ \E c \in Ctr : \/ StopContainer(c) \/ CaptureContainer(c) \/ Restart(c)
  \/ \E v \in Vol : CaptureVolume(v)
  \/ \E c \in Ctr \cup Vol : InspectBinds(c) \/ InspectFails(c)
  \/ \E b \in Path : CapturePath(b)
  \/ \E i \in Image : CaptureImage(i) \/ SaveFails(i)
  \/ \E n \in Net : CaptureNetwork(n)
  \/ InsertSnapshot \/ Return
------------------------------------------------------------------------------
(* The rest of the world *)

(* go v.cleanup(): the helper of a drained volume is removed at some point. *)
RemoveHelper(v) ==
  /\ helpers' = helpers \ {v}
  /\ v \in helpers
  /\ UNCHANGED <<state, images, volumes, networks, users, run, history>>

(* Crash-looping containers; one that was stopped stays down. *)
Flap(c) ==
  /\ c \in Looping
  /\ \/ state[c] = "restarting" /\ state' = [state EXCEPT ![c] = "running"]
     \/ state[c] = "running" /\ state' = [state EXCEPT ![c] = "restarting"]
  /\ UNCHANGED <<images, volumes, networks, helpers, users, run, history>>

(* Other clients: docker start, stop, rm; docker rmi, volume rm, network rm,
   as far as the engine lets them remove what is in use.                     *)
User ==
  /\ users < MaxUser
  /\ users' = users + 1
  /\ \/ \E c \in Existing, v \in {"running", "stopped", "gone"} :
          /\ state' = [state EXCEPT ![c] = v]
          /\ touched' = touched \cup {c}
          /\ UNCHANGED <<images, volumes, networks>>
     \/ /\ \E i \in images \ {ImageOf[c] : c \in Running} : images' = images \ {i}
        /\ UNCHANGED <<state, volumes, networks, touched>>
     \/ /\ \E v \in volumes \ (helpers \cup UNION {Mounts[c] : c \in Existing}) :
             volumes' = volumes \ {v}
        /\ UNCHANGED <<state, images, networks, touched>>
     \/ /\ \E n \in networks : networks' = networks \ {n}
        /\ UNCHANGED <<state, images, volumes, touched>>
  /\ UNCHANGED <<helpers, run, before, warned, hot>>

Next ==
  \/ Step \/ Kill
  \/ \E v \in Vol : RemoveHelper(v)
  \/ \E c \in Ctr : Flap(c)
  \/ User

Spec == Init /\ [][Next]_vars

(* The run goes on as long as it lives: every engine call returns. *)
FairSpec == Spec /\ WF_vars(Step)
------------------------------------------------------------------------------
(* Properties *)

(* A committed manifest that has a container has the image it runs, whatever
   other clients removed in the meantime, and also when images were not asked
   for (requiredImages in captureContainers and captureImages).              *)
RecipesComplete ==
  committed # None => {ImageOf[c] : c \in committed.containers} \subseteq committed.images

(* A run that got past its stop phase leaves every container nobody else
   touched as it found it, unless it warned about it: on success, and on every
   error return.                                                              *)
RestoresRunState ==
  phase = "done" /\ deferred =>
    \A c \in Ctr \ (touched \cup warned \cup Looping) : state[c] = before[c]

(* In a snapshot marked consistent no volume was archived under a running
   container, but for containers another client started meanwhile and those
   the engine keeps relaunching (only "running" ones are stopped).           *)
AppConsistent ==
  committed # None /\ opt.stop => hot \subseteq touched \cup Looping

(* Once everything was stopped, a container that was stopped is started again
   or reported, however the run ends, unless the process is killed.          *)
StoppedComeBack ==
  \A c \in Ctr :
    (deferred /\ c \in stopped)
      ~> (state[c] # "stopped" \/ c \in touched \cup warned \/ phase = "killed")

(* The inductive invariant behind the three (CaptureProofs). *)

(* A recipe in the manifest has its image among the required ones, and past the
   phase of the images those are recorded.                                    *)
RecipesInv ==
  /\ {ImageOf[c] : c \in man.containers} \subseteq required
  /\ phase = "images" /\ listed => required \subseteq todo \cup man.images
  /\ phase \in {"networks", "persist"} => required \subseteq man.images

(* Left to Run: nobody else changed the container, or failed to start it. *)
Ours == Ctr \ (touched \cup warned \cup Looping)

(* Of those, Run stops the ones that ran when it began, and changes no other; once
   it restarts, the ones it is through with run.                              *)
RestartInv ==
  /\ phase = "stop" /\ ~ listed => stopped = {}
  /\ phase = "restart" => todo \subseteq stopped
  /\ \A c \in Ours :
       /\ c \notin stopped => state[c] = before[c]
       /\ c \in stopped => before[c] = "running"
       /\ c \in stopped /\ c \notin todo /\ phase = "restart" => state[c] = "running"
       /\ c \in stopped /\ deferred /\ phase = "done" => state[c] = "running"
       /\ c \in todo /\ phase = "stop" => before[c] = "running"

(* After the stop phase nothing runs but what another client or the restart policy
   of a container started.                                                    *)
QuietInv == opt.stop =>
  /\ hot \subseteq touched \cup Looping
  /\ phase \in Working =>
       \A c \in Ctr \ (touched \cup Looping) :
         state[c] = "running" => phase = "stop" /\ (listed => c \in todo)

IInv == TypeOK /\ RecipesInv /\ RecipesComplete /\ RestartInv /\ QuietInv

(* What the code says of itself, and does not keep. *)

(* capture.go: "restart whatever we stopped when done (even on failure)". *)
RestartsEvenOnFailure ==
  phase = "done" =>
    \A c \in Ctr \ (touched \cup warned \cup Looping) : state[c] = before[c]

(* capture.go: "Record running state, stop, and restart"; DESIGN.md: "their
   run-state is recorded either way, so rollback restores it correctly".     *)
RunStateRecorded ==
  committed # None =>
    \A c \in committed.containers \ (touched \cup Looping) :
      c \in committed.running <=> before[c] = "running"
==============================================================================
