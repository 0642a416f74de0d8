----------------------------- MODULE ObjectStore -----------------------------
(***************************************************************************)
(* The content-addressed store of dockervc and the commands that change    *)
(* it: snapshot, import, delete, prune and doctor --repair                 *)
(* (internal/store, internal/cli/{snapshot,maintenance,doctor,import}.go). *)
(*                                                                         *)
(* A step is one durable effect: a rename into objects/, one SQL statement *)
(* or transaction, one unlink.  Between two steps a command may fail (an   *)
(* I/O error, a cancelled prompt) or its process may die, and the next     *)
(* command starts from whatever is on disk.  Commands are serialised by    *)
(* the exclusive flock openLocked takes; an Open that finds the lock taken *)
(* fails at once and changes nothing, so it is no action here.             *)
(*                                                                         *)
(* Abstracted: the bytes of an object are "good" (they hash to its name),  *)
(* "bad" or absent; a manifest is the set of hashes it references; staging *)
(* files in tmp/ appear only as the pc "staged", since nothing reads them. *)
(***************************************************************************)
EXTENDS FiniteSets, Naturals

CONSTANTS Proc,       \* dockervc processes
          Hash,       \* content hashes
          Snap,       \* snapshot identifiers
          Key,        \* image keys ("image-neutral-v1:" + digest)
          MaxDamage,  \* bound: how often the environment damages a file
          NoProc, NoHash, NoKey, Absent

ASSUME SentinelAssumption ==
  /\ NoProc \notin Proc /\ NoHash \notin Hash /\ NoKey \notin Key
  /\ \A H \in SUBSET Hash : Absent # H
ASSUME DamageAssumption == MaxDamage \in Nat

VARIABLES
  files,     \* objects/<xx>/<hash>: "good", "bad" or "absent"
  rows,      \* table objects: the hashes with a row
  keyed,     \* its column image_key
  missized,  \* its column size: the rows whose size is not that of the good bytes
  manifest,  \* table snapshots: the objects each manifest references
  refs,      \* table refs
  damaged,   \* history: hashes damaged by the environment since last written
  hits,      \* how often that happened
  holder,    \* the process holding <store>/lock
  pc,        \* what each process does next
  mode,      \* the command it runs
  todo,      \* its remaining object list (archive objects, prune list)
  got,       \* the objects of the manifest it assembles or imports
  cur, ckey, \* the object and image key it has in hand
  targets,   \* its remaining snapshot list
  strays,    \* doctor's list of untracked files
  deep,      \* doctor --deep
  clean      \* history: nothing declined, failed or damaged since diagnose

disk  == <<files, rows, keyed, missized, manifest, refs>>
env   == <<damaged, hits>>
local == <<mode, todo, got, cur, ckey, targets, strays, deep>>
vars  == <<disk, env, holder, pc, local, clean>>

Labels == {"idle", "capture", "staged", "published", "adopt",
           "confirmPrune", "sweep", "unlink", "confirmDelete", "drop",
           "confirmBroken", "orphans", "confirmOrphans", "confirmStrays",
           "strays", "recheck"}
Modes  == {"none", "snapshot", "import", "prune", "delete", "doctor"}

TypeOK ==
  /\ files \in [Hash -> {"good", "bad", "absent"}]
  /\ rows \in SUBSET Hash
  /\ keyed \in [Hash -> Key \cup {NoKey}] /\ missized \in SUBSET Hash
  /\ manifest \in [Snap -> {Absent} \cup SUBSET Hash]
  /\ refs \in SUBSET (Snap \X Hash)
  /\ damaged \in SUBSET Hash
  /\ hits \in 0..MaxDamage
  /\ holder \in Proc \cup {NoProc}
  /\ pc \in [Proc -> Labels]
  /\ mode \in [Proc -> Modes]
  /\ todo \in [Proc -> SUBSET Hash]
  /\ got \in [Proc -> SUBSET Hash]
  /\ cur \in [Proc -> Hash \cup {NoHash}]
  /\ ckey \in [Proc -> Key \cup {NoKey}]
  /\ targets \in [Proc -> SUBSET Snap]
  /\ strays \in [Proc -> SUBSET Hash]
  /\ deep \in [Proc -> BOOLEAN]
  /\ clean \in [Proc -> BOOLEAN]
  /\ \A p \in Proc : pc[p] \in {"staged", "published", "unlink"} => cur[p] \in Hash

Init ==
  /\ files = [h \in Hash |-> "absent"]
  /\ rows = {}
  /\ keyed = [h \in Hash |-> NoKey] /\ missized = {}
  /\ manifest = [s \in Snap |-> Absent]
  /\ refs = {}
  /\ damaged = {}
  /\ hits = 0
  /\ holder = NoProc
  /\ pc = [p \in Proc |-> "idle"]
  /\ mode = [p \in Proc |-> "none"]
  /\ todo = [p \in Proc |-> {}]
  /\ got = [p \in Proc |-> {}]
  /\ cur = [p \in Proc |-> NoHash]
  /\ ckey = [p \in Proc |-> NoKey]
  /\ targets = [p \in Proc |-> {}]
  /\ strays = [p \in Proc |-> {}]
  /\ deep = [p \in Proc |-> FALSE]
  /\ clean = [p \in Proc |-> FALSE]
------------------------------------------------------------------------------
(* Queries *)

Stored == {s \in Snap : manifest[s] # Absent}

Unreferenced == {h \in rows : \A s \in Snap : <<s, h>> \notin refs}

Untracked == {h \in Hash : files[h] # "absent" /\ h \notin rows}

Missing(s) == {h \in manifest[s] : files[h] = "absent"}

(* Only catalogued objects are re-hashed, and only if their file is there.  A good
   file whose row has the size of a damaged one is taken for corrupted, too.   *)
Corrupted == {h \in rows : \/ files[h] = "bad"
                           \/ files[h] = "good" /\ h \in missized}

(* Faulty: the findings of --deep are reported but not repaired. *)
BrokenShallow(d) == {s \in Stored : Missing(s) # {}}

Broken(d) == {s \in Stored : \/ Missing(s) # {}
                             \/ d /\ manifest[s] \cap Corrupted # {}}

(* diagnose found nothing. *)
Healthy(d) ==
  /\ Broken(d) = {}
  /\ Unreferenced = {}
  /\ Untracked = {}
  /\ d => Corrupted = {}

(* Faulty: an object another snapshot shares counts, too. *)
ExclusiveShared(s) == {h \in rows : s \in {t \in Snap : <<t, h>> \in refs}}

(* SnapshotStorageInfo: the objects only this snapshot keeps alive. *)
Exclusive(s) == {h \in rows : {t \in Snap : <<t, h>> \in refs} = {s}}
------------------------------------------------------------------------------
(* The lock, and the ways a command ends *)

Goto(p, l) == pc' = [pc EXCEPT ![p] = l]

(* A finished or dead process keeps no local state. *)
Forget(p) ==
  /\ pc' = [pc EXCEPT ![p] = "idle"]
  /\ mode' = [mode EXCEPT ![p] = "none"]
  /\ todo' = [todo EXCEPT ![p] = {}]
  /\ got' = [got EXCEPT ![p] = {}]
  /\ cur' = [cur EXCEPT ![p] = NoHash]
  /\ ckey' = [ckey EXCEPT ![p] = NoKey]
  /\ targets' = [targets EXCEPT ![p] = {}]
  /\ strays' = [strays EXCEPT ![p] = {}]
  /\ deep' = [deep EXCEPT ![p] = FALSE]
  /\ clean' = [clean EXCEPT ![p] = FALSE]

Unlock(p) == holder' = IF holder = p THEN NoProc ELSE holder

(* PersistentPostRun, or runArgs when RunE returned an error. *)
Close(p) == Forget(p) /\ Unlock(p)

(* Faulty: a shared lock. *)
LockShared(p) == holder' = p

(* Open: a non-blocking exclusive lock on <store>/lock. *)
Lock(p) == holder = NoProc /\ holder' = p

Begin(p, m) ==
  /\ pc[p] = "idle"
  /\ Lock(p)
  /\ mode' = [mode EXCEPT ![p] = m]
  /\ UNCHANGED <<disk, env, cur, ckey>>

(* Faulty: cobra skips PersistentPostRun after an error, and nothing makes up
   for it in a process that lives on.                                       *)
AbortHolding(p) ==
  /\ pc[p] # "idle"
  /\ Forget(p)
  /\ UNCHANGED <<disk, env, holder>>

(* An error ends the command, or the process is killed and the kernel drops
   its lock: either way the disk stays as the last step left it.            *)
Abort(p) ==
  /\ pc[p] # "idle"
  /\ Close(p)
  /\ UNCHANGED <<disk, env>>
------------------------------------------------------------------------------
(* snapshot: PutBlobTracked for every entity, then InsertSnapshot *)

(* Fresh identifiers do not run out: Snap is a bound. *)
BeginSnapshot(p) ==
  /\ Stored # Snap
  /\ Begin(p, "snapshot")
  /\ Goto(p, "capture")
  /\ UNCHANGED <<todo, got, targets, strays, deep, clean>>

(* An image whose key has a row is not saved again: the row is trusted, the
   file is not looked at.                                                   *)
ReuseImage(p, h) ==
  /\ pc[p] = "capture"
  /\ h \in rows \ got[p] /\ keyed[h] # NoKey
  /\ got' = [got EXCEPT ![p] = @ \cup {h}]
  /\ UNCHANGED <<disk, env, holder, pc, mode, todo, cur, ckey, targets, strays,
                 deep, clean>>

(* The stream is compressed, hashed and synced in tmp/.  Entities are finitely
   many: one more with content this snapshot already holds changes nothing.  *)
StageBlob(p, h, k) ==
  /\ pc[p] = "capture"
  /\ h \notin got[p]
  /\ k # NoKey => \A g \in rows : keyed[g] # k
  /\ Goto(p, "staged")
  /\ cur' = [cur EXCEPT ![p] = h]
  /\ ckey' = [ckey EXCEPT ![p] = k]
  /\ UNCHANGED <<disk, env, holder, mode, todo, got, targets, strays, deep, clean>>

(* The object file for h now holds freshly hashed bytes. *)
WriteFile(h) ==
  /\ files' = [files EXCEPT ![h] = "good"]
  /\ damaged' = damaged \ {h}

(* PutBlob stats the object path after staging and keeps a file that is there,
   whatever it holds; AdoptObject decided before staging and renames over it. *)
Publish(p) ==
  /\ pc[p] = "staged"
  /\ IF mode[p] = "snapshot" /\ files[cur[p]] # "absent"
     THEN UNCHANGED <<files, damaged>>
     ELSE WriteFile(cur[p])
  /\ Goto(p, "published")
  /\ UNCHANGED <<rows, keyed, missized, manifest, refs, hits, holder, local, clean>>

(* PutObject: INSERT OR IGNORE, so an existing row keeps its image key and its size.
   A new one gets the size of the file that is there now (fileSize: 0 for none); a
   damaged one may have another than the good bytes.                           *)
RecordRow(p) ==
  /\ pc[p] = "published"
  /\ rows' = rows \cup {cur[p]}
  /\ keyed' = IF cur[p] \in rows THEN keyed
              ELSE [keyed EXCEPT ![cur[p]] = ckey[p]]
  /\ \/ UNCHANGED missized
     \/ /\ cur[p] \notin rows /\ files[cur[p]] # "good"
        /\ missized' = missized \cup {cur[p]}
  /\ Goto(p, IF mode[p] = "snapshot" THEN "capture" ELSE "adopt")
  /\ got' = [got EXCEPT ![p] = @ \cup {cur[p]}]
  /\ todo' = [todo EXCEPT ![p] = @ \ {cur[p]}]
  /\ cur' = [cur EXCEPT ![p] = NoHash]
  /\ ckey' = [ckey EXCEPT ![p] = NoKey]
  /\ UNCHANGED <<files, manifest, refs, env, holder, mode, targets, strays, deep,
                 clean>>

(* Faulty: the parameters of INSERT INTO refs swapped. *)
InsertSnapshotSwapped(s, H) ==
  /\ H \subseteq rows
  /\ manifest' = [manifest EXCEPT ![s] = H]
  /\ refs' = refs \cup {<<h, s>> : h \in H}

(* One transaction: the snapshot row and its refs.  The foreign key refs.hash
   -> objects.hash rejects it when an object has no row.                     *)
InsertSnapshot(s, H) ==
  /\ H \subseteq rows
  /\ manifest' = [manifest EXCEPT ![s] = H]
  /\ refs' = refs \cup {<<s, h>> : h \in H}

CommitSnapshot(p, s) ==
  /\ pc[p] = "capture"
  /\ manifest[s] = Absent
  /\ InsertSnapshot(s, got[p])
  /\ Close(p)
  /\ UNCHANGED <<files, rows, keyed, missized, env>>
------------------------------------------------------------------------------
(* import: Adopt every object of the archive, then Register its manifest *)

BeginImport(p, s, H) ==
  /\ Begin(p, "import")
  /\ Goto(p, "adopt")
  /\ todo' = [todo EXCEPT ![p] = H]
  /\ targets' = [targets EXCEPT ![p] = {s}]
  /\ UNCHANGED <<got, strays, deep, clean>>

(* AdoptObject: a present file is kept unread, only the incoming bytes are
   re-hashed; otherwise they are staged.  Bytes that do not hash to their name
   end the import (Abort).                                                    *)
AdoptObject(p, h) ==
  /\ pc[p] = "adopt"
  /\ h \in todo[p]
  /\ Goto(p, IF files[h] = "absent" THEN "staged" ELSE "published")
  /\ cur' = [cur EXCEPT ![p] = h]
  /\ UNCHANGED <<disk, env, holder, mode, todo, got, ckey, targets, strays, deep,
                 clean>>

(* Faulty: an import replaces the snapshot that has its id. *)
RegisterOverwriting(p, s) ==
  /\ pc[p] = "adopt"
  /\ todo[p] = {}
  /\ s \in targets[p]
  /\ InsertSnapshot(s, got[p])
  /\ Close(p)
  /\ UNCHANGED <<files, rows, keyed, missized, env>>

(* Register: the same manifest again is a no-op, another one under the same id
   is refused.                                                                *)
Register(p, s) ==
  /\ pc[p] = "adopt"
  /\ todo[p] = {}
  /\ s \in targets[p]
  /\ IF manifest[s] = Absent
     THEN InsertSnapshot(s, got[p])
     ELSE UNCHANGED <<manifest, refs>>
  /\ Close(p)
  /\ UNCHANGED <<files, rows, keyed, missized, env>>
------------------------------------------------------------------------------
(* delete: every id resolved first, one confirmation, then one by one *)

BeginDelete(p, S) ==
  /\ S # {} /\ S \subseteq Stored
  /\ Begin(p, "delete")
  /\ Goto(p, "confirmDelete")
  /\ targets' = [targets EXCEPT ![p] = S]
  /\ UNCHANGED <<todo, got, strays, deep, clean>>

DeleteSnapshot(p, s) ==
  /\ pc[p] = "drop"
  /\ s \in targets[p] /\ manifest[s] # Absent
  /\ manifest' = [manifest EXCEPT ![s] = Absent]
  /\ refs' = {r \in refs : r[1] # s}
  /\ targets' = [targets EXCEPT ![p] = @ \ {s}]
  /\ UNCHANGED <<files, rows, keyed, missized, env, holder, pc, mode, todo, got, cur,
                 ckey, strays, deep, clean>>

(* A deletion that fails is reported, and the next one tried (doctor, too). *)
KeepSnapshot(p, s) ==
  /\ pc[p] = "drop"
  /\ s \in targets[p]
  /\ targets' = [targets EXCEPT ![p] = @ \ {s}]
  /\ clean' = [clean EXCEPT ![p] = FALSE]
  /\ UNCHANGED <<disk, env, holder, pc, mode, todo, got, cur, ckey, strays, deep>>

EndDelete(p) ==
  /\ pc[p] = "drop"
  /\ targets[p] = {}
  /\ mode[p] = "delete"
  /\ Close(p)
  /\ UNCHANGED <<disk, env>>
------------------------------------------------------------------------------
(* prune, and the object sweep doctor shares with it: DeleteObject drops the
   row, then the file                                                       *)

BeginPrune(p) ==
  /\ Unreferenced # {}
  /\ Begin(p, "prune")
  /\ Goto(p, "confirmPrune")
  /\ todo' = [todo EXCEPT ![p] = Unreferenced]
  /\ UNCHANGED <<got, targets, strays, deep, clean>>

IsReferenced(h) == \E s \in Snap : <<s, h>> \in refs

(* The foreign key refuses to delete the row of a referenced object. *)
DeleteRow(p, h) ==
  /\ pc[p] = "sweep"
  /\ h \in todo[p]
  /\ ~ IsReferenced(h)
  /\ rows' = rows \ {h}
  /\ keyed' = [keyed EXCEPT ![h] = NoKey] /\ missized' = missized \ {h}
  /\ todo' = [todo EXCEPT ![p] = @ \ {h}]
  /\ cur' = [cur EXCEPT ![p] = h]
  /\ Goto(p, "unlink")
  /\ UNCHANGED <<files, manifest, refs, env, holder, mode, got, ckey, targets,
                 strays, deep, clean>>

(* The statement fails (foreign key, I/O): reported, the sweep goes on. *)
SkipRow(p, h) ==
  /\ pc[p] = "sweep"
  /\ h \in todo[p]
  /\ todo' = [todo EXCEPT ![p] = @ \ {h}]
  /\ clean' = [clean EXCEPT ![p] = FALSE]
  /\ UNCHANGED <<disk, env, holder, pc, mode, got, cur, ckey, targets, strays, deep>>

RemoveFile(h) ==
  /\ files' = [files EXCEPT ![h] = "absent"]
  /\ damaged' = damaged \ {h}

UnlinkFile(p) ==
  /\ pc[p] = "unlink"
  /\ RemoveFile(cur[p])
  /\ Goto(p, "sweep")
  /\ cur' = [cur EXCEPT ![p] = NoHash]
  /\ UNCHANGED <<rows, keyed, missized, manifest, refs, hits, holder, mode, todo, got,
                 ckey, targets, strays, deep, clean>>

(* The unlink fails: the row is gone, the file stays behind untracked. *)
KeepFile(p) ==
  /\ pc[p] = "unlink"
  /\ Goto(p, "sweep")
  /\ cur' = [cur EXCEPT ![p] = NoHash]
  /\ clean' = [clean EXCEPT ![p] = FALSE]
  /\ UNCHANGED <<disk, env, holder, mode, todo, got, ckey, targets, strays, deep>>

EndPrune(p) ==
  /\ pc[p] = "sweep"
  /\ todo[p] = {}
  /\ mode[p] = "prune"
  /\ Close(p)
  /\ UNCHANGED <<disk, env>>
------------------------------------------------------------------------------
(* doctor --repair: diagnose, up to three offered repairs, diagnose again *)

BeginDoctor(p, d) ==
  /\ Begin(p, "doctor")
  /\ Goto(p, "confirmBroken")
  /\ deep' = [deep EXCEPT ![p] = d]
  /\ targets' = [targets EXCEPT ![p] = Broken(d)]
  /\ strays' = [strays EXCEPT ![p] = Untracked]
  /\ clean' = [clean EXCEPT ![p] = TRUE]
  /\ UNCHANGED <<todo, got>>

(* applyRepairs asks the catalog again: deleting the broken snapshots may have
   orphaned more objects than diagnose had seen.                             *)
RequeryOrphans(p) ==
  /\ \/ pc[p] = "drop" /\ targets[p] = {} /\ mode[p] = "doctor"
     \/ pc[p] = "orphans"
  /\ todo' = [todo EXCEPT ![p] = Unreferenced]
  /\ targets' = [targets EXCEPT ![p] = {}]
  /\ Goto(p, "confirmOrphans")
  /\ UNCHANGED <<disk, env, holder, mode, got, cur, ckey, strays, deep, clean>>

OfferStrays(p) ==
  /\ pc[p] = "sweep"
  /\ todo[p] = {}
  /\ mode[p] = "doctor"
  /\ Goto(p, "confirmStrays")
  /\ UNCHANGED <<disk, env, holder, local, clean>>

(* os.Remove of a path diagnose listed, without looking at the catalog again. *)
RemoveStray(p, h) ==
  /\ pc[p] = "strays"
  /\ h \in strays[p]
  /\ RemoveFile(h)
  /\ strays' = [strays EXCEPT ![p] = @ \ {h}]
  /\ UNCHANGED <<rows, keyed, missized, manifest, refs, hits, holder, pc, mode, todo,
                 got, cur, ckey, targets, deep, clean>>

KeepStray(p, h) ==
  /\ pc[p] = "strays"
  /\ h \in strays[p]
  /\ strays' = [strays EXCEPT ![p] = @ \ {h}]
  /\ clean' = [clean EXCEPT ![p] = FALSE]
  /\ UNCHANGED <<disk, env, holder, pc, mode, todo, got, cur, ckey, targets, deep>>

EndRepair(p) ==
  /\ pc[p] = "strays"
  /\ strays[p] = {}
  /\ Goto(p, "recheck")
  /\ UNCHANGED <<disk, env, holder, local, clean>>

(* The second diagnose decides the exit status. *)
EndDoctor(p) ==
  /\ pc[p] = "recheck"
  /\ Close(p)
  /\ UNCHANGED <<disk, env>>
------------------------------------------------------------------------------
(* The prompts.  A command given --yes answers them itself. *)

Answer(p, prompt, next) == pc[p] = prompt /\ Goto(p, next)

(* An empty list of doctor's asks nothing and takes the same way. *)
Accept(p) ==
  /\ \/ Answer(p, "confirmPrune", "sweep")
     \/ Answer(p, "confirmDelete", "drop")
     \/ Answer(p, "confirmBroken", "drop")
     \/ Answer(p, "confirmOrphans", "sweep")
     \/ Answer(p, "confirmStrays", "strays")
  /\ UNCHANGED <<disk, env, holder, local, clean>>

(* Declining one repair never blocks the others. *)
Decline(p) ==
  /\ \/ targets[p] # {} /\ Answer(p, "confirmBroken", "orphans")
     \/ todo[p] # {} /\ Answer(p, "confirmOrphans", "confirmStrays")
     \/ strays[p] # {} /\ Answer(p, "confirmStrays", "recheck")
  /\ clean' = [clean EXCEPT ![p] = FALSE]
  /\ UNCHANGED <<disk, env, holder, local>>

(* prune and delete have nothing else to do. *)
DeclineAll(p) ==
  /\ pc[p] \in {"confirmPrune", "confirmDelete"}
  /\ Close(p)
  /\ UNCHANGED <<disk, env>>
------------------------------------------------------------------------------
(* A disk error, or a file removed or overwritten by hand. *)
Damage(h, v) ==
  /\ hits < MaxDamage
  /\ files[h] # "absent"
  /\ files' = [files EXCEPT ![h] = v]
  /\ damaged' = damaged \cup {h}
  /\ hits' = hits + 1
  /\ clean' = [p \in Proc |-> FALSE]
  /\ UNCHANGED <<rows, keyed, missized, manifest, refs, holder, pc, local>>

Start(p) ==
  \/ BeginSnapshot(p)
  \/ \E s \in Snap, H \in SUBSET Hash : BeginImport(p, s, H)
  \/ \E S \in SUBSET Snap : BeginDelete(p, S)
  \/ BeginPrune(p)
  \/ \E d \in BOOLEAN : BeginDoctor(p, d)

Capture(p) ==
  \/ \E h \in Hash : ReuseImage(p, h)
  \/ \E h \in Hash, k \in Key \cup {NoKey} : StageBlob(p, h, k)

(* Every step a running command takes on its own or on an answer, but for the
   choice of what is captured next.                                         *)
Advance(p) ==
  \/ Publish(p) \/ RecordRow(p)
  \/ \E s \in Snap : CommitSnapshot(p, s)
  \/ \E h \in Hash : AdoptObject(p, h)
  \/ \E s \in Snap : Register(p, s) \/ DeleteSnapshot(p, s) \/ KeepSnapshot(p, s)
  \/ EndDelete(p)
  \/ \E h \in Hash : DeleteRow(p, h) \/ SkipRow(p, h)
  \/ UnlinkFile(p) \/ KeepFile(p) \/ EndPrune(p)
  \/ RequeryOrphans(p) \/ OfferStrays(p)
  \/ \E h \in Hash : RemoveStray(p, h) \/ KeepStray(p, h)
  \/ EndRepair(p) \/ EndDoctor(p)
  \/ Accept(p) \/ Decline(p) \/ DeclineAll(p)

Next ==
  \/ \E p \in Proc : Start(p) \/ Capture(p) \/ Advance(p) \/ Abort(p)
  \/ \E h \in Hash, v \in {"bad", "absent"} : Damage(h, v)

Spec == Init /\ [][Next]_vars

(* A command that runs goes on running, and its prompts are answered; nothing
   makes a user start one, and nothing makes one fail.                      *)
FairSpec == Spec /\ \A p \in Proc : WF_vars(Advance(p))
------------------------------------------------------------------------------
(* Properties *)

(* Every object of every stored snapshot has its row and its file, and the
   bytes are intact unless the environment damaged them: no interleaving of
   commands, failures and kills of the tool itself loses data a snapshot
   needs (cas.go publishes before InsertSnapshot; DeleteObject runs under the
   same lock as the query that found the object unreferenced).              *)
ReferencedObjectsIntact ==
  \A s \in Stored : \A h \in manifest[s] :
    /\ h \in rows
    /\ files[h] = "good" \/ h \in damaged

(* What a capture or an import has recorded stays catalogued until its own
   InsertSnapshot, although no reference protects it yet: nobody's prune or
   repair comes in between, so the foreign key never rejects the snapshot.   *)
InFlightObjectsRecorded ==
  \A p \in Proc : pc[p] \in {"capture", "adopt"} => got[p] \subseteq rows

(* The inductive invariant behind them (ObjectStoreProofs). *)
Backed(h) == files[h] = "good" \/ h \in damaged

LockInv == \A p \in Proc : pc[p] # "idle" => holder = p

CatalogInv ==
  /\ \A s \in Snap, h \in Hash :
       <<s, h>> \in refs <=> manifest[s] # Absent /\ h \in manifest[s]
  /\ \A s \in Snap, h \in Hash : <<s, h>> \in refs => h \in rows
  /\ \A h \in rows : Backed(h)
  /\ \A h \in Hash : files[h] = "bad" => h \in damaged

(* The object a process has between two steps: about to get its row, or just
   bereft of it.                                                            *)
CurrentInv == \A p \in Proc :
  /\ pc[p] = "published" => Backed(cur[p])
  /\ pc[p] = "unlink" => cur[p] \notin rows

StraysInv == \A p \in Proc :
  /\ strays[p] \cap rows = {}
  /\ pc[p] \in {"idle", "capture", "staged", "published", "adopt"} => strays[p] = {}

GotInv == \A p \in Proc :
  /\ pc[p] = "idle" => got[p] = {}
  /\ pc[p] \in {"capture", "adopt", "staged", "published"} => got[p] \subseteq rows

IInv == TypeOK /\ LockInv /\ CatalogInv /\ CurrentInv /\ StraysInv /\ GotInv

(* What a doctor that nothing has disturbed still has to repair, offer by offer:
   its three lists are what is wrong with the store.  The object whose row it has
   just dropped is on its way out.                                              *)
CleanRepair(p) ==
  /\ mode[p] = "doctor"
  /\ pc[p] \in {"confirmBroken", "drop", "confirmOrphans", "sweep", "unlink",
                "confirmStrays", "strays", "recheck"}
  /\ IF pc[p] \in {"confirmBroken", "drop"} THEN targets[p] = Broken(deep[p])
                                            ELSE Broken(deep[p]) = {}
  /\ pc[p] \in {"confirmOrphans", "sweep", "unlink"} => todo[p] = Unreferenced
  /\ pc[p] \in {"confirmStrays", "strays", "recheck"} => Unreferenced = {}
  /\ strays[p] = IF pc[p] = "unlink" THEN Untracked \ {cur[p]} ELSE Untracked
  /\ pc[p] = "recheck" => strays[p] = {}

(* A snapshot once found broken stays broken: nothing heals it while doctor holds
   the lock.                                                                    *)
DoctorInv == \A p \in Proc :
  /\ pc[p] \in {"idle", "capture", "staged", "published", "adopt"} => mode[p] # "doctor"
  /\ clean[p] => CleanRepair(p)
  /\ mode[p] = "doctor" => targets[p] \subseteq Broken(TRUE)

(* A repair in which every offer was accepted, no deletion failed and no disk
   error came in between leaves nothing for the second diagnose to find, deep
   or not (applyRepairs: the re-query after the broken snapshots are gone).   *)
RepairHeals ==
  \A p \in Proc : pc[p] = "recheck" /\ clean[p] => Healthy(deep[p])

(* doctor --repair only ever deletes a snapshot that is still broken when it
   is deleted, not one that was when the question was asked.                 *)
DeletesOnlyBroken ==
  \A p \in Proc, s \in Snap :
    /\ mode[p] = "doctor" /\ targets'[p] # targets[p]
    /\ manifest[s] # Absent /\ manifest'[s] = Absent
    => s \in Broken(TRUE)

DoctorDeletesOnlyBroken == [][DeletesOnlyBroken]_vars

(* The "exclusive" objects `show` reports for a snapshot are exactly those its
   deletion leaves to prune (SnapshotStorageInfo, UnreferencedObjects).        *)
LeavesExclusive ==
  \A s \in Snap : manifest[s] # Absent /\ manifest'[s] = Absent
    => Unreferenced' = Unreferenced \cup Exclusive(s)

ExclusiveIsReclaimable == [][LeavesExclusive]_vars

(* The store implements the abstract repository: snapshots appear whole, never
   change, and stay readable unless the environment destroys an object.        *)
Readable == {h \in Hash : files[h] = "good" /\ \E s \in Stored : h \in manifest[s]}

Repository == INSTANCE SnapshotRepository WITH catalog <- manifest, readable <- Readable

ImplementsRepository == Repository!Spec

(* A command that keeps running ends and lets go of the store lock, also when
   it fails inside the interactive session whose process lives on.            *)
LockReleased == \A p \in Proc : holder = p ~> holder # p
==============================================================================
