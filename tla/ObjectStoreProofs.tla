--------------------------- MODULE ObjectStoreProofs ---------------------------
(***************************************************************************)
(* Proofs about ObjectStore for any number of processes, objects, snapshots*)
(* and disk errors.                                                        *)
(***************************************************************************)
EXTENDS ObjectStore, TLAPS

(* The store's variables keep their types. *)
THEOREM TypeCorrect == Spec => []TypeOK
<1>1. Init => TypeOK
  BY SentinelAssumption, DamageAssumption DEF Init, TypeOK, Labels, Modes
<1>2. TypeOK /\ [Next]_vars => TypeOK'
  <2> SUFFICES ASSUME TypeOK, [Next]_vars PROVE TypeOK'
    OBVIOUS
  <2> USE DamageAssumption DEF TypeOK, Labels, Modes, disk, env, local, Goto
  <2>1. ASSUME NEW p \in Proc, Start(p) PROVE TypeOK'
    <3>1. CASE BeginSnapshot(p)
      BY <3>1 DEF BeginSnapshot, Begin, Lock
    <3>2. ASSUME NEW s \in Snap, NEW H \in SUBSET Hash, BeginImport(p, s, H)
          PROVE TypeOK'
      BY <3>2 DEF BeginImport, Begin, Lock
    <3>3. ASSUME NEW S \in SUBSET Snap, BeginDelete(p, S) PROVE TypeOK'
      BY <3>3 DEF BeginDelete, Begin, Lock
    <3>4. CASE BeginPrune(p)
      BY <3>4 DEF BeginPrune, Begin, Lock, Unreferenced
    <3>5. ASSUME NEW d \in BOOLEAN, BeginDoctor(p, d) PROVE TypeOK'
      BY <3>5 DEF BeginDoctor, Begin, Lock, Broken, Stored, Untracked
    <3> QED BY <2>1, <3>1, <3>2, <3>3, <3>4, <3>5 DEF Start
  <2>2. ASSUME NEW p \in Proc, Capture(p) PROVE TypeOK'
    <3>1. ASSUME NEW h \in Hash, ReuseImage(p, h) PROVE TypeOK'
      BY <3>1 DEF ReuseImage
    <3>2. ASSUME NEW h \in Hash, NEW k \in Key \cup {NoKey}, StageBlob(p, h, k)
          PROVE TypeOK'
      BY <3>2 DEF StageBlob
    <3> QED BY <2>2, <3>1, <3>2 DEF Capture
  <2>3. ASSUME NEW p \in Proc, Forget(p), Unlock(p), UNCHANGED <<files, rows, keyed, missized>>,
               UNCHANGED env, UNCHANGED <<manifest, refs>>
        PROVE TypeOK'
    BY <2>3 DEF Forget, Unlock
  <2>4. ASSUME NEW p \in Proc, Advance(p) PROVE TypeOK'
    <3>1. CASE Publish(p)
      BY <3>1 DEF Publish, WriteFile
    <3>2. CASE RecordRow(p)
      BY <3>2 DEF RecordRow
    <3>3. ASSUME NEW s \in Snap, CommitSnapshot(p, s) PROVE TypeOK'
      BY <3>3 DEF CommitSnapshot, InsertSnapshot, Close, Forget, Unlock
    <3>4. ASSUME NEW h \in Hash, AdoptObject(p, h) PROVE TypeOK'
      BY <3>4 DEF AdoptObject
    <3>5. ASSUME NEW s \in Snap, Register(p, s) PROVE TypeOK'
      BY <3>5 DEF Register, InsertSnapshot, Close, Forget, Unlock
    <3>6. ASSUME NEW s \in Snap, DeleteSnapshot(p, s) PROVE TypeOK'
      BY <3>6 DEF DeleteSnapshot
    <3>7. CASE EndDelete(p) \/ EndPrune(p) \/ EndDoctor(p) \/ DeclineAll(p)
      BY <2>3, <3>7 DEF EndDelete, EndPrune, EndDoctor, DeclineAll, Close
    <3>8. ASSUME NEW h \in Hash, DeleteRow(p, h) PROVE TypeOK'
      BY <3>8 DEF DeleteRow
    <3>9. ASSUME NEW h \in Hash, SkipRow(p, h) PROVE TypeOK'
      BY <3>9 DEF SkipRow
    <3>10. CASE UnlinkFile(p)
      BY <3>10 DEF UnlinkFile, RemoveFile
    <3>11. CASE KeepFile(p)
      BY <3>11 DEF KeepFile
    <3>12. CASE RequeryOrphans(p)
      BY <3>12 DEF RequeryOrphans, Unreferenced
    <3>13. CASE OfferStrays(p)
      BY <3>13 DEF OfferStrays
    <3>14. ASSUME NEW h \in Hash, RemoveStray(p, h) PROVE TypeOK'
      BY <3>14 DEF RemoveStray, RemoveFile
    <3>15. ASSUME NEW h \in Hash, KeepStray(p, h) PROVE TypeOK'
      BY <3>15 DEF KeepStray
    <3>16. CASE EndRepair(p)
      BY <3>16 DEF EndRepair
    <3>17. CASE Accept(p)
      BY <3>17 DEF Accept, Answer
    <3>18. CASE Decline(p)
      BY <3>18 DEF Decline, Answer
    <3>19. ASSUME NEW s \in Snap, KeepSnapshot(p, s) PROVE TypeOK'
      BY <3>19 DEF KeepSnapshot
    <3> QED BY <2>4, <3>1, <3>2, <3>3, <3>4, <3>5, <3>6, <3>7, <3>8, <3>9, <3>10,
               <3>11, <3>12, <3>13, <3>14, <3>15, <3>16, <3>17, <3>18, <3>19 DEF Advance
  <2>5. ASSUME NEW p \in Proc, Abort(p) PROVE TypeOK'
    BY <2>3, <2>5 DEF Abort, Close
  <2>6. ASSUME NEW h \in Hash, NEW v \in {"bad", "absent"}, Damage(h, v)
        PROVE TypeOK'
    BY <2>6 DEF Damage
  <2>7. CASE UNCHANGED vars
    BY <2>7 DEF vars
  <2> QED BY <2>1, <2>2, <2>4, <2>5, <2>6, <2>7 DEF Next
<1> QED BY <1>1, <1>2, PTL DEF Spec

(* A process that gives up changes nothing on disk and forgets what it had. *)
LEMMA ClosePreserves ==
  ASSUME IInv, NEW p \in Proc, pc[p] # "idle", Close(p), UNCHANGED <<disk, env>>
  PROVE  IInv'
BY DEF IInv, TypeOK, LockInv, CatalogInv, CurrentInv, StraysInv, GotInv, Backed,
       Labels, Modes, Close, Forget, Unlock, disk, env

(* Committing a manifest whose objects all have rows. *)
LEMMA InsertPreserves ==
  ASSUME IInv, NEW p \in Proc, NEW s \in Snap, pc[p] # "idle", manifest[s] = Absent,
         got[p] \subseteq rows, InsertSnapshot(s, got[p]), Close(p),
         UNCHANGED <<files, rows, keyed, missized, env>>
  PROVE  LockInv' /\ CatalogInv' /\ CurrentInv' /\ StraysInv' /\ GotInv'
<1> USE DEF IInv, TypeOK
<1>1. LockInv'
  BY DEF LockInv, Close, Forget, Unlock
<1>2. CatalogInv'
  BY SentinelAssumption DEF CatalogInv, Backed, InsertSnapshot, env
<1>3. CurrentInv' /\ StraysInv' /\ GotInv'
  BY DEF LockInv, CurrentInv, StraysInv, GotInv, Backed, Close, Forget, env
<1> QED BY <1>1, <1>2, <1>3

(* Every step keeps the inductive invariant.  The lock is what makes it so: a
   step of p that publishes, records, drops or unlinks an object finds every
   other process idle, with nothing in hand that the step could invalidate.   *)
LEMMA Inductive == IInv /\ TypeOK' /\ [Next]_vars => IInv'
<1> SUFFICES ASSUME IInv, TypeOK', [Next]_vars
             PROVE  LockInv' /\ CatalogInv' /\ CurrentInv' /\ StraysInv' /\ GotInv'
  BY DEF IInv
<1> DEFINE Goal == LockInv' /\ CatalogInv' /\ CurrentInv' /\ StraysInv' /\ GotInv'
<1> USE DEF IInv, TypeOK, LockInv, CatalogInv, CurrentInv, StraysInv, GotInv, Backed,
            disk, env, local, Goto
<1>1. ASSUME NEW p \in Proc, Start(p) PROVE Goal
  <2>1. CASE BeginSnapshot(p)
    BY <2>1, SentinelAssumption DEF BeginSnapshot, Begin, Lock
  <2>2. ASSUME NEW s \in Snap, NEW H \in SUBSET Hash, BeginImport(p, s, H) PROVE Goal
    BY <2>2, SentinelAssumption DEF BeginImport, Begin, Lock
  <2>3. ASSUME NEW S \in SUBSET Snap, BeginDelete(p, S) PROVE Goal
    BY <2>3, SentinelAssumption DEF BeginDelete, Begin, Lock
  <2>4. CASE BeginPrune(p)
    BY <2>4, SentinelAssumption DEF BeginPrune, Begin, Lock
  <2>5. ASSUME NEW d \in BOOLEAN, BeginDoctor(p, d) PROVE Goal
    BY <2>5, SentinelAssumption DEF BeginDoctor, Begin, Lock, Untracked
  <2> QED BY <1>1, <2>1, <2>2, <2>3, <2>4, <2>5 DEF Start
<1>2. ASSUME NEW p \in Proc, Capture(p) PROVE Goal
  <2>1. ASSUME NEW h \in Hash, ReuseImage(p, h) PROVE Goal
    BY <2>1 DEF ReuseImage
  <2>2. ASSUME NEW h \in Hash, NEW k \in Key \cup {NoKey}, StageBlob(p, h, k)
        PROVE Goal
    BY <2>2 DEF StageBlob
  <2> QED BY <1>2, <2>1, <2>2 DEF Capture
<1>3. ASSUME NEW p \in Proc, Advance(p) PROVE Goal
  <2>1. CASE Publish(p)
    BY <2>1 DEF Publish, WriteFile
  <2>2. CASE RecordRow(p)
    BY <2>2 DEF RecordRow
  <2>3. ASSUME NEW s \in Snap, CommitSnapshot(p, s) PROVE Goal
    BY <2>3, InsertPreserves DEF CommitSnapshot
  <2>4. ASSUME NEW h \in Hash, AdoptObject(p, h) PROVE Goal
    BY <2>4 DEF AdoptObject
  <2>5. ASSUME NEW s \in Snap, Register(p, s) PROVE Goal
    <3>1. CASE manifest[s] = Absent
      BY <2>5, <3>1, InsertPreserves DEF Register
    <3>2. CASE manifest[s] # Absent
      BY <2>5, <3>2, ClosePreserves DEF Register
    <3> QED BY <3>1, <3>2
  <2>6. ASSUME NEW s \in Snap, DeleteSnapshot(p, s) PROVE Goal
    BY <2>6 DEF DeleteSnapshot
  <2>7. CASE EndDelete(p) \/ EndPrune(p) \/ EndDoctor(p) \/ DeclineAll(p)
    BY <2>7, ClosePreserves DEF EndDelete, EndPrune, EndDoctor, DeclineAll
  <2>8. ASSUME NEW h \in Hash, DeleteRow(p, h) PROVE Goal
    BY <2>8 DEF DeleteRow, IsReferenced
  <2>9. ASSUME NEW h \in Hash, SkipRow(p, h) PROVE Goal
    BY <2>9 DEF SkipRow
  <2>10. CASE UnlinkFile(p)
    BY <2>10 DEF UnlinkFile, RemoveFile
  <2>11. CASE KeepFile(p)
    BY <2>11 DEF KeepFile
  <2>12. CASE RequeryOrphans(p)
    BY <2>12 DEF RequeryOrphans
  <2>13. CASE OfferStrays(p)
    BY <2>13 DEF OfferStrays
  <2>14. ASSUME NEW h \in Hash, RemoveStray(p, h) PROVE Goal
    BY <2>14 DEF RemoveStray, RemoveFile
  <2>15. ASSUME NEW h \in Hash, KeepStray(p, h) PROVE Goal
    BY <2>15 DEF KeepStray
  <2>16. CASE EndRepair(p)
    BY <2>16 DEF EndRepair
  <2>17. CASE Accept(p)
    BY <2>17 DEF Accept, Answer
  <2>18. CASE Decline(p)
    BY <2>18 DEF Decline, Answer
  <2>19. ASSUME NEW s \in Snap, KeepSnapshot(p, s) PROVE Goal
    BY <2>19 DEF KeepSnapshot
  <2> QED BY <1>3, <2>1, <2>2, <2>3, <2>4, <2>5, <2>6, <2>7, <2>8, <2>9, <2>10,
             <2>11, <2>12, <2>13, <2>14, <2>15, <2>16, <2>17, <2>18, <2>19 DEF Advance
<1>4. ASSUME NEW p \in Proc, Abort(p) PROVE Goal
  BY <1>4, ClosePreserves DEF Abort
<1>5. ASSUME NEW h \in Hash, NEW v \in {"bad", "absent"}, Damage(h, v) PROVE Goal
  BY <1>5 DEF Damage
<1>6. CASE UNCHANGED vars
  BY <1>6 DEF vars
<1> QED BY <1>1, <1>2, <1>3, <1>4, <1>5, <1>6 DEF Next

(* What every step keeps, crashes among them. *)
THEOREM InductiveInvariant == Spec => []IInv
<1>1. Init /\ TypeOK => IInv
  BY SentinelAssumption DEF Init, IInv, LockInv, CatalogInv, CurrentInv, StraysInv,
     GotInv, Backed
<1> QED BY <1>1, Inductive, TypeCorrect, PTL DEF Spec

(* No interleaving of commands, failures and kills loses an object that a
   stored snapshot references.                                            *)
THEOREM ObjectsIntact == Spec => []ReferencedObjectsIntact
<1>1. IInv => ReferencedObjectsIntact
  BY DEF IInv, TypeOK, CatalogInv, Backed, ReferencedObjectsIntact, Stored
<1> QED BY <1>1, InductiveInvariant, PTL

(* No running capture or import has its objects pruned from under it. *)
THEOREM InFlightSafe == Spec => []InFlightObjectsRecorded
<1>1. IInv => InFlightObjectsRecorded
  BY DEF IInv, GotInv, InFlightObjectsRecorded
<1> QED BY <1>1, InductiveInvariant, PTL

(* What the abstract repository calls referenced is what the refs table holds. *)
LEMMA ReferencedIsCatalogued ==
  ASSUME IInv
  PROVE  /\ Repository!Referenced(manifest) \subseteq rows
         /\ \A h \in Hash : h \in Repository!Referenced(manifest)
                              <=> \E s \in Stored : h \in manifest[s]
         /\ Repository!Referenced(manifest) \subseteq Hash
<1>1. \A h : h \in Repository!Referenced(manifest) <=> \E s \in Stored : h \in manifest[s]
  BY DEF Repository!Referenced, Stored
<1>2. \A s \in Stored : manifest[s] \subseteq Hash
  BY DEF IInv, TypeOK, Stored
<1>3. \A s \in Stored, h \in Hash : h \in manifest[s] => h \in rows
  BY DEF IInv, CatalogInv, Stored
<1> QED BY <1>1, <1>2, <1>3

(* Publishing the object in hand. *)
LEMMA PublishRefines ==
  ASSUME IInv, NEW p \in Proc, Publish(p)
  PROVE  [Repository!Next]_(Repository!vars)
<1> USE DEF IInv, TypeOK, Stored
<1>1. CASE UNCHANGED <<files, damaged>>
  BY <1>1 DEF Publish, Repository!vars, Readable
<1>2. CASE WriteFile(cur[p])
  <2>1. cur[p] \in Hash
    BY DEF Publish
  <2>2. Repository!Rewrite(cur[p])
    BY <1>2, <2>1, ReferencedIsCatalogued DEF Repository!Rewrite, WriteFile, Publish,
       Readable
  <2> QED BY <2>1, <2>2 DEF Repository!Next
<1> QED BY <1>1, <1>2 DEF Publish

(* A new manifest over catalogued objects is an abstract commit. *)
LEMMA InsertRefines ==
  ASSUME IInv, NEW p \in Proc, NEW s \in Snap, manifest[s] = Absent,
         InsertSnapshot(s, got[p]), UNCHANGED <<files, rows, keyed, missized, env>>
  PROVE  Repository!Next
<1> USE DEF IInv, TypeOK, Stored
<1>1. /\ manifest' = [manifest EXCEPT ![s] = got[p]]
      /\ got[p] \in SUBSET Hash /\ got[p] # Absent
      /\ files' = files /\ damaged' = damaged
  BY SentinelAssumption DEF InsertSnapshot, env
<1>2. Readable' \subseteq Repository!Referenced(manifest')
  BY <1>1 DEF Readable, Repository!Referenced
<1>3. Readable \subseteq Readable'
  BY <1>1 DEF Readable
<1>4. got[p] \ Readable' \subseteq damaged
  BY <1>1 DEF Readable, CatalogInv, Backed, InsertSnapshot
<1>5. Repository!Commit(s, got[p])
  BY <1>1, <1>2, <1>3, <1>4 DEF Repository!Commit
<1> QED BY <1>1, <1>5 DEF Repository!Next

(* Deleting a snapshot. *)
LEMMA DeleteRefines ==
  ASSUME IInv, NEW p \in Proc, NEW s \in Snap, DeleteSnapshot(p, s)
  PROVE  Repository!Next
<1> USE DEF IInv, TypeOK, Stored, DeleteSnapshot, env
<1>1. Readable' = Readable \cap Repository!Referenced(manifest')
  BY DEF Readable, Repository!Referenced
<1>2. Repository!Remove(s)
  BY <1>1 DEF Repository!Remove
<1> QED BY <1>2 DEF Repository!Next

(* Removing a file that has no row. *)
LEMMA RemoveRefines ==
  ASSUME IInv, NEW h \in Hash, h \notin rows, RemoveFile(h), UNCHANGED manifest
  PROVE  Repository!Next
<1> USE DEF IInv, TypeOK, Stored, RemoveFile
<1>1. h \notin Repository!Referenced(manifest)
  BY ReferencedIsCatalogued
<1>2. Readable' = Readable
  BY <1>1, ReferencedIsCatalogued DEF Readable
<1>3. Repository!Forget(h)
  BY <1>1, <1>2 DEF Repository!Forget
<1> QED BY <1>3 DEF Repository!Next

(* Every step of the store is a step of the abstract repository or invisible. *)
LEMMA StepRefines ==
  ASSUME IInv, [Next]_vars
  PROVE  [Repository!Next]_(Repository!vars)
<1>1. ASSUME UNCHANGED <<files, manifest, damaged>>
      PROVE  [Repository!Next]_(Repository!vars)
  BY <1>1 DEF Repository!vars, Readable, Stored
<1> USE DEF disk, env, local
<1>2. ASSUME NEW p \in Proc, Start(p) PROVE [Repository!Next]_(Repository!vars)
  BY <1>1, <1>2 DEF Start, Begin, BeginSnapshot, BeginImport, BeginDelete, BeginPrune,
     BeginDoctor
<1>3. ASSUME NEW p \in Proc, Capture(p) PROVE [Repository!Next]_(Repository!vars)
  BY <1>1, <1>3 DEF Capture, ReuseImage, StageBlob
<1>4. ASSUME NEW p \in Proc, Advance(p) PROVE [Repository!Next]_(Repository!vars)
  <2>1. CASE Publish(p)
    BY <2>1, PublishRefines
  <2>2. ASSUME NEW s \in Snap, CommitSnapshot(p, s)
        PROVE  [Repository!Next]_(Repository!vars)
    BY <2>2, InsertRefines DEF CommitSnapshot
  <2>3. ASSUME NEW s \in Snap, Register(p, s)
        PROVE  [Repository!Next]_(Repository!vars)
    BY <2>3, <1>1, InsertRefines DEF Register
  <2>4. ASSUME NEW s \in Snap, DeleteSnapshot(p, s)
        PROVE  [Repository!Next]_(Repository!vars)
    BY <2>4, DeleteRefines
  <2>5. CASE UnlinkFile(p)
    BY <2>5, RemoveRefines DEF UnlinkFile, IInv, TypeOK, CurrentInv
  <2>6. ASSUME NEW h \in Hash, RemoveStray(p, h)
        PROVE  [Repository!Next]_(Repository!vars)
    BY <2>6, RemoveRefines DEF RemoveStray, IInv, StraysInv
  <2>7. CASE \/ RecordRow(p) \/ EndDelete(p) \/ KeepFile(p) \/ EndPrune(p)
             \/ RequeryOrphans(p) \/ OfferStrays(p) \/ EndRepair(p) \/ EndDoctor(p)
             \/ Accept(p) \/ Decline(p) \/ DeclineAll(p)
             \/ \E h \in Hash : \/ AdoptObject(p, h) \/ DeleteRow(p, h)
                                \/ SkipRow(p, h) \/ KeepStray(p, h)
             \/ \E s \in Snap : KeepSnapshot(p, s)
    BY <2>7, <1>1 DEF RecordRow, KeepSnapshot, EndDelete, KeepFile, EndPrune, RequeryOrphans,
       OfferStrays, EndRepair, EndDoctor, Accept, Decline, DeclineAll, AdoptObject,
       DeleteRow, SkipRow, KeepStray
  <2> QED BY <1>4, <2>1, <2>2, <2>3, <2>4, <2>5, <2>6, <2>7 DEF Advance
<1>5. ASSUME NEW p \in Proc, Abort(p) PROVE [Repository!Next]_(Repository!vars)
  BY <1>1, <1>5 DEF Abort
<1>6. ASSUME NEW h \in Hash, NEW v \in {"bad", "absent"}, Damage(h, v)
      PROVE  [Repository!Next]_(Repository!vars)
  <2>1. Readable' = Readable \ {h}
    BY <1>6 DEF Damage, Readable, Stored, IInv, TypeOK
  <2>2. Repository!Damage(h)
    BY <1>6, <2>1 DEF Damage, Repository!Damage
  <2> QED BY <2>2 DEF Repository!Next
<1>7. CASE UNCHANGED vars
  BY <1>7, <1>1 DEF vars
<1> QED BY <1>2, <1>3, <1>4, <1>5, <1>6, <1>7 DEF Next

(* The store implements the abstract repository. *)
THEOREM Refinement == Spec => ImplementsRepository
<1>1. Init => Repository!Init
  BY DEF Init, Repository!Init, Readable, Stored
<1> QED
  BY <1>1, StepRefines, InductiveInvariant, PTL
     DEF Spec, ImplementsRepository, Repository!Spec

(* What diagnose finds depends on the catalog and the files alone. *)
LEMMA SameDiagnosis ==
  /\ UNCHANGED <<files, rows, missized, manifest>> =>
       \A d \in BOOLEAN : Broken(d)' = Broken(d)
  /\ UNCHANGED <<files, rows>> => Untracked' = Untracked
  /\ UNCHANGED <<rows, refs>> => Unreferenced' = Unreferenced
BY DEF Broken, Stored, Missing, Corrupted, Untracked, Unreferenced

(* An object of which the catalog has no row is in no stored manifest, so what
   becomes of its file breaks no snapshot.                                     *)
LEMMA FileOfNoRow ==
  ASSUME IInv, NEW h \in Hash, h \notin rows, RemoveFile(h),
         UNCHANGED <<rows, missized, manifest>>
  PROVE  /\ \A d \in BOOLEAN : Broken(d)' = Broken(d)
         /\ Untracked' = Untracked \ {h}
<1>1. \A s \in Stored : manifest[s] \in SUBSET Hash /\ h \notin manifest[s]
  BY DEF IInv, TypeOK, CatalogInv, Stored
<1>2. \A g \in Hash \ {h} : files'[g] = files[g]
  BY DEF RemoveFile, IInv, TypeOK
<1>3. files'[h] = "absent"
  BY DEF RemoveFile, IInv, TypeOK
<1>4. Stored' = Stored /\ \A s \in Stored : Missing(s)' = Missing(s)
  BY <1>1, <1>2 DEF Stored, Missing
<1>5. Corrupted' = Corrupted
  BY <1>2 DEF Corrupted, IInv, TypeOK
<1>6. \A d \in BOOLEAN : Broken(d)' = Broken(d)
  BY <1>4, <1>5 DEF Broken, Stored
<1>7. Untracked' = Untracked \ {h}
  BY <1>2, <1>3 DEF Untracked
<1> QED BY <1>6, <1>7

(* A doctor that is under way is alone: whoever else there is has nothing begun. *)
LEMMA OthersRest ==
  ASSUME IInv, DoctorInv, NEW p \in Proc, pc[p] # "idle" \/ holder = NoProc
  PROVE  \A q \in Proc \ {p} : pc[q] = "idle" /\ mode[q] # "doctor" /\ ~ clean[q]
BY SentinelAssumption, Zenon DEF IInv, TypeOK, LockInv, DoctorInv, CleanRepair

(* So a step has only its own process to keep the invariant for. *)
LEMMA OwnRepair ==
  ASSUME IInv, DoctorInv, NEW p \in Proc, pc[p] # "idle" \/ holder = NoProc,
         \A q \in Proc \ {p} :
           pc'[q] = pc[q] /\ mode'[q] = mode[q] /\ clean'[q] = clean[q],
         mode'[p] = "doctor" =>
           pc'[p] \notin {"idle", "capture", "staged", "published", "adopt"},
         clean'[p] => CleanRepair(p)',
         mode'[p] = "doctor" => targets'[p] \subseteq Broken(TRUE)'
  PROVE  DoctorInv'
BY OthersRest DEF DoctorInv

(* An ended command leaves no doctor behind. *)
LEMMA CloseEndsRepair ==
  ASSUME IInv, DoctorInv, NEW p \in Proc, pc[p] # "idle", Close(p)
  PROVE  DoctorInv'
<1>1. /\ pc'[p] = "idle" /\ mode'[p] = "none" /\ clean'[p] = FALSE
      /\ \A q \in Proc \ {p} :
           pc'[q] = pc[q] /\ mode'[q] = mode[q] /\ clean'[q] = clean[q]
  BY DEF Close, Forget, IInv, TypeOK
<1> QED BY <1>1, OwnRepair

(* The steps of a running command.  The object sweep drops exactly what it listed,
   and a row it drops turns its file into one without a row until the unlink.   *)
LEMMA AdvanceKeepsRepair ==
  ASSUME IInv, DoctorInv, NEW p \in Proc, Advance(p)
  PROVE  DoctorInv'
<1> DEFINE Own == /\ pc[p] # "idle" /\ UNCHANGED mode
                  /\ mode[p] = "doctor" =>
                       pc'[p] \notin {"idle", "capture", "staged", "published", "adopt"}
                  /\ \A q \in Proc \ {p} : pc'[q] = pc[q] /\ clean'[q] = clean[q]
<1>1. ASSUME Own, clean'[p] => CleanRepair(p)',
             mode'[p] = "doctor" => targets'[p] \subseteq Broken(TRUE)'
      PROVE  DoctorInv'
  BY <1>1, OwnRepair
<1>2. /\ clean[p] => CleanRepair(p)
      /\ mode[p] = "doctor" => targets[p] \subseteq Broken(TRUE)
  BY DEF DoctorInv
<1> USE DEF IInv, TypeOK, disk, env, local, Goto
<1>3. ASSUME Own, mode[p] # "doctor", clean'[p] = clean[p] PROVE DoctorInv'
  BY <1>1, <1>2, <1>3 DEF CleanRepair
<1>4. ASSUME Own, ~ clean'[p], targets'[p] \subseteq targets[p],
             UNCHANGED <<files, rows, missized, manifest>>
      PROVE  DoctorInv'
  <2>1. Broken(TRUE)' = Broken(TRUE)
    BY <1>4, SameDiagnosis
  <2> HIDE DEF IInv
  <2> QED BY <1>1, <1>2, <1>4, <2>1
<1>5. ASSUME Own, UNCHANGED <<files, rows, missized, manifest, refs, deep, cur, clean, strays>>,
             targets'[p] \subseteq targets[p], clean[p] => CleanRepair(p)'
      PROVE  DoctorInv'
  <2>1. Broken(TRUE)' = Broken(TRUE)
    BY <1>5, SameDiagnosis
  <2> HIDE DEF IInv
  <2> QED BY <1>1, <1>2, <1>5, <2>1
<1>6. ASSUME UNCHANGED <<files, rows, missized, manifest, refs>>
      PROVE  /\ \A d \in BOOLEAN : Broken(d)' = Broken(d)
             /\ Untracked' = Untracked /\ Unreferenced' = Unreferenced
  BY <1>6, SameDiagnosis
<1>7. CASE Publish(p) \/ RecordRow(p) \/ \E h \in Hash : AdoptObject(p, h)
  <2>1. pc[p] \in {"staged", "published", "adopt"} /\ clean'[p] = clean[p]
    BY <1>7, <1>2 DEF Publish, RecordRow, AdoptObject, CleanRepair
  <2>2. Own /\ mode[p] # "doctor"
    BY <1>7, <2>1 DEF Publish, RecordRow, AdoptObject, DoctorInv
  <2> QED BY <1>3, <2>1, <2>2
<1>8. ASSUME NEW s \in Snap, CommitSnapshot(p, s) \/ Register(p, s) PROVE DoctorInv'
  BY <1>8, CloseEndsRepair DEF CommitSnapshot, Register
<1>9. CASE EndDelete(p) \/ EndPrune(p) \/ EndDoctor(p) \/ DeclineAll(p)
  BY <1>9, CloseEndsRepair DEF EndDelete, EndPrune, EndDoctor, DeclineAll
<1>10. ASSUME NEW s \in Snap, DeleteSnapshot(p, s) PROVE DoctorInv'
  <2>1. Own /\ clean'[p] = clean[p] /\ deep' = deep /\ UNCHANGED <<files, rows, missized, strays, cur>>
        /\ pc[p] = "drop" /\ pc'[p] = "drop"
        /\ targets'[p] = targets[p] \ {s} /\ manifest' = [manifest EXCEPT ![s] = Absent]
    BY <1>10 DEF DeleteSnapshot
  <2>2. \A d \in BOOLEAN : Broken(d)' = Broken(d) \ {s}
    BY <2>1 DEF Broken, Stored, Missing, Corrupted
  <2>3. clean'[p] => CleanRepair(p)'
    BY <1>2, <2>1, <2>2, SameDiagnosis DEF CleanRepair
  <2>4. mode'[p] = "doctor" => targets'[p] \subseteq Broken(TRUE)'
    BY <1>2, <2>1, <2>2
  <2> QED BY <1>1, <2>1, <2>3, <2>4
<1>11. ASSUME NEW h \in Hash, DeleteRow(p, h) PROVE DoctorInv'
  <2>1. /\ Own /\ clean'[p] = clean[p] /\ UNCHANGED <<files, manifest, refs, strays, targets, deep>>
        /\ pc[p] = "sweep" /\ pc'[p] = "unlink" /\ cur'[p] = h /\ h \in todo[p]
        /\ rows' = rows \ {h} /\ missized' = missized \ {h} /\ todo'[p] = todo[p] \ {h}
        /\ \A s \in Snap : <<s, h>> \notin refs
    BY <1>11 DEF DeleteRow, IsReferenced
  <2>2. \A d \in BOOLEAN : Broken(d)' = Broken(d)
    <3>1. \A s \in Stored : manifest[s] \in SUBSET Hash /\ h \notin manifest[s]
      BY <2>1 DEF CatalogInv, Stored
    <3>2. Corrupted' = Corrupted \ {h} /\ Stored' = Stored
          /\ \A s \in Stored : Missing(s)' = Missing(s)
      BY <2>1 DEF Corrupted, Stored, Missing
    <3> QED BY <2>1, <3>1, <3>2 DEF Broken, Stored
  <2>3. Unreferenced' = Unreferenced \ {h} /\ Untracked' \ {h} = Untracked \ {h}
    BY <2>1 DEF Unreferenced, Untracked
  <2>4. clean[p] => h \notin Untracked
    BY <1>2, <2>1 DEF CleanRepair, Unreferenced, Untracked
  <2>5. clean'[p] => CleanRepair(p)'
    BY <1>2, <2>1, <2>2, <2>3, <2>4 DEF CleanRepair
  <2>6. mode'[p] = "doctor" => targets'[p] \subseteq Broken(TRUE)'
    <3>1. Broken(TRUE)' = Broken(TRUE)
      BY <2>2
    <3>2. mode' = mode /\ targets' = targets
      BY <2>1
    <3> HIDE DEF IInv, TypeOK
    <3> QED BY <1>2, <3>1, <3>2
  <2> QED BY <1>1, <2>1, <2>5, <2>6
<1>12. ASSUME \/ \E h \in Hash : SkipRow(p, h) \/ KeepStray(p, h)
              \/ \E s \in Snap : KeepSnapshot(p, s)
       PROVE  DoctorInv'
  BY <1>12, <1>4 DEF SkipRow, KeepStray, KeepSnapshot
<1>13. CASE UnlinkFile(p)
  <2>1. /\ Own /\ clean'[p] = clean[p]
        /\ UNCHANGED <<rows, missized, manifest, refs, strays, targets, deep, todo>>
        /\ pc[p] = "unlink" /\ pc'[p] = "sweep" /\ cur[p] \in Hash /\ cur[p] \notin rows
        /\ RemoveFile(cur[p])
    BY <1>13 DEF UnlinkFile, CurrentInv
  <2>2. /\ \A d \in BOOLEAN : Broken(d)' = Broken(d)
        /\ Untracked' = Untracked \ {cur[p]}
    BY <2>1, FileOfNoRow
  <2>3. clean'[p] => CleanRepair(p)'
    BY <1>2, <2>1, <2>2, SameDiagnosis DEF CleanRepair
  <2>4. mode'[p] = "doctor" => targets'[p] \subseteq Broken(TRUE)'
    BY <1>2, <2>1, <2>2
  <2> QED BY <1>1, <2>1, <2>3, <2>4
<1>14. CASE KeepFile(p)
  BY <1>14, <1>4 DEF KeepFile
<1>15. CASE RequeryOrphans(p)
  <2>1. /\ Own /\ clean'[p] = clean[p] /\ UNCHANGED <<disk, strays, deep>>
        /\ pc[p] \in {"drop", "orphans"} /\ pc'[p] = "confirmOrphans"
        /\ pc[p] = "drop" => targets[p] = {}
        /\ todo'[p] = Unreferenced /\ targets'[p] = {}
    BY <1>15 DEF RequeryOrphans
  <2>2. clean'[p] => CleanRepair(p)'
    BY <1>2, <1>6, <2>1 DEF CleanRepair
  <2> QED BY <1>1, <2>1, <2>2
<1>16. CASE OfferStrays(p) \/ EndRepair(p) \/ Accept(p)
  <2>1. Own /\ UNCHANGED <<disk, local, clean>>
    BY <1>16 DEF OfferStrays, EndRepair, Accept, Answer
  <2>2. clean[p] => CleanRepair(p)'
    BY <1>2, <1>6, <1>16, <2>1
       DEF OfferStrays, EndRepair, Accept, Answer, CleanRepair
  <2> QED BY <1>5, <2>1, <2>2
<1>17. ASSUME NEW h \in Hash, RemoveStray(p, h) PROVE DoctorInv'
  <2>1. /\ Own /\ clean'[p] = clean[p]
        /\ UNCHANGED <<rows, missized, manifest, refs, targets, deep, todo>>
        /\ pc[p] = "strays" /\ pc'[p] = "strays" /\ h \notin rows /\ RemoveFile(h)
        /\ strays'[p] = strays[p] \ {h}
    BY <1>17 DEF RemoveStray, StraysInv
  <2>2. /\ \A d \in BOOLEAN : Broken(d)' = Broken(d)
        /\ Untracked' = Untracked \ {h}
    BY <2>1, FileOfNoRow
  <2>3. clean'[p] => CleanRepair(p)'
    BY <1>2, <2>1, <2>2, SameDiagnosis DEF CleanRepair
  <2>4. mode'[p] = "doctor" => targets'[p] \subseteq Broken(TRUE)'
    BY <1>2, <2>1, <2>2
  <2> QED BY <1>1, <2>1, <2>3, <2>4
<1>18. CASE Decline(p)
  BY <1>18, <1>4 DEF Decline, Answer
<1> QED BY <1>7, <1>8, <1>9, <1>10, <1>11, <1>12, <1>13, <1>14, <1>15, <1>16, <1>17,
           <1>18 DEF Advance

(* The steps of a doctor that has nothing broken left, and the damage that ends
   one's being undisturbed.                                                    *)
LEMMA RepairSteps ==
  ASSUME IInv, IInv', DoctorInv, [Next]_vars
  PROVE  DoctorInv'
<1> USE DEF IInv, TypeOK, disk, env, local, Goto
<1>1. ASSUME NEW p \in Proc, Start(p) PROVE DoctorInv'
  <2>1. /\ holder = NoProc /\ pc[p] = "idle" /\ ~ clean[p]
        /\ UNCHANGED <<files, rows, missized, manifest, refs, cur>>
        /\ \A q \in Proc \ {p} :
             pc'[q] = pc[q] /\ mode'[q] = mode[q] /\ clean'[q] = clean[q]
    <3>1. pc[p] = "idle"
      BY <1>1 DEF Start, BeginSnapshot, BeginImport, BeginDelete, BeginPrune,
         BeginDoctor, Begin
    <3>2. ~ clean[p]
      BY <3>1 DEF DoctorInv, CleanRepair
    <3> QED
      BY <1>1, <3>1, <3>2 DEF Start, BeginSnapshot, BeginImport, BeginDelete, BeginPrune,
         BeginDoctor, Begin, Lock
  <2>2. CASE \E d \in BOOLEAN : BeginDoctor(p, d)
    <3>1. PICK d \in BOOLEAN : BeginDoctor(p, d)
      BY <2>2
    <3>2. /\ mode'[p] = "doctor" /\ pc'[p] = "confirmBroken" /\ deep'[p] = d
          /\ targets'[p] = Broken(d) /\ strays'[p] = Untracked
      BY <3>1 DEF BeginDoctor, Begin
    <3>3. Broken(d) \subseteq Broken(TRUE)
      BY DEF Broken
    <3>4. CleanRepair(p)'
      BY <2>1, <3>2, SameDiagnosis DEF CleanRepair
    <3>5. targets'[p] \subseteq Broken(TRUE)'
      BY <2>1, <3>2, <3>3, SameDiagnosis
    <3> HIDE DEF IInv
    <3> QED BY <2>1, <3>2, <3>4, <3>5, OwnRepair
  <2>3. CASE ~ \E d \in BOOLEAN : BeginDoctor(p, d)
    <3>1. /\ mode'[p] \in {"snapshot", "import", "delete", "prune"} /\ pc'[p] # "idle"
          /\ clean'[p] = clean[p]
      BY <1>1, <2>3 DEF Start, BeginSnapshot, BeginImport, BeginDelete, BeginPrune, Begin
    <3> QED BY <2>1, <3>1, OwnRepair
  <2> QED BY <2>2, <2>3
<1>3. ASSUME NEW p \in Proc, Capture(p) PROVE DoctorInv'
  <2>1. pc[p] = "capture" /\ mode[p] # "doctor" /\ ~ clean[p]
    BY <1>3 DEF Capture, ReuseImage, StageBlob, DoctorInv, CleanRepair
  <2>2. UNCHANGED <<mode, clean>> /\ \A q \in Proc \ {p} : pc'[q] = pc[q]
    BY <1>3 DEF Capture, ReuseImage, StageBlob
  <2> QED BY <2>1, <2>2, OwnRepair
<1>4. ASSUME NEW p \in Proc, Advance(p) PROVE DoctorInv'
  BY <1>4, AdvanceKeepsRepair
<1>5. ASSUME NEW p \in Proc, Abort(p) PROVE DoctorInv'
  BY <1>5, CloseEndsRepair DEF Abort
<1>6. ASSUME NEW h \in Hash, NEW v \in {"bad", "absent"}, Damage(h, v)
      PROVE  DoctorInv'
  <2>1. Broken(TRUE) \subseteq Broken(TRUE)'
    <3>1. files' = [files EXCEPT ![h] = v] /\ UNCHANGED <<rows, missized, manifest>>
      BY <1>6 DEF Damage
    <3>2. \A s \in Stored : manifest[s] \in SUBSET rows
      BY DEF CatalogInv, Stored
    <3>3. ASSUME NEW s \in Broken(TRUE) PROVE s \in Broken(TRUE)'
      <4>1. s \in Stored /\ s \in Stored' /\ manifest[s] \in SUBSET rows
        BY <3>1, <3>2 DEF Broken, Stored
      <4>2. PICK g \in manifest[s] :
              g \in Hash /\ (files[g] \in {"bad", "absent"} \/ g \in missized)
        BY <4>1 DEF Broken, Missing, Corrupted
      <4>3. /\ \/ files'[g] \in {"bad", "absent"}
               \/ files'[g] = "good" /\ g \in missized'
            /\ g \in manifest'[s] /\ g \in rows'
        <5>1. files[g] \in {"good", "bad", "absent"}
              /\ files'[g] = IF g = h THEN v ELSE files[g]
          BY <3>1, <4>2
        <5> QED BY <3>1, <4>1, <4>2, <5>1
      <4> QED BY <4>1, <4>3 DEF Broken, Missing, Corrupted
    <3> QED BY <3>3
  <2> QED BY <1>6, <2>1 DEF Damage, DoctorInv
<1>7. CASE UNCHANGED vars
  <2>1. UNCHANGED <<files, rows, missized, manifest, refs, pc, mode, todo, cur, targets,
                    strays, deep, clean>>
    BY <1>7 DEF vars
  <2>2. /\ \A d \in BOOLEAN : Broken(d)' = Broken(d)
        /\ Untracked' = Untracked /\ Unreferenced' = Unreferenced
    BY <2>1, SameDiagnosis
  <2> SUFFICES ASSUME NEW p \in Proc
               PROVE  /\ pc'[p] \in {"idle", "capture", "staged", "published", "adopt"}
                           => mode'[p] # "doctor"
                      /\ clean'[p] => CleanRepair(p)'
                      /\ mode'[p] = "doctor" => targets'[p] \subseteq Broken(TRUE)'
    BY DEF DoctorInv
  <2>3. clean'[p] => CleanRepair(p)'
    BY <2>1, <2>2 DEF CleanRepair, DoctorInv
  <2>4. Broken(TRUE)' = Broken(TRUE)
    BY <2>2
  <2> QED BY <2>1, <2>3, <2>4 DEF DoctorInv
<1> QED BY <1>1, <1>3, <1>4, <1>5, <1>6, <1>7 DEF Next

(* A doctor always has before it what is still to repair. *)
THEOREM RepairInvariant == Spec => []DoctorInv
<1>1. Init => DoctorInv
  BY DEF Init, DoctorInv
<1> QED BY <1>1, RepairSteps, InductiveInvariant, PTL DEF Spec

(* A repair nobody declined and nothing disturbed leaves a healthy store: the
   second diagnose finds nothing, and a deep one no corrupted object either,
   since one that no snapshot references was swept.                          *)
THEOREM RepairsHeal == Spec => []RepairHeals
<1>1. IInv /\ DoctorInv => RepairHeals
  <2> SUFFICES ASSUME IInv, DoctorInv, NEW p \in Proc, pc[p] = "recheck", clean[p]
               PROVE  Healthy(deep[p])
    BY DEF RepairHeals
  <2>1. /\ Broken(deep[p]) = {} /\ Unreferenced = {} /\ Untracked = {}
    BY DEF DoctorInv, CleanRepair
  <2>2. ASSUME deep[p], NEW h \in Corrupted PROVE FALSE
    <3>1. h \in rows /\ h \in Hash
      BY <2>2 DEF Corrupted, IInv, TypeOK
    <3>2. PICK s \in Snap : <<s, h>> \in refs
      BY <2>1, <3>1 DEF Unreferenced
    <3>3. s \in Stored /\ h \in manifest[s]
      BY <3>1, <3>2 DEF IInv, CatalogInv, Stored
    <3>4. s \in Broken(deep[p])
      BY <2>2, <3>3 DEF Broken
    <3> QED BY <2>1, <3>4
  <2> QED BY <2>1, <2>2 DEF Healthy
<1> QED BY <1>1, RepairInvariant, InductiveInvariant, PTL

(* Every step that makes a snapshot disappear is the deletion of one. *)
LEMMA OnlyDeletes ==
  ASSUME IInv, [Next]_vars, NEW s \in Snap, manifest[s] # Absent, manifest'[s] = Absent
  PROVE  \E p \in Proc : DeleteSnapshot(p, s)
<1> USE DEF IInv, TypeOK, disk, env, local
<1>1. ASSUME NEW p \in Proc, Start(p) PROVE UNCHANGED manifest
  BY <1>1 DEF Start, Begin, BeginSnapshot, BeginImport, BeginDelete, BeginPrune, BeginDoctor
<1>2. ASSUME NEW p \in Proc, Capture(p) PROVE UNCHANGED manifest
  BY <1>2 DEF Capture, ReuseImage, StageBlob
<1>3. ASSUME NEW p \in Proc, Advance(p) PROVE DeleteSnapshot(p, s)
  <2>1. ASSUME NEW t \in Snap, CommitSnapshot(p, t) \/ Register(p, t) PROVE FALSE
    <3>1. got[p] # Absent
      BY SentinelAssumption
    <3> QED BY <2>1, <3>1 DEF CommitSnapshot, Register, InsertSnapshot
  <2>2. ASSUME NEW t \in Snap, DeleteSnapshot(p, t) PROVE t = s
    BY <2>2 DEF DeleteSnapshot
  <2>3. CASE \/ Publish(p) \/ RecordRow(p) \/ EndDelete(p) \/ UnlinkFile(p)
             \/ KeepFile(p) \/ EndPrune(p) \/ RequeryOrphans(p) \/ OfferStrays(p)
             \/ EndRepair(p) \/ EndDoctor(p) \/ Accept(p) \/ Decline(p) \/ DeclineAll(p)
             \/ \E h \in Hash : \/ AdoptObject(p, h) \/ DeleteRow(p, h) \/ SkipRow(p, h)
                                \/ RemoveStray(p, h) \/ KeepStray(p, h)
             \/ \E t \in Snap : KeepSnapshot(p, t)
    <3>1. UNCHANGED manifest
      BY <2>3 DEF Publish, KeepSnapshot, RecordRow, EndDelete, UnlinkFile, KeepFile, EndPrune,
         RequeryOrphans, OfferStrays, EndRepair, EndDoctor, Accept, Decline, DeclineAll,
         AdoptObject, DeleteRow, SkipRow, RemoveStray, KeepStray
    <3> QED BY <3>1
  <2> QED BY <1>3, <2>1, <2>2, <2>3 DEF Advance
<1>4. ASSUME NEW p \in Proc, Abort(p) PROVE UNCHANGED manifest
  BY <1>4 DEF Abort
<1>5. ASSUME NEW h \in Hash, NEW v \in {"bad", "absent"}, Damage(h, v)
      PROVE  UNCHANGED manifest
  BY <1>5 DEF Damage
<1> QED BY <1>1, <1>2, <1>3, <1>4, <1>5 DEF Next, vars

(* A snapshot doctor deletes is broken when it is deleted, not only when the
   question was asked.                                                       *)
THEOREM DoctorIsCareful == Spec => DoctorDeletesOnlyBroken
<1>1. IInv /\ DoctorInv /\ [Next]_vars => DeletesOnlyBroken
  <2> SUFFICES ASSUME IInv, DoctorInv, [Next]_vars, NEW p \in Proc, NEW s \in Snap,
                      mode[p] = "doctor", targets'[p] # targets[p],
                      manifest[s] # Absent, manifest'[s] = Absent
               PROVE  s \in Broken(TRUE)
    BY DEF DeletesOnlyBroken
  <2>1. PICK q \in Proc : DeleteSnapshot(q, s)
    BY OnlyDeletes
  <2>2. q = p /\ s \in targets[p]
    BY <2>1 DEF DeleteSnapshot, IInv, TypeOK
  <2> QED BY <2>2 DEF DoctorInv
<1> QED BY <1>1, RepairInvariant, InductiveInvariant, PTL
           DEF Spec, DoctorDeletesOnlyBroken

(* What a snapshot is shown to own alone is what its deletion leaves to prune. *)
THEOREM ExclusiveIsWhatPruneGets == Spec => ExclusiveIsReclaimable
<1>1. IInv /\ [Next]_vars => LeavesExclusive
  <2> SUFFICES ASSUME IInv, [Next]_vars, NEW s \in Snap,
                      manifest[s] # Absent, manifest'[s] = Absent
               PROVE  Unreferenced' = Unreferenced \cup Exclusive(s)
    BY DEF LeavesExclusive
  <2>1. rows' = rows /\ refs' = {r \in refs : r[1] # s}
    BY OnlyDeletes DEF DeleteSnapshot
  <2>2. \A t \in Snap, h \in rows : <<t, h>> \in refs' <=> <<t, h>> \in refs /\ t # s
    BY <2>1
  <2>3. \A h \in rows : h \in Unreferenced'
                        <=> \A t \in Snap : <<t, h>> \in refs => t = s
    BY <2>1, <2>2 DEF Unreferenced
  <2>4. \A h \in rows : h \in Exclusive(s) <=> {t \in Snap : <<t, h>> \in refs} = {s}
    BY DEF Exclusive
  <2>5. ASSUME NEW h \in rows
        PROVE  h \in Unreferenced' <=> h \in Unreferenced \/ h \in Exclusive(s)
    BY <2>3, <2>4 DEF Unreferenced
  <2> QED BY <2>1, <2>5 DEF Unreferenced, Exclusive
<1> QED BY <1>1, InductiveInvariant, PTL DEF Spec, ExclusiveIsReclaimable
================================================================================
