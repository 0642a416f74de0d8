# dockervc in TLA+

dockervc takes content-addressed snapshots of a Docker engine (containers,
volumes, bind mounts, images, networks), keeps them in a local store, and can
export, import and roll back to them. This directory holds TLA+ modules for the
parts of it that are hard to test, TLC configurations that check them on small
instances, and TLAPS proofs of every safety property those runs check.
`PROJECT.json` maps every definition to the lines it translates.

    tlc -config MCRollback.cfg MCRollback        # one run; the module is in PROJECT.json
    tlapm RollbackProofs.tla                     # the proofs about one module

## 1. Inventory

| component (src/internal) | state | operations | interacts with |
|---|---|---|---|
| object store and catalog: `store/` | `objects/<xx>/<hash>` files, tables objects / snapshots / refs, `lock` | PutBlob, AdoptObject, PutObject, InsertSnapshot, DeleteSnapshot, DeleteObject, Open, Close | called by every command; one exclusive lock for each store |
| maintenance: `cli/maintenance.go`, `cli/doctor.go` | lists made before a prompt and used after it | delete, prune, doctor (plain, `--deep`, `--repair`) | store |
| capture: `snapshot/capture.go`, `bindmount.go` | the manifest under construction, `toRestart`, `requiredImages` | stop, list, inspect, archive, save, persist, deferred restart | Docker engine, store, volume tee |
| volume tee: `snapshot/volindex.go`, `livevolume.go`, `dockerapi/stream.go` | a pipe between two goroutines, the helper container | read, tee, parse, commit, Finish, helper removal | capture, rollback's comparison, `status --deep` |
| rollback: `rollback/`, `dockerapi/restore.go`, `cli/rollback.go` | live state fetched once, the plan, ids made by it | fetch, consent, compare, plan, checkpoint, confirm, apply | engine, store, capture (the checkpoint) |
| archives: `portable/`, `cli/export.go`, `cli/import.go`, `store/adopt.go` | the staging file, the index of pass 1 | export, verify, two-pass import, register, `--apply` | store, file system, rollback |
| selective export: `artifact/`, `cli/selected_export.go` | one staging file and one file for each artifact, `export-index.json` | name, select, stream, verify, publish, update the index | store, the exports of other stores in the same folder |
| archive browsing: `cli/archive.go`, `cli/files.go` | none | list, show, verify | archives, the export index |
| drift report and diff: `snapshot/status.go`, `layerhash.go`, `cli/status.go` | none | compare, print | engine, store, the tee |
| image archive rewriting: `dockerapi/imagearchive.go` | none | drop the tags of a `docker save` tar, compute the image key | capture |
| command line, line menu: `cli/root.go`, `cli/interactive.go` | the open store of the session | build an argument list, run a command, confirm | all |
| full-screen interface: `cli/tui*.go`, `cli/status_menu.go` | the dialog on top, the input line, the output shown, the list of snapshots last read | keys, flows of dialogs, the gate before destructive commands, expansion of ids | all; other processes change the store between two keys |
| progress, free-space probes | counters | render, one system call | none |

What is hard, and what makes each part correct:

* **Store.** Two processes on one store; death between the rename of an object
  and its row, or between the row and the file of a deletion; a dedup hit that
  trusts a file it does not read; lists made before a prompt. *Correct:* no
  object a snapshot references is lost to the tool itself, snapshots appear
  and disappear whole, a completed repair leaves nothing to repair, the lock is
  always let go.
* **Capture.** Each phase lists, then acts on the list while other clients and
  crash-looping containers change the engine; the restart is a `defer`.
  *Correct:* a committed manifest can be restored, containers are left as they
  were found, a consistent snapshot has no volume read under a writer.
* **Tee.** Two goroutines on an unbuffered pipe, and an exit status that arrives
  behind the data. *Correct:* index and object are of the same bytes, a late
  failure is not lost, nobody waits for ever.
* **Rollback.** Read, ask, compare, checkpoint, ask, act, against an engine that
  others use; any step fails; the next run starts from what the failed one left.
  *Correct:* success means the recorded state, nothing is destroyed that the
  checkpoint does not have, names move only with consent, nobody runs on a
  half-restored volume.
* **Archives.** A file that is read twice, carried by hand, and written beside
  its final name. *Correct:* what is published is whole, what is imported is
  verified, the reader accepts what the writer writes.

* **Selective export.** Data is written before it is known to be good, an
  artifact is published before its index entry, the folder has no lock, and
  different paths get one file name. *Correct:* a file that bears an artifact's
  name is exactly that selection, and the index lists nothing that is not there.
* **Drift.** Three pieces of code compare a snapshot with the engine. *Correct:*
  they agree.
* **Session.** What a key does depends on the dialogs before it, a command runs
  where nobody can see its prompt, and the list of snapshots is as old as the
  last command. *Correct:* nothing is destroyed that was not named and agreed to,
  the preview is of what is applied, Esc gets out.

`PROJECT.json` lists 40 hazards with the line where each bites and the
properties that watch it.

## 2. Modules

| module | what it is |
|---|---|
| `SnapshotRepository` | the abstract promise of the store: a catalog of immutable snapshots and the set of objects that can be read |
| `ObjectStore` | the store and snapshot, import, delete, prune, doctor as sequences of durable effects |
| `Capture` | one `Capturer.Run` against a live engine |
| `VolumeTee` | the archiving and indexing of one volume |
| `Rollback` | runs of `rollback` and `import --apply` against a live engine |
| `Archive` | concurrent exports to one path, the archive on its way, a two-pass import |
| `Drift` | status, plain and deep, and the rollback checklist, over the states of `Rollback` (which it extends) |
| `ExportIndex` | selective exports of several stores into one folder, and the browser and listing that read what they use and make |
| `Session` | the full-screen session: keys, dialogs, flows, the gate, and the commands as what they do to the catalog |
| `ObjectStoreProofs`, `CaptureProofs`, `VolumeTeeProofs`, `RollbackProofs`, `ArchiveProofs`, `DriftProofs`, `ExportIndexProofs`, `SessionProofs` | theorems about the module each is named after (section 5) |
| `MC*` | constants for TLC |

The modules meet at these interfaces. `ObjectStore` implements
`SnapshotRepository` (`ImplementsRepository`, with the refinement mapping
`catalog <- manifest`, `readable <- Readable`). What `Capture` records as a
manifest entry is a StageBlob / Publish / RecordRow sequence of `ObjectStore`,
what it does for one volume is a run of `VolumeTee`, and its `RecipesComplete` is
what `Rollback` assumes of a snapshot (`RollbackAssumption`). `Archive` has the
importing store as its files and the hashes with a row; the other commands that
run beside the same import, and its lock, are in `ObjectStore` (BeginImport,
AdoptObject, Register). `Drift` adds
to the states of `Rollback` what two other readers of the same engine say about
them. `Session` runs each command as one step with the outcomes those modules
give it: it may fail, decline, delete some of what it was asked to, or enter a
snapshot (a capture, an import, a checkpoint) in the catalog.

### How state and actions correspond to the code

* **ObjectStore.** `files`, `rows`, `missized`, `keyed`, `manifest`, `refs` are
  the disk (`missized`: the rows whose size column is not the object's). An
  action is one durable effect: the rename of a staged file, one SQL statement
  or transaction, one unlink. `holder` is the flock; a second `Open` fails at once
  and changes nothing, so it is no action. `pc` and the per-process lists are the
  locals of the running command; `Abort` is both an error return and the death of
  the process, since either leaves the disk as the last step did. An object's
  bytes are good, bad or absent; staging files only appear as the label `staged`.
* **Capture.** One action for each engine call. `Leave` is every return of `Run`;
  only a registered `defer` leads through the phase `restart`. `User`, `Flap` and
  `RemoveHelper` are the rest of the world.
* **VolumeTee.** A stream is a sequence of 512-byte blocks with the way the
  helper ends. `ReadChunk` / `WriteReturns` are the two halves of `TeeReader.Read`,
  `Parse` is one block taken by `tar.Reader`. The tar reader and the pipe are
  library code, modelled from how the code uses them.
* **Rollback.** The planner is a set of operators of (snapshot, live state,
  request); the plan a record of step sets applied kind by kind. Configuration
  and volume content are relative to the snapshot: recorded, drifted, partial.
* **Archive.** An archive is the sequence of its entries; `durable` and `synced`
  count what a power failure leaves. An adopted object gets its file (`AdoptEntry`)
  and its row in one step, or only the file if the row fails
  (`AdoptUnrecorded`); `Register` has the foreign key of `refs` as a guard.
* **ExportIndex.** One action for each system call that another process or a
  failure can come between: `Begin` (the look at the output), `Stream`, `Sync`,
  `Publish` (rename), `ReadIndex`, `WriteIndex`, `RenameIndex`. A tar is the
  sequence of its members, a path the sequence of its components; a checksum is
  the content itself. `disturbed` remembers whether anything came between the two
  renames of an export. `FileIndex`, `VolumePathItems` are the browser's view of
  the same tar.
* **Drift.** Operators over `snap` and `eng` of `Rollback`: `ComputeDrift` and
  `LiveVolumeDrift` (status), `PreChecked` (the boxes ticked in the checklist).
* **Session.** `dlg` is `t.dlg` with the command its closures would run (`cmd`)
  and what else they captured; `pane` is the output with how the command ended;
  `snaps` is `t.snaps`. One action is one key, with all a handler does: it closes
  the dialog, runs commands, shows another dialog. Flows that only end in
  harmless commands are the rows of a table; those that delete, repair, roll
  back or import are operators. A typed line is a member of `Lines`: the words
  the gate and `expandSnapArgs` look at, with the form (`masked`: a flag before
  the command, or `--repair=true`) that keeps them from seeing them.

## 3. Runs

| run | states | what it shows |
|---|---|---|
| `store` | 871,645 | Two processes run every command in any order, failing or dying at each step, while the disk damages two files. Referenced objects keep row and file; a prune or repair never takes what a capture has collected; doctor deletes only what is broken when it is deleted; a repair with everything accepted leaves a healthy store; "exclusive" means what a delete leaves to prune. |
| `store_refines` | 41,668 | The store implements `SnapshotRepository`; a command that keeps running lets go of the lock. |
| `capture` | 153,098 | Captures of everything and of containers only, with and without `--stop` and anonymous volumes: manifests are complete, run states are put back, consistent means consistent, and what was stopped comes back. |
| `tee` | 2,628 | Index and object agree, a late failure is seen, the call returns. |
| `rollback` | 1,066,182 | Up to two runs from every drift of the instance, any step failing, one act of another client: a successful run restores exactly and has nothing to do the second time; no partial volume is observed; nothing outside the checkpoint is destroyed; names move with consent. Before, between and after the runs "No drift" means that a rollback has nothing to rewrite, load or stop, and the checklist as it comes up destroys nothing. |
| `archive` | 1,348,844 | Two exports race for one path with an import in two passes and one mishap, which may be that an archive the program did not write comes under the path, between the passes too: what is published is whole, what is imported is intact and verified, an archive of an undamaged store verifies. |
| `export_index` | 242,506 | Two stores, names that collide, one failure, death, power failure or rotten object anywhere: an artifact is exactly the selection, no index entry lacks its file, the index is complete when no export was disturbed between its renames, what the browser offers can be exported. |
| `session` | 407,137 | Any keys in any flow, typed lines of every form, failing commands, one change by another process: nothing is destroyed without a "y" to a question that says so or a typed `--yes`, the snapshots that go are the named ones, a by-name rollback applies what it previewed, and Esc alone leads out. |

Four further runs end in a counterexample; each shows a disagreement between the
code and what it, or its documentation, says:

| run | property | what happens |
|---|---|---|
| `capture_failure` | `RestartsEvenOnFailure` | A stop that fails half-way returns before the restart is deferred; the containers already stopped stay down. |
| `capture_state` | `RunStateRecorded` | With `--stop`, the run state is inspected after the stop, so a running container is recorded as stopped, and a rollback creates it stopped. |
| `tee_padded` | `Returns` | `archive/tar` reports the end at the end marker and the parser goroutine leaves; the tee's write of the padding behind it, which GNU tar adds up to its record size, blocks for ever. busybox tar, in the first helper candidate, does not pad. |
| `rollback_rerun` | `StoppedAreRestarted` | A run stops an out-of-scope container for a shared volume and fails; the re-run finds it stopped and no longer plans to start it. |

### Bounds, and why they are enough

* `store`: 2 processes (the lock is a mutual exclusion of two), 3 hashes and 2
  snapshots (one object shared, one exclusive to each), 1 image key (met again or
  not), 2 damages. Processes, hashes and snapshots are symmetric. The proofs in
  section 5 hold for any number. `store_refines` has
  no symmetry, since that is unsound for liveness, and 2 hashes, 1 snapshot.
* `capture`: two containers on one volume, one crash-looping, with different
  images of which one is already stored; one act of another client
  (`MaxUser`), anywhere. Two containers are what it takes to fail between two
  stops; an image, a volume and a container can each vanish between list and use.
* `tee`: archives of 0 to 2 one-block files, of which one may hold a zero block or
  what looks like a header, cut after every block, with reads of
  1 to 3 blocks (`MaxChunk`), so that a chunk ends before, at and after the marker.
  The type invariant and the proofs are about streams of any length.
* `rollback`: two containers sharing one volume, a second (anonymous) volume, two
  images and names, one network; 2 runs (`MaxRuns`), enough for a run that fails
  and its repetition; 1 act of another client (`MaxUsers`). Six requests cover
  each mode, a full and a partial scope, and `--keep-current`.
* `archive`: 2 exporters of manifests that have one id and one shared object, one
  of them naming an object twice; five archives the program did not write,
  there at first or brought under the path at any time; one mishap (`MaxHarm`). A mishap is what a property has to survive alone; two take
  longer than a run should, as does a third manifest.

* `export_index`: 2 stores of one snapshot (a folder is shared by stores on one
  machine), two volumes whose default names collide (`.env` and `env`) and an image,
  paths that change under normalisation, eight captured tars of one volume (a
  directory, a link, a name that becomes a duplicate, one that comes to lie below
  a file, a rejected name, nothing but the root among them), ten requests, an
  absent and a broken index. 2 exports (`MaxExports`) are one race; 1 mishap
  (`MaxMishaps`).
* `session`: 3 snapshots, 2 there at first, so that a third can appear under an id
  that makes a typed prefix ambiguous; tokens that match one, two or a message
  only; nine lines (named, masked, with and without `--yes`); one container and
  one volume, since a kind is either empty or not; 1 act of another process
  (`MaxOthers`) anywhere. The dialogs bound the rest: no counter is needed.

`CHECK_DEADLOCK FALSE` is set where the system does stop: a capture returns or is
killed; a tee returns; after `MaxRuns` rollbacks nothing is left to do; a store
whose objects are gone can export nothing; after `MaxExports` selective exports
nothing is left; a session is quit. The store runs check deadlock.

### Fairness

* `ObjectStore!FairSpec`: weak fairness of `Advance(p)`, the steps a running
  command takes without choosing new work. A command is a sequential program, its
  prompts are answered (a menu session blocks on them, the lock held, by design).
  Nothing makes a user start a command or a capture choose one more entity.
* `Capture!FairSpec`: weak fairness of `Step`: engine calls return (each has a
  context; a hung engine hangs `Run`). Killing is always possible and never fair.
* `VolumeTee!FairSpec`: weak fairness of `Next`: goroutines are scheduled and the
  helper's tar goes on to its end. A pipe write that nobody reads is not enabled,
  which is how the hang shows up.
* `Session!Leaving`: weak fairness of `EscKey`, the user's side: who wants out
  hits Esc again. `EscLeaves` then says that if from some point on nothing but Esc
  is hit (other processes may go on), the session ends. Nothing is asked of a user
  who does anything else. Commands return, as in the other modules.

## 4. Faulty variants

Definitions with a comment `Faulty:` are plausible bugs (a shared lock, a
missing sync, a swapped column, a dropped foreign key). They are not used by any
specification; substituting one for the definition it precedes breaks the
property `PROJECT.json` names in "mutants", which shows that every property
depends on the code it is about.

## 5. Proofs

TLAPS proves every invariant and every action property that a passing run checks,
for every value of the constants that the modules' assumptions admit: any sets of
processes, stores, hashes, snapshots, containers, volumes, images, names, lines,
tars and requests, and any bounds. `DriftProofs` extends `RollbackProofs`; each of
the others extends its module. The theorems:

| module | theorem | what it states |
|---|---|---|
| `ObjectStoreProofs` | `TypeCorrect`, `InductiveInvariant`, `RepairInvariant` | `TypeOK`, `IInv`, `DoctorInv` always hold |
| | `ObjectsIntact`, `InFlightSafe`, `RepairsHeal` | `ReferencedObjectsIntact`, `InFlightObjectsRecorded`, `RepairHeals` |
| | `DoctorIsCareful`, `ExclusiveIsWhatPruneGets` | the action properties `DoctorDeletesOnlyBroken`, `ExclusiveIsReclaimable` |
| | `Refinement` | `Spec => ImplementsRepository` |
| `CaptureProofs` | `RecipesAreComplete`, `RunStateIsRestored`, `ArchivedCold` | `RecipesComplete`, `RestoresRunState`, `AppConsistent` |
| `VolumeTeeProofs` | `FailureIsObserved`, `IndexMatchesObject` | `FailureObserved`, `IndexIsOfObject` |
| `RollbackProofs` | `PartialIsUnobserved`, `CheckpointHasWhatIsDestroyed` | `NoPartialObserved`, the action property `DestroysOnlyCheckpointed` |
| | `NamesAreAskedFor`, `KeepsAccount`, `SuccessIsExact`, `RerunIsNoOp`, under `Unambiguous` | the action property `NamesMoveWithConsent`, then `CalmInv`, `RestoredExactly`, `Idempotent` |
| `DriftProofs` | `ChecklistIsHarmless`; `StatusAgrees`, under `Unambiguous` | `DefaultsDestroyNothing`; `StatusAgreesWithRollback` |
| `ArchiveProofs` | `PublishedIsComplete`, `SoundExportVerifies`, `ImportIsIntact`, `AdoptedIsVerified` | `PublishedComplete`, `SoundRoundTrip`, `ImportedIntact`, `OnlyVerifiedAdopted` |
| `ExportIndexProofs` | `ArtifactsAreExact`, `ListedIsReadable`, `IndexIsComplete`, `OffersAreExportable` | `ArtifactExact`, `ListedReadable`, `IndexComplete`, `OfferedExportable` |
| `SessionProofs` | `PreviewsAreOfWhatIsApplied`, `DestroysOnlyOnYes`, `DeletesOnlyTheNamed` | `PreviewedIsApplied`, and the action properties `DestroysOnYes`, `DeletesTheNamed` |

`CaptureProofs`, `VolumeTeeProofs`, `RollbackProofs`, `ArchiveProofs`,
`ExportIndexProofs` and `SessionProofs` each prove `InductiveInvariant` (`IInv`)
and `TypeCorrect` (`TypeOK`) as well.

### Assumptions

The modules' own, which TLC evaluates on every run: sets are what their names say,
sentinels lie outside the sets, bounds are numbers. Those that say something of
the program:

* `RollbackAssumption` has a snapshot record the image of each container it
  records (`RecipesComplete` of `Capture`), and an engine nobody
  rolled back yet have every volume that a container mounts, and none half-written.
* `SessionAssumption` has an id match no other id (`Prefix[s] = {s}`): ids have one
  length (`newSnapshotID`).
* `ChunkAssumption` of `VolumeTee`: a read returns at least one block or the end.
* `Unambiguous` is no assumption of a module but a hypothesis of five theorems: all
  containers in a request's scope that were created from one image name mean one
  image, and an image that has the name is that one. Without it the theorems are
  false: the plan gives the name to one image after the other and creates both
  containers from the last (`plan.go:671`; section 6). `MCRollback` asserts it of
  its instance, so that the run and the theorems are about the same case.

### Inductive invariants, and why they are needed

No property of a run is inductive alone. Each `IInv` was checked by TLC on the
instance of the module's run before it was proved. Proofs have a lemma for each
action or group of actions and, in it, a step for each part an action disturbs.

* **`ObjectStore`.** `LockInv`: only the holder of the lock is active; without it
  another process may hold a list that a step of this one invalidates.
  `CatalogInv`: `refs` is what the manifests say, referenced hashes have rows, and
  the row, not the reference, carries the file (prune's query is about rows).
  `CurrentInv`: the object between two steps. `StraysInv`: doctor's list of
  untracked files stays disjoint from the rows, because no row is added while it
  holds the lock; this is why deleting from a list made before the prompts is
  sound. `GotInv`: what a capture has collected has its row. `DoctorInv`, for the
  repair, says offer by offer what is still wrong with the store: the three lists
  are exactly that as long as nothing was declined and no disk error came in
  between, and a snapshot on the list of broken ones stays broken, since nothing
  but its deletion changes it while the lock is held.
  `Refinement` maps InsertSnapshot to `Commit` (every collected object is
  backed), DeleteSnapshot to `Remove`, Publish to `Rewrite` or a stutter,
  UnlinkFile and RemoveStray to `Forget` (they are unreferenced), Damage to
  `Damage`; all else stutters.
* **`Capture`.** `RecipesInv`: a container's image is required from the moment its
  recipe is recorded, and is either still to save or saved. `RestartInv`: of the
  containers nobody else touched, Run stopped only ones that ran and is still to
  restart exactly those. `QuietInv`: after the stop phase none of them runs.
* **`VolumeTee`.** `PipeInv`: the pipe holds what was handed over and not parsed,
  so the parser's position is the consumer's whenever the consumer is not in a
  write. `ParserInv`: where in the pairs of header and content the parser is, and
  that it leaves only at what is no header or at the end of all that comes.
  `CopyInv`: a copy stops with everything stored or has failed.
* **`Rollback`.** `IdInv`: a container keeps its configuration and image as long as
  its id, so what the plan (made from the fetch) and the checkpoint know of an id
  holds when a step finds that id. `VolumesInv`: a half-written volume is one of
  the snapshot's, in the plan if it is in the scope, and was half-written at the
  fetch and the checkpoint if it is not. `QuiescedInv`: whoever runs on a volume
  that is to be cleared is in the plan to be stopped or removed. `PlanInv`: what
  is removed or renamed was called for, and asked. `FillingInv`: from clearing a
  volume to filling it nothing else happens. `CalmInv`, for exactness, is an
  account: while nobody else acts, whatever differs from the snapshot is in what
  is left of the plan, container by container. A failed run ends with the plan
  not empty; the next one starts from a fetch, so the account is opened anew.
* **`Archive`.** `StagedInv`: a staging file is a beginning of the archive of its
  manifest, and the list of hashes left is the rest of it. `FileInv`: what is under
  the real name was synced before. `RowInv`: a row is written after its file, so
  only damage explains a row without an intact one, and every object of the
  registered snapshot has its row. The snapshot is entered over rows alone (the
  foreign key), so nothing need be known of what either pass read.
  That sorting yields each hash once is proved by counting.
* **`ExportIndex`.** `HandInv`: what an export holds is verified, and synced before
  it gets a name. `DiskInv`: every named file is what some request for the name
  tells. `EntryInv`: the entries of the index, and of every copy a process has
  read, have files (files are never removed). `WindowInv`: while no window was
  disturbed, at most one export is between its renames, on the entries that are in
  the index, and only its file may lack its entry.
  `OffersAreExportable` compares two readers of one capture: a prefix of a path
  stays one when both are normalised (`NormalPrefix`), what the loop over the tar
  picks is the set of members below the path (`PickedFacts`), and in a plain volume
  nothing else is called or lies below a raw file.
* **`Session`.** `Shaped`: what each dialog can hold. A command is built by several
  flows, bit by bit; the invariant says that it never has `--yes`, except the
  repair offer's, that a final question answers no by itself, that rows of a
  delete list are ids, and that a dialog of the scope flow holds a plain rollback.
  From this every action shows that what destroys went through a question.

### What is only model-checked

* Liveness: `LockReleased`, `StoppedComeBack`, `Returns`, `EscLeaves`. TLAPS has no
  backend for fairness and ENABLED here.
* The four properties that runs show violated.

Every other property of a passing run is proved. The library's induction theorems
take a predicate as a parameter, which the installed backends cannot instantiate.
Where a proof needs induction over a number (flattening a path, the loop over a
tar) it goes over a set instead (`SetInduction`, from the well-foundedness of `<`).

## 6. Not modelled, and why

* The line menu (`RunInteractive`): the same commands by console prompts, one
  after the other, without a state of its own between two commands.
* Drawing, cursor movement, filtering, completion of ids and paths in the
  full-screen interface: they choose which row or line is entered, and the model
  takes any.
* Progress, `show`, `log`, `archive show`, `files` and the printing of diffs: they
  read and print. `DiffManifests`, file-level diffs and layer fingerprints end
  in text only; the volume comparison a rollback relies on is a verdict in `Rollback`.
* `imagearchive.go`: a byte-level rewrite; its result is the image key.
* Free-space checks: a system call and a comparison before an export.
* Power failure in the store: `ObjectStore` models process death. A rename into
  `objects/` that is lost because its directory was not synced appears only as
  damage; the hazard is listed.
* Windows: `lock_windows.go` is the same exclusive lock; drive letters and
  backslashes only as `Drives` and `Split` of `ExportIndex`.
* Snapshots from before image recipes (`ImageObject`) in rollback.
* The look-up of a volume or image by name or digest prefix (`artifact/select.go`).

### Met while modelling

What the properties except, or no property says, and a reader of the code should know:

* Two stores that export into one folder can lose each other's index entry
  (`updateExportIndex` reads, changes and renames without a lock). `IndexComplete`
  excepts it through `disturbed`; `README.md:184` of the repository and
  `internal/cli/export.go:46` describe the index without that exception.
* An object that is already in the local store is not read on import
  (`adopt.go:29`): a corrupted one survives an import that reports success, though
  the archive has the good bytes. `ImportedIntact` excepts damaged local files.
* Two containers captured from one image name before and after a rebuild are both
  restored from the image that was given the name last (`plan.go:671`). The
  instance of `rollback` gives each container a name of its own, and the proofs
  that need it say so (`Unambiguous`).
* The count the second pass of an import is judged by counts entries, not objects
  (`read.go:294-328`), and the pass opens the path anew. If another archive lies
  there by then, one with a doubled object, `Adopt` reports success with an object
  neither verified nor placed, against its comment (`read.go:251`). The `archive`
  run reaches these states. The snapshot is not entered, because `refs.hash`
  references `objects(hash)` (`db.go:32`) with foreign keys switched on
  (`store.go:141`), which `INSERT OR IGNORE` does not get around; so
  `ImportedIntact` holds by the schema and not by the count, and a test of the
  import that never meets the constraint would not notice its loss. If the
  skipped object has a row already, the snapshot is entered over what is stored.
* `doctor --deep` takes an object for corrupted when its row has another size
  (`doctor.go:241`). A row first written over a damaged file keeps that size
  (`INSERT OR IGNORE`) when a later capture or import puts the good file back:
  doctor then offers to delete a snapshot whose objects are all intact.
  `DoctorDeletesOnlyBroken` counts such a row as something broken.
* One captured file whose name begins like a drive (`a:b`) makes every path export
  of its volume fail, though the browser offers the paths; backslashes in names
  become slashes and may then collide: of a file `a` beside a file `a\b`, `a` is
  offered as a raw file and refused as two matches, and a file `.\` becomes the
  root: asked for by that name, the whole volume is exported (`export.go:93`).
  `OfferedExportable` is about plain volumes.
* `export --path . --raw` writes the whole tar as a raw file; `-o` onto a default
  name leaves the entry of the index behind the content of the file.
* `status` does not look at configurations, networks or image names, and lists
  anonymous volumes as added right after the snapshot that left them out.
* The checklist never ticks a missing container of a snapshot with image recipes,
  since it looks at `ImageObject` only (`tui_rollback.go:212`).
* The fallback scope prompts can offer a by-name strategy together with volumes,
  which the command refuses; the question whether to apply comes up even when the
  preview failed. A rollback that stops at the suppressed prompt leaves its
  checkpoint behind. `import --apply` from the menu asks twice.
* `AppConsistent` and `RestoresRunState` leave out containers that another client
  touched during a capture: one it started again is archived hot, and one it
  stopped, after the capture had, is started by the deferred restart.
* A typed `rollback <id>` is confirmed with `--yes` put in front, which moves the id out
  of the position `expandSnapArgs` looks at: it is then resolved as a live
  prefix, not against the list shown.

## 7. Plan

Done in this order: the store and its abstraction, capture, the tee, rollback,
archives, the first proofs about the store, selective export, drift, the session,
the proofs of all safety properties. Next:

1. Abstract specifications for more components, with proved refinements: a capture
   and an import as what `SnapshotRepository!Commit` takes, a rollback as one
   atomic change of the engine where it succeeds undisturbed.
2. Power failure in `ObjectStore`: renames not yet durable against committed
   transactions.
3. `import --apply` together with the import it follows; legacy image records.
