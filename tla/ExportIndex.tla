---------------------------- MODULE ExportIndex ----------------------------
(***************************************************************************)
(* Selective exports (internal/cli/selected_export.go,                     *)
(* internal/artifact/export.go), the browser that offers them              *)
(* (internal/cli/tui_export.go) and their listing (internal/cli/archive.go) *)
(*                                                                         *)
(* Stores that hold one snapshot export its resources into one folder.     *)
(* Each store has a lock of its own and runs one export at a time; nothing *)
(* is locked in the folder.  An export streams the object to a staging     *)
(* file, verifies the object, syncs and renames; then it reads             *)
(* export-index.json, changes it and renames a new one into place.  Any    *)
(* step may fail, a process may die, power may fail (renames then survive  *)
(* in their order, unsynced content does not) and an object may rot.       *)
(*                                                                         *)
(* The tar of a resource is the sequence of its members; the content of an *)
(* artifact, and its checksum, is the sequence of the members it holds.  A *)
(* path is a sequence of components, <<>> being "." and the "./" member.   *)
(* An output that is the object itself is refused and so never requested.  *)
(***************************************************************************)
EXTENDS Naturals, Sequences, FiniteSets, SequencesExt

CONSTANTS Src,          \* stores
          Resource,     \* volumes and images of the snapshot
          Images,       \* those that are images
          Part,         \* path components
          Split,        \* [Part -> Seq(Part)]: the component, its "\" read as "/"
          Drives,       \* components that make a path absolute: "x:...", "\..."
          Safe,         \* [Part -> Part]: safeExportComponent
          Tars,         \* what may have been captured: [Resource -> Seq(Member)]
          Requests,     \* the exports users ask for
          MaxExports,   \* bound: exports begun
          MaxMishaps,   \* bound: failures, deaths, power failures, rot
          NoPath, NoFile, Failed, Torn

Types  == {"reg", "dir", "link"}
Member == [name : Seq(Part), type : Types]
Dirs   == {"images", "volumes", "selections", "raw"}
File   == [dir : Dirs, parts : Seq(Part), sum : Seq(Part)]
Request == [res : Resource, path : Seq(Part) \cup {NoPath}, raw : BOOLEAN,
            out : File \cup {NoFile}, yes : BOOLEAN]
Stages == {"idle", "open", "streamed", "synced", "published", "read", "written"}

(* The names of resources are components of default paths. *)
ASSUME ExportAssumption ==
  /\ Images \subseteq Resource /\ Drives \subseteq Part
  /\ Resource \subseteq Part /\ "." \in Part
  /\ Split \in [Part -> Seq(Part)] /\ Safe \in [Part -> Part]
  /\ Tars \subseteq [Resource -> Seq(Member)] /\ Requests \subseteq Request
  /\ MaxExports \in Nat /\ MaxMishaps \in Nat
  /\ \A r \in Requests : /\ r.raw => r.path # NoPath
                         /\ r.res \in Images => r.path = NoPath
ASSUME SentinelAssumption ==
  /\ NoPath \notin Seq(Part) /\ NoFile \notin File /\ NoPath \notin Requests
  /\ Failed \notin Seq(Member) /\ Torn \notin Seq(Member) /\ Torn # Failed

VARIABLES
  tar,        \* [Resource -> its captured members]
  object,     \* [Src -> [Resource -> "good" or "rotted"]]
  disk,       \* the artifacts in the folder, by file: their content, whether synced,
              \* whether the export had no -o
  index,      \* export-index.json: the entries in their order, whether synced, whole
  stage,      \* [Src -> where its export is]
  req,        \* [Src -> what it exports]
  temp,       \* [Src -> the staging file]
  copy,       \* [Src -> the entries it read]
  disturbed,  \* history: a window between the two renames was not one export's own,
              \* or the index was no index to begin with
  exports,    \* how many exports began
  mishaps     \* how often something went wrong

source  == <<tar, object>>
folder  == <<disk, index>>
process == <<stage, req, temp, copy>>
history == <<disturbed, exports, mishaps>>
vars    == <<source, folder, process, history>>

Bare == [data |-> <<>>, synced |-> FALSE]
NoIndex == [entries |-> <<>>, synced |-> TRUE, whole |-> TRUE]
Garbage == [entries |-> <<>>, synced |-> TRUE, whole |-> FALSE]

Artifact == [data : Seq(Member) \cup {Torn}, synced : BOOLEAN, named : BOOLEAN]
Listed   == [file : File, res : Resource, sum : Seq(Member)]

TypeOK ==
  /\ tar \in Tars /\ object \in [Src -> [Resource -> {"good", "rotted"}]]
  /\ DOMAIN disk \subseteq File /\ disk \in [DOMAIN disk -> Artifact]
  /\ index \in [entries : Seq(Listed), synced : BOOLEAN, whole : BOOLEAN]
  /\ stage \in [Src -> Stages] /\ req \in [Src -> Requests \cup {NoPath}]
  /\ temp \in [Src -> [data : Seq(Member), synced : BOOLEAN]]
  /\ copy \in [Src -> Seq(Listed)]
  /\ disturbed \in BOOLEAN /\ exports \in 0..MaxExports /\ mishaps \in 0..MaxMishaps

Init ==
  /\ tar \in Tars
  /\ object = [p \in Src |-> [r \in Resource |-> "good"]]
  /\ disk = [f \in {} |-> Bare] /\ index \in {NoIndex, Garbage}
  /\ stage = [p \in Src |-> "idle"] /\ req = [p \in Src |-> NoPath]
  /\ temp = [p \in Src |-> Bare] /\ copy = [p \in Src |-> <<>>]
  /\ disturbed = ~ index.whole /\ exports = 0 /\ mishaps = 0
------------------------------------------------------------------------------
(* Paths *)

(* A path in a request or a tar header that no export accepts. *)
Rejected(path) ==
  path # <<>> /\ (path[1] \in Drives \/ \E i \in DOMAIN path : ".." \in ToSet(Split[path[i]]))

NormalizePath(path) == FlattenSeq([i \in DOMAIN path |-> Split[path[i]]])

MatchesPath(name, selected) == name # <<>> /\ IsPrefix(selected, name)

SafePath(path) == [i \in DOMAIN path |-> Safe[path[i]]]

(* Where an export without -o goes.  Only a raw file's name has a hash. *)
DefaultFile(r) ==
  LET path == NormalizePath(r.path)
      below(dir, sum) == [dir |-> dir, sum |-> sum,
                          parts |-> <<Safe[r.res]>> \o SafePath(IF path = <<>> THEN <<".">> ELSE path)]
  IN IF r.res \in Images THEN [dir |-> "images", parts |-> <<Safe[r.res]>>, sum |-> <<r.res>>]
     ELSE IF r.path = NoPath THEN [dir |-> "volumes", parts |-> <<Safe[r.res]>>, sum |-> <<>>]
     ELSE IF r.raw THEN below("raw", path)
     ELSE below("selections", <<>>)

Indexed(r) == r.out = NoFile
Out(r)     == IF Indexed(r) THEN DefaultFile(r) ELSE r.out
------------------------------------------------------------------------------
(* What an export makes of a tar *)

Renamed(members) == [i \in DOMAIN members |->
                      [members[i] EXCEPT !.name = NormalizePath(@)]]

Twice(members) == \E i, j \in DOMAIN members : i # j /\ members[i].name = members[j].name

(* The members at or below a path, in the order of the tar. *)
Picked(members, selected) ==
  LET named == Renamed(members)
      upTo[n \in 0..Len(named)] ==
        IF n = 0 THEN <<>>
        ELSE IF MatchesPath(named[n].name, selected) THEN Append(upTo[n - 1], named[n])
        ELSE upTo[n - 1]
  IN upTo[Len(named)]

ExportTarSelection(members, selected) ==
  LET picked == Picked(members, selected)
  IN IF (\E i \in DOMAIN members : Rejected(members[i].name)) \/ picked = <<>> \/ Twice(picked)
     THEN Failed ELSE picked

ExportRawFile(members, selected) ==
  LET picked == Picked(members, selected)
  IN IF (\E i \in DOMAIN members : Rejected(members[i].name)) \/ Len(picked) # 1
        \/ picked[1].name # selected \/ picked[1].type # "reg"
     THEN Failed ELSE picked

(* The members of the artifact, or Failed.  A path that comes to the root of the
   volume asks for all of it, also with --raw.                                *)
Export(r, members) ==
  IF r.path = NoPath THEN members
  ELSE IF Rejected(r.path) THEN Failed
  ELSE IF NormalizePath(r.path) = <<>> THEN members
  ELSE IF r.raw THEN ExportRawFile(members, NormalizePath(r.path))
  ELSE ExportTarSelection(members, NormalizePath(r.path))

(* A rotted object still decodes, to something else. *)
Stored(p, v) == IF object[p][v] = "good" THEN tar[v]
                ELSE SubSeq(tar[v], 1, Len(tar[v]) - 1)
------------------------------------------------------------------------------
(* One export *)

At(p, s)   == stage[p] = s
To(p, s)   == stage' = [stage EXCEPT ![p] = s]
Idle(p)    == /\ To(p, "idle") /\ req' = [req EXCEPT ![p] = NoPath]
              /\ temp' = [temp EXCEPT ![p] = Bare] /\ copy' = [copy EXCEPT ![p] = <<>>]

(* An existing output is overwritten only with --yes; it is looked for now. *)
Begin(p, r) ==
  /\ At(p, "idle") /\ exports < MaxExports /\ exports' = exports + 1
  /\ Indexed(r) /\ r.path # NoPath => ~ Rejected(r.path)
  /\ Out(r) \in DOMAIN disk => r.yes
  /\ To(p, "open") /\ req' = [req EXCEPT ![p] = r]
  /\ UNCHANGED <<source, folder, temp, copy, disturbed, mishaps>>

(* Faulty: the object's checksum is not compared. *)
StreamUnverified(p) ==
  LET data == Export(req[p], Stored(p, req[p].res)) IN
  /\ At(p, "open") /\ data # Failed
  /\ temp' = [temp EXCEPT ![p].data = data] /\ To(p, "streamed")
  /\ UNCHANGED <<source, folder, req, copy, history>>

(* The whole object is read, also behind what was selected, and verified. *)
Stream(p) ==
  LET data == Export(req[p], Stored(p, req[p].res)) IN
  /\ At(p, "open") /\ data # Failed /\ object[p][req[p].res] = "good"
  /\ temp' = [temp EXCEPT ![p].data = data] /\ To(p, "streamed")
  /\ UNCHANGED <<source, folder, req, copy, history>>

StreamFails(p) ==
  /\ At(p, "open")
  /\ \/ Export(req[p], Stored(p, req[p].res)) = Failed
     \/ object[p][req[p].res] # "good"
  /\ Idle(p)
  /\ UNCHANGED <<source, folder, history>>

Sync(p) ==
  /\ At(p, "streamed") /\ To(p, "synced")
  /\ temp' = [temp EXCEPT ![p].synced = TRUE]
  /\ UNCHANGED <<source, folder, req, copy, history>>

(* Between the renames of the artifact and of the index. *)
InWindow(p) == stage[p] \in {"published", "read", "written"}

Put(p) ==
  LET f == Out(req[p]) IN
  /\ disk' = [g \in DOMAIN disk \cup {f} |->
               IF g = f THEN [data |-> temp[p].data, synced |-> temp[p].synced,
                              named |-> Indexed(req[p])]
               ELSE disk[g]]
  /\ disturbed' = \/ disturbed
                  \/ \E q \in Src : InWindow(q)
                  \/ ~ Indexed(req[p]) /\ \E i \in DOMAIN index.entries : index.entries[i].file = f
  /\ IF Indexed(req[p])
     THEN /\ To(p, "published") /\ temp' = [temp EXCEPT ![p] = Bare]
          /\ UNCHANGED <<req, copy>>
     ELSE Idle(p)
  /\ UNCHANGED <<source, index, exports, mishaps>>

(* Faulty: renamed without a sync. *)
PublishUnsynced(p) == At(p, "streamed") /\ Put(p)

Publish(p) == At(p, "synced") /\ Put(p)

(* An index that does not parse is an error; one that is absent is empty. *)
ReadIndex(p) ==
  /\ At(p, "published") /\ index.whole
  /\ copy' = [copy EXCEPT ![p] = index.entries] /\ To(p, "read")
  /\ UNCHANGED <<source, folder, req, temp, history>>

(* Faulty: an entry is looked for by what was exported, not by its file. *)
WithEntryByResource(entries, e) ==
  LET same == {i \in DOMAIN entries : entries[i].res = e.res /\ entries[i].file.dir = e.file.dir} IN
  IF same = {} THEN Append(entries, e)
  ELSE [entries EXCEPT ![CHOOSE i \in same : \A j \in same : i <= j] = e]

(* The first entry for the file is replaced, or one is appended. *)
WithEntry(entries, e) ==
  LET same == {i \in DOMAIN entries : entries[i].file = e.file} IN
  IF same = {} THEN Append(entries, e)
  ELSE [entries EXCEPT ![CHOOSE i \in same : \A j \in same : i <= j] = e]

(* Faulty: the name is the option's, not the path chosen for it. *)
EntryOfOption(p) == [file |-> req[p].out, res |-> req[p].res,
                     sum |-> Export(req[p], tar[req[p].res])]

(* The checksum is of what this export wrote, whatever the file holds now. *)
Entry(p) == [file |-> DefaultFile(req[p]), res |-> req[p].res,
             sum |-> Export(req[p], tar[req[p].res])]

WriteIndex(p) ==
  /\ At(p, "read") /\ To(p, "written")
  /\ copy' = [copy EXCEPT ![p] = WithEntry(@, Entry(p))]
  /\ UNCHANGED <<source, folder, req, temp, history>>

RenameIndex(p) ==
  /\ At(p, "written") /\ Idle(p)
  /\ index' = [entries |-> copy[p], synced |-> TRUE, whole |-> TRUE]
  /\ UNCHANGED <<source, disk, history>>

(* A call fails or the process dies: nothing under a real name changes. *)
Stop(p) ==
  /\ ~ At(p, "idle") /\ Idle(p)
  /\ mishaps < MaxMishaps /\ mishaps' = mishaps + 1
  /\ disturbed' = (disturbed \/ InWindow(p))
  /\ UNCHANGED <<source, folder, exports>>

(* "artifact exported, but export index update failed" *)
IndexUnreadable(p) ==
  /\ At(p, "published") /\ ~ index.whole /\ Idle(p)
  /\ UNCHANGED <<source, folder, history>>

Rot(p, v) ==
  /\ mishaps < MaxMishaps /\ mishaps' = mishaps + 1
  /\ tar[v] # <<>> /\ object[p][v] = "good"
  /\ object' = [object EXCEPT ![p][v] = "rotted"]
  /\ UNCHANGED <<tar, folder, process, disturbed, exports>>

PowerLoss ==
  /\ mishaps < MaxMishaps /\ mishaps' = mishaps + 1
  /\ disk' = [f \in DOMAIN disk |->
               IF disk[f].synced THEN disk[f] ELSE [disk[f] EXCEPT !.data = Torn, !.synced = TRUE]]
  /\ index' = IF index.synced THEN index ELSE Garbage
  /\ stage' = [p \in Src |-> "idle"] /\ req' = [p \in Src |-> NoPath]
  /\ temp' = [p \in Src |-> Bare] /\ copy' = [p \in Src |-> <<>>]
  /\ disturbed' = (disturbed \/ \E p \in Src : InWindow(p))
  /\ UNCHANGED <<source, exports>>

Step(p) ==
  \/ \E r \in Requests : Begin(p, r)
  \/ Stream(p) \/ StreamFails(p) \/ Sync(p) \/ Publish(p)
  \/ ReadIndex(p) \/ WriteIndex(p) \/ RenameIndex(p) \/ IndexUnreadable(p)

Mishap ==
  \/ \E p \in Src : Stop(p) \/ \E v \in Resource : Rot(p, v)
  \/ PowerLoss

Next == (\E p \in Src : Step(p)) \/ Mishap

Spec == Init /\ [][Next]_vars
------------------------------------------------------------------------------
(* The browser of the full-screen interface *)

(* The file index of a volume: directories are not in it. *)
FileIndex(members) ==
  {m \in ToSet(members) : m.type # "dir" /\ m.name # <<>>}

Inside(idx, prefix) == {m \in idx : IsStrictPrefix(prefix, m.name)}

(* The folders it can walk into. *)
Levels(idx) == UNION {{SubSeq(m.name, 1, k) : k \in 0..(Len(m.name) - 1)} : m \in idx}

(* Faulty: in raw mode everything that is not a folder is offered. *)
VolumePathItemsAll(idx, prefix, raw) ==
  LET below == Inside(idx, prefix)
      here  == {m \in below : Len(m.name) = Len(prefix) + 1}
      dirs  == {SubSeq(m.name, 1, Len(prefix) + 1) : m \in below \ here}
  IN ({m.name : m \in here} \ dirs) \cup (IF raw THEN {} ELSE {prefix} \ {<<>>})

(* The paths that can be selected at one level. *)
VolumePathItems(idx, prefix, raw) ==
  LET below == Inside(idx, prefix)
      here  == {m \in below : Len(m.name) = Len(prefix) + 1}
      dirs  == {SubSeq(m.name, 1, Len(prefix) + 1) : m \in below \ here}
  IN ({m.name : m \in {x \in here : raw => x.type = "reg"}} \ dirs)
     \cup (IF raw THEN {} ELSE {prefix} \ {<<>>})
------------------------------------------------------------------------------
(* Listing *)

(* The indexed artifacts `archive list` shows as unreadable. *)
Unreadable == {e \in ToSet(index.entries) : e.file \notin DOMAIN disk}
------------------------------------------------------------------------------
(* The inductive invariants (ExportIndexProofs) *)

Tells(p) == Export(req[p], tar[req[p].res])

(* What a running export has in hand: verified content, whole, and once it has a
   name, its file. *)
Hand(p) ==
  /\ stage[p] # "idle" => req[p] \in Requests
  /\ stage[p] \in {"streamed", "synced"} => temp[p].data = Tells(p) /\ Tells(p) # Failed
  /\ stage[p] = "synced" => temp[p].synced
  /\ InWindow(p) => /\ Indexed(req[p]) /\ Tells(p) # Failed /\ temp[p] = Bare
                    /\ Out(req[p]) \in DOMAIN disk

HandInv == \A p \in Src : Hand(p)

(* Every file with a name is synced, and what some request for that name tells. *)
DiskInv == \A f \in DOMAIN disk :
  /\ disk[f].synced
  /\ \E r \in Requests : /\ Out(r) = f /\ disk[f].data = Export(r, tar[r.res])
                         /\ disk[f].data # Failed

(* Every entry, also of an index not yet renamed, has its file. *)
EntryInv ==
  /\ index.synced
  /\ \A e \in ToSet(index.entries) : e.file \in DOMAIN disk
  /\ \A p \in Src : \A e \in ToSet(copy[p]) : e.file \in DOMAIN disk

(* While no window was disturbed: one export at a time is between its renames, on
   the entries that are in the index, and its file alone may lack its entry. *)
OnePerFile(entries) ==
  \A i, j \in DOMAIN entries : entries[i].file = entries[j].file => i = j

Open(f) == \E p \in Src : InWindow(p) /\ Out(req[p]) = f

WindowInv == ~ disturbed =>
  /\ index.whole
  /\ \A p, q \in Src : InWindow(p) /\ InWindow(q) => p = q
  /\ \A p \in Src : InWindow(p) => /\ disk[Out(req[p])].data = Tells(p)
                                   /\ disk[Out(req[p])].named
  /\ \A p \in Src : stage[p] = "read" => copy[p] = index.entries
  /\ \A p \in Src : stage[p] = "written" => copy[p] = WithEntry(index.entries, Entry(p))
  /\ OnePerFile(index.entries)
  /\ \A f \in DOMAIN disk : disk[f].named /\ ~ Open(f) =>
       \E i \in DOMAIN index.entries : index.entries[i].file = f
  /\ \A i \in DOMAIN index.entries : ~ Open(index.entries[i].file) =>
       index.entries[i].sum = disk[index.entries[i].file].data

IInv == TypeOK /\ HandInv /\ DiskInv /\ EntryInv /\ WindowInv
------------------------------------------------------------------------------
(* Properties *)

(* What a request asks for, said without the code's loops: every captured
   member at or below the path, once, and nothing else; raw, one regular file. *)
IsSelection(data, r) ==
  LET path == NormalizePath(r.path)
      asked == {m \in ToSet(Renamed(tar[r.res])) : m.name # <<>> /\ IsPrefix(path, m.name)}
  IN IF r.path = NoPath \/ path = <<>> THEN data = tar[r.res]
     ELSE /\ data # Torn /\ data # <<>>
          /\ ToSet(data) = asked /\ ~ Twice(data)
          /\ r.raw => Len(data) = 1 /\ data[1].name = path /\ data[1].type = "reg"

(* Whatever fails, rots or races, a file that bears the name of an artifact is
   exactly what one of the requests for that name selects from the captured
   volume: Exporter.Export streams to a staging file before it has verified the
   object, and two requests may share a name (exportSelected). *)
ArtifactExact ==
  \A f \in DOMAIN disk : \E r \in Requests : Out(r) = f /\ IsSelection(disk[f].data, r)

(* Two stores' exports, failures and power failures never leave an entry in
   export-index.json whose file is not there (updateExportIndex runs after the
   rename; scanPartialExports). *)
ListedReadable == Unreadable = {} /\ \A e \in ToSet(index.entries) : disk[e.file].data # Torn

(* "recorded in export-index.json" (export.go): while every window between the two
   renames was one export's own and ended, every artifact at a default name has
   exactly one entry, with the checksum of what the file holds, although names
   collide and files are overwritten. *)
IndexComplete ==
  ~ disturbed /\ (\A p \in Src : ~ InWindow(p)) =>
    /\ index.whole
    /\ \A f \in DOMAIN disk :
         disk[f].named =>
           Cardinality({i \in DOMAIN index.entries : index.entries[i].file = f}) = 1
    /\ \A e \in ToSet(index.entries) : e.sum = disk[e.file].data

(* No two members get one name, none gets one below a file ("a" and "a\b" on
   Linux) or the root's (".\"), and none is refused. *)
Plain(members) ==
  LET named == Renamed(members) IN
  /\ ~ Twice(named)
  /\ \A m, n \in ToSet(named) : IsStrictPrefix(m.name, n.name) => m.type = "dir"
  /\ \A i \in DOMAIN members : /\ ~ Rejected(members[i].name)
                               /\ named[i].name = <<>> => members[i].name = <<>>

(* Whatever volumePathItems offers in a plain volume Exporter.Export delivers:
   the two read different records of one capture, the index and the tar, and
   treat names differently.  (What was captured never changes, so this is said
   before the first export.) *)
OfferedExportable ==
  \A v \in Resource \ Images, raw \in BOOLEAN :
    exports = 0 /\ mishaps = 0 /\ Plain(tar[v]) =>
      \A prefix \in Levels(FileIndex(tar[v])) :
        \A path \in VolumePathItems(FileIndex(tar[v]), prefix, raw) :
          LET r == [res |-> v, path |-> path, raw |-> raw, out |-> NoFile, yes |-> FALSE]
          IN Export(r, tar[v]) # Failed /\ IsSelection(Export(r, tar[v]), r)
==============================================================================
