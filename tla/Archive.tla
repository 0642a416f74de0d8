------------------------------- MODULE Archive -------------------------------
(***************************************************************************)
(* A .dvca archive from export to import (internal/portable,               *)
(* internal/cli/{export,import}.go).                                       *)
(*                                                                         *)
(* Several stores export to one path, each to a staging file beside it     *)
(* that is synced and renamed.  An import reads the path twice: first to   *)
(* index it, then to adopt the objects into the local store; between the   *)
(* two the path may have come to hold any other archive.  Power may fail   *)
(* at any time, and whoever carries an archive to another machine may cut  *)
(* it or change its bytes.                                                 *)
(*                                                                         *)
(* An archive is the sequence of its tar entries.  Object entries are      *)
(* named by their hash, 1..MaxHash in sorted order, between Manifest and   *)
(* Checksums.  The content of an entry is "good" (what the name, or the    *)
(* checksum of the manifest, says), "reformatted" (a manifest that decodes *)
(* to the same value from other bytes), "bad", or "cut" (the file ends in  *)
(* it).  A file in an object store is good, "rotted" in place, "short" or  *)
(* absent.  The question asked before an existing archive is overwritten   *)
(* is left out: --yes answers it.                                          *)
(***************************************************************************)
EXTENDS Naturals, Sequences, FiniteSets, SequencesExt

CONSTANTS Src,        \* exporting stores
          Man,        \* manifests
          MaxHash,    \* the object hashes are 1..MaxHash
          Refs,       \* [Man -> Seq(Hash)]: the objects a manifest names, in its order
          IdOf,       \* the snapshot id of a manifest
          Holds,      \* [Src -> SUBSET Man]
          Foreign,    \* archives not written by this program's export, or another
                      \* path's: what may come to lie under the path at any time
          Locals,     \* what the importing store may hold at first
          MaxHarm,    \* bound: acts of the environment
          NoMan

Hash == 1..MaxHash
Manifest  == 0
Checksums == MaxHash + 1
Contents  == {"good", "reformatted", "bad", "cut"}
Entry     == [name : 0..Checksums, man : Man, lines : SUBSET Hash, content : Contents]
States    == {"good", "rotted", "short", "absent"}

ASSUME ArchiveAssumption ==
  /\ MaxHash \in Nat \ {0} /\ MaxHarm \in Nat /\ NoMan \notin Man
  /\ Refs \in [Man -> Seq(Hash)] /\ DOMAIN IdOf = Man
  /\ Holds \in [Src -> SUBSET Man]
  /\ Foreign \subseteq Seq(Entry)
  /\ Locals \subseteq [Hash -> States]

VARIABLES
  file,       \* the archive under the real name: its entries, how many of them
              \* would survive a power failure, and (history) its origin
  src,        \* [Src -> [Hash -> States]]: the exporting stores' objects
  exporting,  \* [Src -> manifest being exported]
  stat,       \* the object sizes Export read first, by hash
  left,       \* the objects still to write
  staged,     \* the staging file
  synced,     \* how many of its entries are on the disk
  sound,      \* history: every object was good since the export began
  dst,        \* the importing store's objects
  rows,       \* the hashes with a row in its table objects
  catalog,    \* its snapshots
  pass,       \* where the import is
  need,       \* the manifest it indexed
  reader,     \* what the second pass still has to read
  done,       \* how many object entries it has verified
  harmed,     \* history: local objects the environment damaged
  harms       \* how often the environment acted

export  == <<exporting, stat, left, staged, synced, sound>>
store   == <<dst, rows, catalog>>
import  == <<pass, need, reader, done>>
history == <<harmed, harms>>
vars    == <<file, src, export, store, import, history>>

Objects(m) == ToSet(Refs[m])

TypeOK ==
  /\ file \in [entries : Seq(Entry), durable : Nat, origin : {"foreign", "unsound", "sound"}]
  /\ file.durable <= Len(file.entries)
  /\ src \in [Src -> [Hash -> States]]
  /\ exporting \in [Src -> Man \cup {NoMan}]
  /\ stat \in [Src -> [Hash -> {"full", "short"}]]
  /\ left \in [Src -> Seq(Hash)] /\ staged \in [Src -> Seq(Entry)]
  /\ synced \in [Src -> Nat] /\ \A p \in Src : synced[p] <= Len(staged[p])
  /\ sound \in [Src -> BOOLEAN]
  /\ dst \in [Hash -> States] /\ rows \subseteq Hash /\ catalog \subseteq Man
  /\ pass \in {"idle", "indexed", "adopt", "register"}
  /\ need \in Man \cup {NoMan} /\ (pass # "idle" => need \in Man)
  /\ reader \in Seq(Entry) /\ done \in Nat
  /\ harmed \subseteq Hash /\ harms \in 0..MaxHarm

Init ==
  /\ \E a \in Foreign : file = [entries |-> a, durable |-> Len(a), origin |-> "foreign"]
  /\ src = [p \in Src |-> [h \in Hash |->
              IF \E m \in Holds[p] : h \in Objects(m) THEN "good" ELSE "absent"]]
  /\ exporting = [p \in Src |-> NoMan] /\ stat = [p \in Src |-> [h \in Hash |-> "full"]]
  /\ left = [p \in Src |-> <<>>]
  /\ staged = [p \in Src |-> <<>>] /\ synced = [p \in Src |-> 0]
  /\ sound = [p \in Src |-> FALSE]
  /\ dst \in Locals /\ rows \in SUBSET {h \in Hash : dst[h] # "absent"} /\ catalog = {}
  /\ pass = "idle" /\ need = NoMan /\ reader = <<>> /\ done = 0
  /\ harmed = {h \in Hash : dst[h] \notin {"good", "absent"}} /\ harms = 0
------------------------------------------------------------------------------
(* Export *)

(* Faulty: two records with the same content give two entries. *)
SortedWithRepeats(m) == SortSeq(Refs[m], LAMBDA x, y : x < y)

SortedObjectHashes(m) ==
  CHOOSE s \in [1..Cardinality(Objects(m)) -> Objects(m)] :
    \A i, j \in DOMAIN s : i < j => s[i] < s[j]

Size(s) == IF s = "short" THEN "short" ELSE "full"

(* Faulty: the next export takes its staging file for synced. *)
DropKeepingSync(p) ==
  /\ exporting' = [exporting EXCEPT ![p] = NoMan]
  /\ left' = [left EXCEPT ![p] = <<>>]
  /\ staged' = [staged EXCEPT ![p] = <<>>]
  /\ stat' = [stat EXCEPT ![p] = [h \in Hash |-> "full"]]
  /\ sound' = [sound EXCEPT ![p] = FALSE]
  /\ UNCHANGED synced

(* The staging file is gone, or nobody will ever read it. *)
Drop(p) ==
  /\ exporting' = [exporting EXCEPT ![p] = NoMan]
  /\ left' = [left EXCEPT ![p] = <<>>]
  /\ staged' = [staged EXCEPT ![p] = <<>>] /\ synced' = [synced EXCEPT ![p] = 0]
  /\ stat' = [stat EXCEPT ![p] = [h \in Hash |-> "full"]]
  /\ sound' = [sound EXCEPT ![p] = FALSE]

Write(p, e) == staged' = [staged EXCEPT ![p] = Append(@, e)]

(* A snapshot with a missing object is refused; a corrupted one is not. *)
BeginExport(p, m) ==
  /\ exporting[p] = NoMan /\ m \in Holds[p]
  /\ \A h \in Objects(m) : src[p][h] # "absent"
  /\ exporting' = [exporting EXCEPT ![p] = m]
  /\ stat' = [stat EXCEPT ![p] = [h \in Hash |-> Size(src[p][h])]]
  /\ left' = [left EXCEPT ![p] = SortedObjectHashes(m)]
  /\ Write(p, [name |-> Manifest, man |-> m, lines |-> {}, content |-> "good"])
  /\ sound' = [sound EXCEPT ![p] = \A h \in Objects(m) : src[p][h] = "good"]
  /\ UNCHANGED <<synced, file, src, store, import, history>>

(* The stored bytes are copied without hashing them again; a file whose size
   changed since the stat is refused (ExportFails).                          *)
WriteObject(p) ==
  /\ left[p] # <<>>
  /\ LET h == Head(left[p]) IN
       /\ src[p][h] # "absent" /\ Size(src[p][h]) = stat[p][h]
       /\ Write(p, [name |-> h, man |-> exporting[p], lines |-> {},
                    content |-> IF src[p][h] = "good" THEN "good" ELSE "bad"])
  /\ left' = [left EXCEPT ![p] = Tail(@)]
  /\ UNCHANGED <<exporting, stat, synced, sound, file, src, store, import, history>>

Sealed(p) == exporting[p] # NoMan /\ Last(staged[p]).name = Checksums

WriteChecksums(p) ==
  /\ exporting[p] # NoMan /\ left[p] = <<>> /\ ~ Sealed(p)
  /\ Write(p, [name |-> Checksums, man |-> exporting[p],
               lines |-> Objects(exporting[p]), content |-> "good"])
  /\ UNCHANGED <<exporting, stat, left, synced, sound, file, src, store, import, history>>

(* Faulty: renamed without tmp.Sync. *)
PublishUnsynced(p) ==
  /\ Sealed(p)
  /\ file' = [entries |-> staged[p], durable |-> synced[p],
              origin |-> IF sound[p] THEN "sound" ELSE "unsound"]
  /\ Drop(p)
  /\ UNCHANGED <<src, store, import, history>>

Sync(p) ==
  /\ Sealed(p) /\ synced[p] < Len(staged[p])
  /\ synced' = [synced EXCEPT ![p] = Len(staged[p])]
  /\ UNCHANGED <<exporting, stat, left, staged, sound, file, src, store, import, history>>

Publish(p) ==
  /\ Sealed(p) /\ synced[p] = Len(staged[p])
  /\ file' = [entries |-> staged[p], durable |-> synced[p],
              origin |-> IF sound[p] THEN "sound" ELSE "unsound"]
  /\ Drop(p)
  /\ UNCHANGED <<src, store, import, history>>

ExportFails(p) ==
  /\ exporting[p] # NoMan /\ Drop(p)
  /\ UNCHANGED <<file, src, store, import, history>>
------------------------------------------------------------------------------
(* Verify and import *)

Names(a) == {a[i].name : i \in DOMAIN a}

(* Pass 1 accepts archive a and decodes manifest m. *)
IndexArchive(a, m) ==
  /\ \A i \in DOMAIN a : a[i].content # "cut"
  /\ IsInjective([i \in DOMAIN a |-> a[i].name])
  /\ \E i, j \in DOMAIN a :
       /\ a[i].name = Manifest /\ a[i].content \in {"good", "reformatted"} /\ a[i].man = m
       /\ a[j].name = Checksums /\ a[j].content \in {"good", "reformatted"} /\ a[j].man = m
       /\ Names(a) \cap Hash \subseteq a[j].lines

(* VerifyArchive hashes the bytes of every entry but the checksums, and wants every
   line used.                                                                 *)
VerifyArchive(a) == \E m \in Man :
  /\ IndexArchive(a, m)
  /\ Objects(m) \subseteq Names(a)
  /\ \A i \in DOMAIN a : /\ a[i].name # Checksums => a[i].content = "good"
                         /\ a[i].lines \subseteq Names(a)

ImportDone == pass' = "idle" /\ need' = NoMan /\ reader' = <<>> /\ done' = 0

(* Pass 1, and the check of Adopt that nothing the manifest names is missing. *)
BeginImport(m) ==
  /\ pass = "idle"
  /\ IndexArchive(file.entries, m) /\ Objects(m) \subseteq Names(file.entries)
  /\ pass' = "indexed" /\ need' = m
  /\ UNCHANGED <<reader, done, file, src, export, store, history>>

(* Pass 2 opens the path again. *)
Reopen ==
  /\ pass = "indexed" /\ pass' = "adopt" /\ reader' = file.entries
  /\ UNCHANGED <<need, done, file, src, export, store, history>>

(* Faulty: placed first, verified afterwards. *)
AdoptUnverified ==
  /\ pass = "adopt" /\ reader # <<>>
  /\ LET e == Head(reader) IN
       IF e.name \in Objects(need)
       THEN /\ dst' = [dst EXCEPT ![e.name] = IF @ # "absent" THEN @ ELSE
                                              IF e.content = "good" THEN "good" ELSE "rotted"]
            /\ rows' = rows \cup {e.name} /\ done' = done + 1
       ELSE UNCHANGED <<dst, rows, done>>
  /\ reader' = Tail(reader)
  /\ UNCHANGED <<catalog, pass, need, file, src, export, history>>

(* The bytes of an entry the manifest names are verified, and stored if no file is
   there; a file that is there is not looked into.                            *)
Place(e) ==
  /\ e.name \in Objects(need) /\ e.content = "good"
  /\ dst' = [dst EXCEPT ![e.name] = IF @ = "absent" THEN "good" ELSE @]

(* The row follows the file.  Entries the manifest does not name are passed over. *)
AdoptEntry ==
  /\ pass = "adopt" /\ reader # <<>>
  /\ LET e == Head(reader) IN
       \/ Place(e) /\ rows' = rows \cup {e.name} /\ done' = done + 1
       \/ /\ e.name \notin Objects(need) /\ e.content # "cut"
          /\ UNCHANGED <<dst, rows, done>>
  /\ reader' = Tail(reader)
  /\ UNCHANGED <<catalog, pass, need, file, src, export, history>>

(* The import ends between the rename and the row: a file without a row stays. *)
AdoptUnrecorded ==
  /\ pass = "adopt" /\ reader # <<>> /\ Place(Head(reader)) /\ ImportDone
  /\ UNCHANGED <<rows, catalog, file, src, export, history>>

(* Entries are counted, not objects: one that comes twice counts twice. *)
EndAdopt ==
  /\ pass = "adopt" /\ reader = <<>> /\ done = Cardinality(Objects(need))
  /\ pass' = "register"
  /\ UNCHANGED <<need, reader, done, file, src, export, store, history>>

Known(id) == \E m \in catalog : IdOf[m] = id

(* Faulty: a connection without the pragma foreign_keys, as SQLite's default is. *)
RegisterUnchecked ==
  /\ pass = "register" /\ ImportDone
  /\ catalog' = IF Known(IdOf[need]) THEN catalog ELSE catalog \cup {need}
  /\ UNCHANGED <<dst, rows, file, src, export, history>>

(* A known id ends the import with ErrAlreadyImported or a refusal.  A new one is
   inserted with its references, whose foreign key wants a row for every object
   (without one the import fails: ImportFails).                               *)
Register ==
  /\ pass = "register" /\ ImportDone
  /\ IF Known(IdOf[need]) THEN UNCHANGED catalog
     ELSE Objects(need) \subseteq rows /\ catalog' = catalog \cup {need}
  /\ UNCHANGED <<dst, rows, file, src, export, history>>

ImportFails ==
  /\ pass # "idle" /\ ImportDone
  /\ UNCHANGED <<file, src, export, store, history>>
------------------------------------------------------------------------------
(* The environment *)

Act == harms < MaxHarm /\ harms' = harms + 1

DamageSource(p, h, s) ==
  /\ Act /\ src[p][h] \notin {s, "absent"}
  /\ src' = [src EXCEPT ![p][h] = s]
  /\ sound' = [sound EXCEPT ![p] = FALSE]
  /\ UNCHANGED <<exporting, stat, left, staged, synced, harmed, file, store, import>>

DamageLocal(h, s) ==
  /\ Act /\ dst[h] \notin {s, "absent"}
  /\ dst' = [dst EXCEPT ![h] = s] /\ harmed' = harmed \cup {h}
  /\ UNCHANGED <<rows, catalog, file, src, export, import>>

Carried(a) ==
  /\ Act /\ a # file.entries
  /\ file' = [entries |-> a, durable |-> Len(a), origin |-> "foreign"]
  /\ UNCHANGED <<harmed, src, export, store, import>>

(* The archive arrives incomplete; a cut between two entries leaves a tar that
   reads as complete.                                                         *)
Truncate(n) ==
  \/ Carried(SubSeq(file.entries, 1, n))
  \/ n > 0 /\ Carried([SubSeq(file.entries, 1, n) EXCEPT ![n].content = "cut"])

Change(i, c) == c \in {"bad", "reformatted"} /\ Carried([file.entries EXCEPT ![i].content = c])

(* What was not synced is lost from some point on, and no command survives. *)
PowerLoss ==
  /\ Act /\ ImportDone
  /\ \E n \in file.durable..Len(file.entries) :
       file' = [file EXCEPT !.entries = SubSeq(@, 1, n)]
  /\ exporting' = [p \in Src |-> NoMan] /\ left' = [p \in Src |-> <<>>]
  /\ staged' = [p \in Src |-> <<>>] /\ synced' = [p \in Src |-> 0]
  /\ stat' = [p \in Src |-> [h \in Hash |-> "full"]]
  /\ sound' = [p \in Src |-> FALSE]
  /\ UNCHANGED <<harmed, src, store>>
------------------------------------------------------------------------------
Export(p) ==
  \/ \E m \in Man : BeginExport(p, m)
  \/ WriteObject(p) \/ WriteChecksums(p) \/ Sync(p) \/ Publish(p) \/ ExportFails(p)

Import ==
  \/ \E m \in Man : BeginImport(m)
  \/ Reopen \/ AdoptEntry \/ AdoptUnrecorded \/ EndAdopt \/ Register \/ ImportFails

Environment ==
  \/ \E h \in Hash, s \in States \ {"good"} :
       DamageLocal(h, s) \/ \E p \in Src : DamageSource(p, h, s)
  \/ \E n \in 0..Len(file.entries) - 1 : Truncate(n)
  \/ \E i \in DOMAIN file.entries, c \in Contents : Change(i, c)
  \/ \E a \in Foreign : Carried(a)
  \/ PowerLoss

Next == (\E p \in Src : Export(p)) \/ Import \/ Environment

Spec == Init /\ [][Next]_vars
------------------------------------------------------------------------------
(* What export publishes under the real name is a whole archive, also after
   concurrent exports to the same path, failures and a power failure: it is
   staged, synced and renamed.                                              *)
PublishedComplete == file.origin # "foreign" =>
  \E m \in Man : /\ [i \in DOMAIN file.entries |-> file.entries[i].name]
                      = <<Manifest>> \o SortedObjectHashes(m) \o <<Checksums>>
                 /\ \A i \in DOMAIN file.entries : file.entries[i].man = m

(* The reader accepts what the writer wrote from an undamaged store: archive
   verify passes, and so does an import.                                     *)
SoundRoundTrip == file.origin = "sound" => VerifyArchive(file.entries)

(* Every object of an imported snapshot is in the local store, whatever the two
   passes found under the path: one archive indexed and another adopted, cut short,
   or with a doubled entry where an object is missing, which the count of the
   second pass takes for whole.  Only damage to a local file explains another. *)
ImportedIntact ==
  \A m \in catalog : \A h \in Objects(m) : dst[h] = "good" \/ h \in harmed

(* An import, also one that fails half-way, adds no object that does not match
   its hash.                                                                  *)
OnlyVerifiedAdopted == \A h \in Hash : dst[h] \in {"good", "absent"} \/ h \in harmed

(* The inductive invariant behind the four (ArchiveProofs). *)

(* The names of a whole archive, in their order. *)
Layout(m) == <<Manifest>> \o SortedObjectHashes(m) \o <<Checksums>>

(* The entries of a are the first of an export of m, ... *)
Begins(a, m) == \A i \in 1..Len(a) : a[i].name = Layout(m)[i] /\ a[i].man = m

(* ... and carry what a reader expects of them. *)
Proper(a, m) == \A i \in 1..Len(a) :
  /\ a[i].content = "good"
  /\ a[i].lines = IF a[i].name = Checksums THEN Objects(m) ELSE {}

(* A staging file is a beginning of the whole archive, and what is left to write is
   the rest; as long as the store is sound, so is what was written.           *)
Staged(p, m) ==
  /\ Len(staged[p]) \in 1..Cardinality(Objects(m)) + 2
  /\ left[p] = SubSeq(SortedObjectHashes(m), Len(staged[p]), Cardinality(Objects(m)))
  /\ Begins(staged[p], m)
  /\ sound[p] => /\ \A h \in Objects(m) : src[p][h] = "good"
                 /\ Proper(staged[p], m)

StagedInv == \A p \in Src :
  IF exporting[p] = NoMan THEN staged[p] = <<>> /\ left[p] = <<>>
                          ELSE Staged(p, exporting[p])

(* What is under the real name is on the disk; what an export put there is a
   whole archive, and a sound one if the store was.                           *)
FileInv ==
  /\ file.durable = Len(file.entries)
  /\ file.origin # "foreign" => \E m \in Man :
       /\ Len(file.entries) = Cardinality(Objects(m)) + 2
       /\ Begins(file.entries, m)
       /\ file.origin = "sound" => Proper(file.entries, m)

(* A row is written after its file; only damage explains one without. *)
RowInv == \A h \in rows : dst[h] # "absent" \/ h \in harmed

IInv == /\ TypeOK /\ StagedInv /\ FileInv /\ RowInv
        /\ ImportedIntact /\ OnlyVerifiedAdopted
==============================================================================
