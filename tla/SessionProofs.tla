----------------------------- MODULE SessionProofs -----------------------------
(***************************************************************************)
(* Proofs about Session for any snapshots, any tokens and what they match, *)
(* any lines users type, and any number of changes by other processes.     *)
(***************************************************************************)
EXTENDS Session, TLAPS

(* The parts of a command. *)
LEMMA CommandParts ==
  ASSUME NEW c \in Command
  PROVE  /\ c.toks \subseteq Token /\ c.scope \subseteq Thing \cup {All}
         /\ c.strategy \in {"restore", "current", "missing"}
         /\ c.yes \in BOOLEAN /\ c.dry \in BOOLEAN /\ c.slot \in BOOLEAN
         /\ c.form \in {"plain", "named", "masked"}
         /\ c.name \in {"none", "read", "snapshot", "doctor", "import"} \cup Destructive
BY DEF Command

(* The commands the flows start from. *)
LEMMA CmdFacts ==
  ASSUME NEW name \in {"none", "read", "snapshot", "doctor", "import"} \cup Destructive,
         NEW toks \in SUBSET Token
  PROVE  /\ Cmd(name, toks) \in Command
         /\ Cmd(name, toks).name = name /\ Cmd(name, toks).toks = toks
         /\ Cmd(name, toks).yes = FALSE /\ Cmd(name, toks).dry = FALSE
         /\ Cmd(name, toks).form = "plain" /\ Cmd(name, toks).slot = TRUE
         /\ Cmd(name, toks).strategy = "restore" /\ Cmd(name, toks).scope = {}
BY DEF Cmd, Command

(* What the flows change in a command keeps the rest of it. *)
LEMMA Changed ==
  ASSUME NEW c \in Command
  PROVE  /\ \A y \in BOOLEAN :
              LET n == [c EXCEPT !.yes = y] IN
              /\ n \in Command /\ n.yes = y /\ n.name = c.name /\ n.toks = c.toks
              /\ n.scope = c.scope /\ n.strategy = c.strategy /\ n.dry = c.dry
              /\ n.form = c.form /\ n.slot = c.slot
         /\ \A T \in SUBSET Token :
              LET n == [c EXCEPT !.toks = T] IN
              /\ n \in Command /\ n.toks = T /\ n.name = c.name /\ n.yes = c.yes
              /\ n.scope = c.scope /\ n.strategy = c.strategy /\ n.dry = c.dry
              /\ n.form = c.form /\ n.slot = c.slot
         /\ \A S \in SUBSET (Thing \cup {All}) :
              LET n == [c EXCEPT !.scope = S] IN
              /\ n \in Command /\ n.scope = S /\ n.name = c.name /\ n.yes = c.yes
              /\ n.toks = c.toks /\ n.strategy = c.strategy /\ n.dry = c.dry
              /\ n.form = c.form /\ n.slot = c.slot
<1>2. ASSUME NEW y \in BOOLEAN
      PROVE  LET n == [c EXCEPT !.yes = y] IN
             /\ n \in Command /\ n.yes = y /\ n.name = c.name /\ n.toks = c.toks
             /\ n.scope = c.scope /\ n.strategy = c.strategy /\ n.dry = c.dry
             /\ n.form = c.form /\ n.slot = c.slot
  BY DEF Command
<1>3. ASSUME NEW T \in SUBSET Token
      PROVE  LET n == [c EXCEPT !.toks = T] IN
             /\ n \in Command /\ n.toks = T /\ n.name = c.name /\ n.yes = c.yes
             /\ n.scope = c.scope /\ n.strategy = c.strategy /\ n.dry = c.dry
             /\ n.form = c.form /\ n.slot = c.slot
  BY DEF Command
<1>4. ASSUME NEW S \in SUBSET (Thing \cup {All})
      PROVE  LET n == [c EXCEPT !.scope = S] IN
             /\ n \in Command /\ n.scope = S /\ n.name = c.name /\ n.yes = c.yes
             /\ n.toks = c.toks /\ n.strategy = c.strategy /\ n.dry = c.dry
             /\ n.form = c.form /\ n.slot = c.slot
  BY DEF Command
<1> QED BY <1>2, <1>3, <1>4

(* The same of its flags. *)
LEMMA Flagged ==
  ASSUME NEW c \in Command
  PROVE  /\ LET n == [c EXCEPT !.dry = TRUE] IN
            /\ n \in Command /\ n.dry = TRUE /\ n.name = c.name /\ n.yes = c.yes
            /\ n.toks = c.toks /\ n.strategy = c.strategy /\ n.scope = c.scope
            /\ n.form = c.form /\ n.slot = c.slot
         /\ \A s \in {"restore", "current", "missing"} :
              LET n == [c EXCEPT !.strategy = s] IN
              /\ n \in Command /\ n.strategy = s /\ n.name = c.name /\ n.yes = c.yes
              /\ n.toks = c.toks /\ n.scope = c.scope /\ n.dry = c.dry
              /\ n.form = c.form /\ n.slot = c.slot
         /\ LET n == [c EXCEPT !.name = "apply"] IN
            /\ n \in Command /\ n.name = "apply" /\ n.yes = c.yes
            /\ n.toks = c.toks /\ n.form = c.form
         /\ LET n == [c EXCEPT !.slot = FALSE] IN
            /\ n \in Command /\ n.slot = FALSE /\ n.name = c.name /\ n.yes = c.yes
            /\ n.toks = c.toks /\ n.strategy = c.strategy /\ n.scope = c.scope
            /\ n.form = c.form /\ n.dry = c.dry
BY DEF Command, Destructive

(* What --yes in front of the arguments does. *)
LEMMA ForcedFacts ==
  ASSUME NEW c \in Command
  PROVE  /\ Forced(c) \in Command /\ Forced(c).yes = TRUE /\ Forced(c).name = c.name
         /\ Forced(c).toks = c.toks /\ Forced(c).form = c.form
<1>1. (c.slot /\ c.name # "rollback") \in BOOLEAN
  OBVIOUS
<1> QED BY <1>1 DEF Forced, Command

(* A line without the program's name in front. *)
LEMMA StrippedFacts ==
  ASSUME NEW c \in Command
  PROVE  /\ Stripped(c) \in Command /\ Stripped(c).yes = c.yes
         /\ Stripped(c).name = c.name /\ Stripped(c).toks = c.toks
         /\ Stripped(c).form = IF c.form = "masked" THEN "masked" ELSE "plain"
         /\ c.form = "plain" => Stripped(c) = c
BY DEF Stripped, Command

(* What a list id expands to are ids of the list. *)
LEMMA ExpandedFacts ==
  ASSUME NEW c \in Command, snaps \subseteq Id
  PROVE  /\ Expanded(c) \in Command /\ Expanded(c).yes = c.yes
         /\ Expanded(c).name = c.name /\ Expanded(c).form = c.form
         /\ ~ Expands(c) => Expanded(c) = c
         /\ Expands(c) => Expanded(c).toks = UNION {Expand(t) : t \in c.toks}
<1>1. \A t \in c.toks : Expand(t) \subseteq Id
  BY SessionAssumption, CommandParts DEF Expand
<1>2. UNION {Expand(t) : t \in c.toks} \in SUBSET Token
  BY <1>1, SessionAssumption
<1>3. CASE Expands(c)
  BY <1>2, <1>3, Changed DEF Expanded
<1>4. CASE ~ Expands(c)
  BY <1>4 DEF Expanded
<1> QED BY <1>3, <1>4

(* What the commands leave of the catalog. *)
Lost == Present \ Present'
Ruins == Lost # {} \/ (litter /\ ~ litter') \/ (pane' # pane /\ pane'.what = "restored")
Keeps == /\ catalog' \in [Id -> {"never", "present", "gone"}]
         /\ broken' \subseteq Present' /\ litter' \in BOOLEAN

(* A snapshot that enters the catalog takes none away. *)
LEMMA EntersFacts ==
  ASSUME TypeOK, NEW s \in Id, Enters(s)
  PROVE  /\ catalog' \in [Id -> {"never", "present", "gone"}]
         /\ Present' = Present \cup {s}
BY DEF TypeOK, Enters, Present

(* Deleting takes away what is deleted, and what it misses with it. *)
LEMMA DropFacts ==
  ASSUME TypeOK, NEW gone \in SUBSET Id, Drop(gone)
  PROVE  /\ catalog' \in [Id -> {"never", "present", "gone"}]
         /\ Present' = Present \ gone /\ broken' \subseteq Present'
<1>1. catalog' \in [Id -> {"never", "present", "gone"}]
  BY DEF TypeOK, Drop
<1>2. Present' = Present \ gone
  BY DEF TypeOK, Drop, Present
<1> QED BY <1>1, <1>2 DEF TypeOK, Drop

(* What a name resolves to is in the catalog. *)
LEMMA ResolveFacts ==
  ASSUME NEW t \in Token
  PROVE  Resolve(t) \subseteq Present /\ Resolve(t) \subseteq Id
BY DEF Resolve, Present

(* What a command may do, by its name and its --yes. *)
Effect(c) ==
  /\ Keeps /\ pane'.cmd = c
  /\ c.yes => pane'.what # "declined"
  /\ (~ c.yes \/ c.name \notin Destructive) =>
       Lost = {} /\ ~ (litter /\ ~ litter') /\ pane'.what # "restored"
  /\ Lost # {} =>
       \/ c.name = "repair" /\ Lost \subseteq broken
       \/ /\ c.name = "delete"
          /\ \A t \in c.toks : \E s \in Id : Resolve(t) = {s}
          /\ \A s \in Lost : \E t \in c.toks : Resolve(t) = {s}

(* A command destroys with --yes alone, and with it never stops to ask; what it takes
   from the catalog is what it names, or what is broken.                         *)
LEMMA RunEffect ==
  ASSUME TypeOK, NEW c \in Command, RunArgs(c)
  PROVE  Effect(c)
<1>0. Present \subseteq Id
  BY DEF Present
<1>1. ASSUME UNCHANGED store PROVE Keeps /\ Lost = {} /\ ~ (litter /\ ~ litter')
  BY <1>1 DEF Keeps, TypeOK, store, Present, Lost
<1>2. CASE Fails(c) \/ Read(c)
  <2>1. UNCHANGED store /\ pane'.cmd = c /\ pane'.what \in {"failed", "done"}
    BY <1>2 DEF Fails, Read, Ends
  <2> QED BY <1>1, <2>1 DEF Effect
<1>3. CASE Snapshot(c)
  <2>1. PICK s \in Id : Enters(s)
    BY <1>3 DEF Snapshot
  <2>2. pane'.cmd = c /\ pane'.what = "done" /\ UNCHANGED <<broken, litter>>
    BY <1>3 DEF Snapshot, Ends
  <2>3. Keeps /\ Lost = {}
    BY <2>1, <2>2, EntersFacts DEF Keeps, Lost, TypeOK
  <2> QED BY <2>2, <2>3 DEF Effect
<1>4. CASE Delete(c)
  <2>1. c.name = "delete" /\ \A t \in c.toks : \E s \in Id : Resolve(t) = {s}
    BY <1>4 DEF Delete
  <2>2. CASE ~ c.yes /\ Ends(c, "declined") /\ UNCHANGED store
    BY <1>1, <2>2 DEF Effect, Ends
  <2>3. CASE ~ (~ c.yes /\ Ends(c, "declined") /\ UNCHANGED store)
    <3>1. c.yes /\ Ends(c, "done")
      BY <1>4, <2>3 DEF Delete
    <3>2. PICK gone \in SUBSET UNION {Resolve(t) : t \in c.toks} :
            Drop(gone) /\ litter' \in IF gone = {} THEN {litter} ELSE {litter, TRUE}
      BY <1>4, <2>3 DEF Delete
    <3>3. gone \subseteq Id /\ \A s \in gone : \E t \in c.toks : Resolve(t) = {s}
      BY <2>1, <3>2
    <3>4. Keeps /\ Lost \subseteq gone
      <4>1. catalog' \in [Id -> {"never", "present", "gone"}]
            /\ Present' = Present \ gone /\ broken' \subseteq Present'
        BY <3>2, <3>3, DropFacts
      <4>2. litter' \in BOOLEAN
        BY <3>2 DEF TypeOK
      <4> QED BY <4>1, <4>2 DEF Keeps, Lost
    <3>5. pane'.cmd = c /\ pane'.what = "done"
      BY <3>1 DEF Ends
    <3> QED BY <2>1, <3>1, <3>3, <3>4, <3>5 DEF Effect, Destructive
  <2> QED BY <2>2, <2>3
<1>5. CASE Prune(c)
  <2>1. UNCHANGED <<catalog, broken>> /\ litter' \in {litter, FALSE} /\ c.name = "prune"
    BY <1>5 DEF Prune
  <2>2. Keeps /\ Lost = {}
    BY <2>1 DEF Keeps, Lost, TypeOK, Present
  <2>3. CASE litter /\ ~ c.yes
    BY <1>5, <2>2, <2>3 DEF Prune, Effect, Ends
  <2>4. CASE ~ (litter /\ ~ c.yes)
    <3>1. pane'.cmd = c /\ pane'.what = "done"
      <4>1. Ends(c, "done")
        BY <1>5, <2>4, Zenon DEF Prune
      <4> QED BY <4>1 DEF Ends
    <3>2. ~ c.yes => ~ litter
      BY <2>4
    <3> QED BY <2>1, <2>2, <3>1, <3>2 DEF Effect, Destructive
  <2> QED BY <2>3, <2>4
<1>6. CASE Doctor(c)
  <2>1. UNCHANGED store /\ pane'.cmd = c /\ pane'.what \in {"problems", "done"}
    BY <1>6 DEF Doctor, Ends
  <2> QED BY <1>1, <2>1 DEF Effect
<1>7. CASE Repair(c)
  <2>1. c.name = "repair"
    BY <1>7 DEF Repair
  <2>2. pane'.cmd = c /\ pane'.what \in {"done", "declined"}
        /\ (c.yes => pane'.what = "done")
    BY <1>7 DEF Repair, Ends
  <2>3. CASE ~ c.yes
    <3>1. UNCHANGED store
      BY <1>7, <2>3 DEF Repair
    <3> QED BY <1>1, <2>2, <2>3, <3>1 DEF Effect
  <2>4. CASE c.yes
    <3>1. PICK gone \in SUBSET broken : Drop(gone)
      BY <1>7, <2>4 DEF Repair
    <3>2. gone \subseteq Id /\ litter' \in {litter, FALSE}
      BY <1>0, <1>7, <2>4 DEF Repair, TypeOK
    <3>3. Keeps /\ Lost \subseteq broken
      <4>1. catalog' \in [Id -> {"never", "present", "gone"}]
            /\ Present' = Present \ gone /\ broken' \subseteq Present'
        BY <3>1, <3>2, DropFacts
      <4>2. litter' \in BOOLEAN
        BY <3>2 DEF TypeOK
      <4> QED BY <3>1, <4>1, <4>2 DEF Keeps, Lost
    <3> QED BY <2>1, <2>2, <2>4, <3>3 DEF Effect, Destructive
  <2> QED BY <2>3, <2>4
<1>8. CASE Rollback(c)
  <2>1. c.name = "rollback" /\ UNCHANGED <<broken, litter>>
    BY <1>8 DEF Rollback
  <2>2. CASE c.dry /\ Ends(c, "plan") /\ UNCHANGED catalog
    BY <1>1, <2>1, <2>2 DEF Effect, Ends, store
  <2>3. CASE Applies(c)
    <3>1. PICK s \in Id : Enters(s)
      BY <2>3 DEF Applies
    <3>2. Keeps /\ Lost = {}
      BY <2>1, <3>1, EntersFacts DEF Keeps, Lost, TypeOK
    <3>3. pane'.cmd = c /\ pane'.what = IF c.yes THEN "restored" ELSE "declined"
      BY <2>3 DEF Applies, Ends
    <3> QED BY <2>1, <3>2, <3>3 DEF Effect, Destructive
  <2> QED BY <1>8, <2>2, <2>3 DEF Rollback
<1>9. CASE Import(c)
  <2>1. PICK s \in Id :
          /\ broken' \in {broken, broken \ {s}}
          /\ UNCHANGED litter
          /\ \/ Enters(s) /\ Ends(c, "imported")
             \/ /\ c.name = "apply"
                /\ \E p \in Id \ {s} :
                     /\ catalog[p] = "never"
                     /\ catalog' = [catalog EXCEPT ![s] = "present", ![p] = "present"]
                /\ Ends(c, IF c.yes THEN "restored" ELSE "declined")
    BY <1>9 DEF Import
  <2>2. CASE Enters(s) /\ Ends(c, "imported")
    <3>1. Keeps /\ Lost = {}
      BY <2>1, <2>2, EntersFacts DEF Keeps, Lost, TypeOK
    <3> QED BY <2>1, <2>2, <3>1 DEF Effect, Ends
  <2>3. CASE c.name = "apply" /\ ~ (Enters(s) /\ Ends(c, "imported"))
    <3>1. PICK p \in Id : catalog' = [catalog EXCEPT ![s] = "present", ![p] = "present"]
      BY <2>1, <2>3
    <3>2. catalog' \in [Id -> {"never", "present", "gone"}] /\ Present \subseteq Present'
      BY <3>1 DEF TypeOK, Present
    <3>3. Keeps /\ Lost = {}
      BY <2>1, <3>2 DEF Keeps, Lost, TypeOK
    <3>4. pane'.cmd = c /\ pane'.what = IF c.yes THEN "restored" ELSE "declined"
      BY <2>1, <2>3 DEF Ends
    <3> QED BY <2>1, <2>3, <3>3, <3>4 DEF Effect, Destructive
  <2> QED BY <2>1, <2>2, <2>3
<1> QED BY <1>2, <1>3, <1>4, <1>5, <1>6, <1>7, <1>8, <1>9 DEF RunArgs

(* The places of the flows that only read. *)
StepNames ==
  {"deepStatus", "statusVolumes", "message", "stopFirst", "show", "diffFrom",
   "diffTo", "export", "what", "outputPath", "volume", "volumeOfPath",
   "topFolder", "folder", "pathInside", "image", "files", "filesOfVolume",
   "prefix", "archive", "whichArchive", "whichArchiveToList", "archivePath",
   "pathToList", "config", "directory", "import", "importPath"}

(* Every row leads from one of them to another, or ends the flow. *)
LEMMA RowFacts ==
  \A r \in Reading : r[1] \in StepNames /\ r[3] \in StepNames \cup {"run", "leave", "applyAfter"}
<1> DEFINE Leads(R) == \A r \in R : /\ r[1] \in StepNames
                                   /\ r[3] \in StepNames \cup {"run", "leave", "applyAfter"}
<1>1. Leads(StatusRows)
  BY DEF StatusRows, StepNames
<1>2. Leads(SnapshotRows)
  BY DEF SnapshotRows, StepNames
<1>3. Leads(ExportRows)
  BY DEF ExportRows, StepNames
<1>4. Leads(FolderRows)
  BY DEF FolderRows, StepNames
<1>5. Leads(ImageRows)
  BY DEF ImageRows, StepNames
<1>6. Leads(FilesRows)
  BY DEF FilesRows, StepNames
<1>7. Leads(ArchiveRows)
  BY DEF ArchiveRows, StepNames
<1>8. Leads(ConfigRows)
  BY DEF ConfigRows, StepNames
<1>9. Leads(ImportRows)
  BY DEF ImportRows, StepNames
<1> HIDE DEF Leads
<1>10. Leads(Reading)
  BY <1>1, <1>2, <1>3, <1>4, <1>5, <1>6, <1>7, <1>8, <1>9 DEF Reading, Leads
<1> QED BY <1>10 DEF Leads

(* Each of them has a row, and none is a place of another flow. *)
LEMMA StepFacts ==
  /\ Steps = StepNames
  /\ Steps \cap ({"none", "delete", "rollback"} \cup Questions \cup Scoping) = {}
<1>1. <<"deepStatus", "no", "run">> \in Reading
  BY DEF Reading, StatusRows
<1>2. <<"statusVolumes", "none", "statusVolumes">> \in Reading
  BY DEF Reading, StatusRows
<1>3. <<"message", "text", "stopFirst">> \in Reading
  BY DEF Reading, SnapshotRows
<1>4. <<"stopFirst", "yes", "run">> \in Reading
  BY DEF Reading, SnapshotRows
<1>5. <<"show", "row", "run">> \in Reading
  BY DEF Reading, SnapshotRows
<1>6. <<"diffFrom", "row", "diffTo">> \in Reading
  BY DEF Reading, SnapshotRows
<1>7. <<"diffTo", "row", "run">> \in Reading
  BY DEF Reading, SnapshotRows
<1>8. <<"export", "row", "what">> \in Reading
  BY DEF Reading, ExportRows
<1>9. <<"what", "snapshot", "outputPath">> \in Reading
  BY DEF Reading, ExportRows
<1>10. <<"outputPath", "text", "run">> \in Reading
  BY DEF Reading, ExportRows
<1>11. <<"volume", "name", "run">> \in Reading
  BY DEF Reading, ExportRows
<1>12. <<"volumeOfPath", "name", "topFolder">> \in Reading
  BY DEF Reading, ExportRows
<1>13. <<"topFolder", "manual", "pathInside">> \in Reading
  BY DEF Reading, FolderRows
<1>14. <<"folder", "manual", "pathInside">> \in Reading
  BY DEF Reading, FolderRows
<1>15. <<"pathInside", "text", "run">> \in Reading
  BY DEF Reading, FolderRows
<1>16. <<"image", "name", "run">> \in Reading
  BY DEF Reading, ImageRows
<1>17. <<"files", "row", "filesOfVolume">> \in Reading
  BY DEF Reading, FilesRows
<1>18. <<"filesOfVolume", "name", "prefix">> \in Reading
  BY DEF Reading, FilesRows
<1>19. <<"prefix", "text", "run">> \in Reading
  BY DEF Reading, FilesRows
<1>20. <<"archive", "list", "run">> \in Reading
  BY DEF Reading, ArchiveRows
<1>21. <<"whichArchive", "name", "archivePath">> \in Reading
  BY DEF Reading, ArchiveRows
<1>22. <<"whichArchiveToList", "name", "pathToList">> \in Reading
  BY DEF Reading, ArchiveRows
<1>23. <<"archivePath", "text", "run">> \in Reading
  BY DEF Reading, ArchiveRows
<1>24. <<"pathToList", "text", "filesOfVolume">> \in Reading
  BY DEF Reading, ArchiveRows
<1>25. <<"config", "show", "run">> \in Reading
  BY DEF Reading, ConfigRows
<1>26. <<"directory", "text", "run">> \in Reading
  BY DEF Reading, ConfigRows
<1>27. <<"import", "name", "importPath">> \in Reading
  BY DEF Reading, ImportRows
<1>28. <<"importPath", "text", "applyAfter">> \in Reading
  BY DEF Reading, ImportRows
<1>29. StepNames \subseteq Steps
  <2>1. \A a, b, c : <<a, b, c>> \in Reading => a \in Steps
    BY DEF Steps
  <2> QED BY <2>1, <1>1, <1>2, <1>3, <1>4, <1>5, <1>6, <1>7, <1>8, <1>9, <1>10,
          <1>11, <1>12, <1>13, <1>14, <1>15, <1>16, <1>17, <1>18, <1>19, <1>20,
          <1>21, <1>22, <1>23, <1>24, <1>25, <1>26, <1>27, <1>28
          DEF StepNames
<1>30. Steps \subseteq StepNames
  BY RowFacts DEF Steps
<1>31. StepNames \cap ({"none", "delete", "rollback"} \cup Questions \cup Scoping) = {}
  BY DEF StepNames, Questions, Scoping, FinalQuestions
<1> QED BY <1>29, <1>30, <1>31

(* No command is one, and not a destructive one. *)
LEMMA NoCmdFacts ==
  /\ NoCmd \in Command /\ NoCmd.form = "plain" /\ NoCmd.yes = FALSE
  /\ NoCmd.name = "none" /\ NoCmd.toks = {}
BY DEF NoCmd, Cmd, Command

(* Nothing is listed at first. *)
LEMMA NoListsFacts == NoLists \in Lists
BY DEF NoLists, Lists

(* No dialog is a shape of its own. *)
LEMMA ShapedNone == Shaped(NoDialog) /\ NoDialog.at = "none"
<1>1. /\ NoDialog.at = "none" /\ NoDialog.cmd = NoCmd /\ NoDialog.on = {}
      /\ NoDialog.def = FALSE /\ NoDialog.lists \in Lists
  BY NoListsFacts DEF NoDialog, Dialog
<1> QED BY <1>1, NoCmdFacts, StepFacts DEF Shaped, Questions, Scoping, FinalQuestions

(* What makes a question one of the flows'. *)
LEMMA ShapedQuestion ==
  ASSUME NEW at \in Questions \ {"anyOfKind"}, NEW c \in Command, c.form = "plain",
         c.yes <=> at = "repair",
         at \in Scoping \cup {"apply"} => c.name = "rollback" /\ ~ c.slot,
         at \in Scoping => c.strategy = "restore"
  PROVE  /\ Shaped(Question(at, c))
         /\ Question(at, c).at = at /\ Question(at, c).cmd = c
         /\ at \notin FinalQuestions =>
              /\ Shaped(DefaultYes(Question(at, c)))
              /\ DefaultYes(Question(at, c)).at = at
<1> DEFINE d == Question(at, c)
<1>1. /\ DOMAIN d = DOMAIN NoDialog
      /\ d.at = at /\ d.kind = "bool" /\ d.items = {} /\ d.on = {} /\ d.def = FALSE
      /\ d.cmd = c /\ d.lists \in Lists
  BY NoListsFacts DEF Question, Dialog, NoDialog
<1>2. /\ at # "none" /\ at \notin Steps /\ at # "delete" /\ at # "rollback" /\ at # "scope"
      /\ at # "names" /\ at # "kindNames" /\ at # "strategy"
  BY StepFacts DEF Questions, FinalQuestions
<1>3. Shaped(d)
  BY <1>1, <1>2 DEF Shaped
<1>4. /\ DOMAIN DefaultYes(d) = DOMAIN NoDialog
      /\ DefaultYes(d).at = at /\ DefaultYes(d).kind = "bool" /\ DefaultYes(d).items = {}
      /\ DefaultYes(d).on = {} /\ DefaultYes(d).cmd = c /\ DefaultYes(d).lists = d.lists
      /\ DefaultYes(d).def = TRUE
  BY <1>1 DEF DefaultYes, Question, Dialog, NoDialog
<1>5. at \notin FinalQuestions => Shaped(DefaultYes(d))
  BY <1>1, <1>2, <1>4 DEF Shaped
<1> QED BY <1>1, <1>3, <1>4, <1>5

(* An outcome that destroys nothing, and what is shown after it. *)
Harmless(o) ==
  /\ o.run \in Command /\ o.run.yes = FALSE
  /\ Shaped(o.ask)
  /\ o.ask.at = "apply" /\ o.ask.cmd.strategy # "restore" =>
       o.run = [o.ask.cmd EXCEPT !.dry = TRUE]

(* The outcomes a flow is built from. *)
LEMMA LeaveFacts == \A o \in Leave : Harmless(o) /\ o.run = NoCmd /\ o.ask = NoDialog
<1>1. \A o \in Leave : o.run = NoCmd /\ o.ask = NoDialog
  BY DEF Leave, Ask, Then
<1> QED BY <1>1, ShapedNone, NoCmdFacts DEF Harmless

(* Showing a dialog of the flow that does not ask whether to apply. *)
LEMMA AskFacts ==
  ASSUME NEW d, Shaped(d), d.at = "apply" => d.cmd.strategy = "restore"
  PROVE  \A o \in Ask(d) : Harmless(o) /\ o.run = NoCmd /\ o.ask = d
<1>1. \A o \in Ask(d) : o.run = NoCmd /\ o.ask = d
  BY DEF Ask, Then
<1> QED BY <1>1, NoCmdFacts DEF Harmless

(* Running a command that does not say --yes. *)
LEMMA DoFacts ==
  ASSUME NEW c \in Command
  PROVE  \A o \in Do(c) : /\ o.run = c /\ o.ask = NoDialog
                          /\ c.yes = FALSE => Harmless(o)
<1>1. \A o \in Do(c) : o.run = c /\ o.ask = NoDialog
  BY DEF Do, Then
<1> QED BY <1>1, ShapedNone DEF Harmless

(* The gate lets a line through that does not say --yes only to ask about it, or if it
   is none it knows.                                                             *)
LEMMA ExecFacts ==
  ASSUME NEW c \in Command
  PROVE  /\ c.yes = FALSE => \A o \in Exec(c) : Harmless(o)
         /\ c.yes = TRUE => Exec(c) = Do(Stripped(c))
         /\ \A o \in Exec(c) : o.run = NoCmd \/ o.run = Stripped(c)
<1> DEFINE n == Stripped(c)
<1>1. /\ n \in Command /\ n.yes = c.yes
      /\ n.form = IF c.form = "masked" THEN "masked" ELSE "plain"
  BY StrippedFacts
<1>2. CASE Gated(n)
  <2>1. n.yes = FALSE /\ n.form = "plain"
    BY <1>1, <1>2, CommandParts DEF Gated
  <2>2. Shaped(Question("run", n)) /\ Question("run", n).at = "run"
    BY <1>1, <2>1, ShapedQuestion DEF Questions, Scoping, FinalQuestions
  <2> HIDE DEF n
  <2>3. \A o \in Ask(Question("run", n)) : Harmless(o) /\ o.run = NoCmd
    BY <2>2, AskFacts
  <2> QED BY <1>1, <1>2, <2>1, <2>3 DEF Exec, n
<1>3. CASE ~ Gated(n)
  <2>1. Exec(c) = Do(n)
    BY <1>3 DEF Exec
  <2> HIDE DEF n
  <2>2. \A o \in Do(n) : o.run = n /\ (n.yes = FALSE => Harmless(o))
    BY <1>1, DoFacts
  <2> QED BY <1>1, <2>1, <2>2 DEF n
<1> QED BY <1>2, <1>3

(* The next dialog of a flow that only reads. *)
LEMMA ShowFacts ==
  ASSUME NEW at \in Steps \cup {"applyAfter"}, NEW c \in Command, c.form = "plain",
         c.yes = FALSE
  PROVE  Shaped(Show(at, c)) /\ Show(at, c).at = at
<1>1. CASE at = "applyAfter"
  BY <1>1, ShapedQuestion DEF Show, Questions, Scoping, FinalQuestions
<1>2. CASE at # "applyAfter"
  <2> DEFINE d == Dialog(at, KindOf(at), Rows(at), c)
  <2>1. /\ DOMAIN d = DOMAIN NoDialog
        /\ d.at = at /\ d.kind = KindOf(at) /\ d.items = Rows(at) /\ d.on = {} /\ d.def = FALSE
        /\ d.cmd = c /\ d.lists \in Lists
    BY NoListsFacts DEF Dialog, NoDialog
  <2>2. at \in Steps /\ at \notin {"none", "delete", "rollback"} \cup Questions \cup Scoping
    BY <1>2, StepFacts
  <2>3. at # "repair" /\ at # "apply" /\ at \notin FinalQuestions
    BY <2>2 DEF Questions, FinalQuestions
  <2>4. Shaped(d)
    BY <2>1, <2>2, <2>3 DEF Shaped, Scoping
  <2> QED BY <1>2, <2>1, <2>4 DEF Show
<1> QED BY <1>1, <1>2

(* A flow that only reads ends in commands that destroy nothing, or in the gate. *)
LEMMA ReadingHarmless ==
  ASSUME NEW d, Shaped(d), d.at \in Steps, NEW ok \in BOOLEAN, NEW val,
         ok /\ d.kind = "pick" => val \in Token
  PROVE  \A o \in AfterReading(d, ok, val) : Harmless(o)
<1> DEFINE picked == ok /\ d.kind = "pick"
           answer == IF ~ok THEN "esc"
                     ELSE IF picked THEN "row"
                     ELSE IF d.kind = "bool" THEN (IF val THEN "yes" ELSE "no")
                     ELSE val
           c      == IF picked THEN [d.cmd EXCEPT !.toks = @ \cup {val}] ELSE d.cmd
           next   == {e[3] : e \in {r \in Reading : r[1] = d.at /\ r[2] = answer}}
           Leads(n) == IF n = "run" THEN Exec(c)
                       ELSE IF n = "leave" THEN Leave ELSE Ask(Show(n, c))
<1>1. d.cmd \in Command /\ d.cmd.form = "plain" /\ d.cmd.yes = FALSE
  <2>1. d.at # "repair"
    BY StepFacts DEF Questions, FinalQuestions
  <2>2. d.cmd \in Command /\ d.cmd.form = "plain" /\ (d.cmd.yes <=> d.at = "repair")
    BY DEF Shaped
  <2> QED BY <2>1, <2>2, CommandParts
<1>2. c \in Command /\ c.form = "plain" /\ c.yes = FALSE
  <2>1. CASE picked
    <3>1. d.cmd.toks \cup {val} \in SUBSET Token
      BY <1>1, <2>1, CommandParts
    <3> QED BY <1>1, <2>1, <3>1, Changed
  <2>2. CASE ~ picked
    BY <1>1, <2>2
  <2> QED BY <2>1, <2>2
<1>3. \A n \in next : n \in Steps \cup {"run", "leave", "applyAfter"}
  BY RowFacts, StepFacts
<1>4. AfterReading(d, ok, val) =
        IF next = {} THEN Leave
        ELSE UNION {CASE n = "run"   -> Exec(c)
                      [] n = "leave" -> Leave
                      [] OTHER       -> Ask(Show(n, c)) : n \in next}
  BY DEF AfterReading
<1> HIDE DEF c, next, answer
<1>5. \A n : (CASE n = "run"   -> Exec(c)
                [] n = "leave" -> Leave
                [] OTHER       -> Ask(Show(n, c))) = Leads(n)
  OBVIOUS
<1>6. ASSUME NEW n \in next PROVE \A o \in Leads(n) : Harmless(o)
  <2>1. CASE n = "run"
    BY <1>2, <2>1, ExecFacts
  <2>2. CASE n = "leave"
    BY <2>2, LeaveFacts
  <2>3. CASE n # "run" /\ n # "leave"
    <3>1. n \in Steps \cup {"applyAfter"} /\ n # "apply"
      BY <1>3, <2>3, StepFacts DEF Questions, FinalQuestions
    <3>2. Shaped(Show(n, c)) /\ Show(n, c).at = n
      BY <1>2, <3>1, ShowFacts
    <3>3. \A o \in Ask(Show(n, c)) : Harmless(o)
      BY <3>1, <3>2, AskFacts
    <3> QED BY <2>3, <3>3
  <2> QED BY <2>1, <2>2, <2>3
<1>7. CASE next = {}
  BY <1>4, <1>7, LeaveFacts
<1>8. CASE next # {}
  <2>1. AfterReading(d, ok, val) = UNION {Leads(n) : n \in next}
    BY <1>4, <1>5, <1>8
  <2> QED BY <1>6, <2>1
<1> QED BY <1>7, <1>8

(* The command of a rollback whose scope is being asked for. *)
Scopes(c) == /\ c \in Command /\ c.form = "plain" /\ c.yes = FALSE
             /\ c.name = "rollback" /\ ~ c.slot /\ c.strategy = "restore"

(* The dialogs that ask for a scope. *)
LEMMA ScopeDialogs ==
  ASSUME NEW c, Scopes(c), NEW L \in Lists
  PROVE  /\ Shaped(ScopeMenu(c, L)) /\ ScopeMenu(c, L).at = "scope"
         /\ \A names \in SUBSET Thing : /\ Shaped(Checklist(c, names, L))
                                        /\ Checklist(c, names, L).at = "names"
         /\ \A kinds \in Seq(KindSet) \ {<<>>} :
              LET d == [Question("anyOfKind", c) EXCEPT !.left = kinds] IN
              Shaped(d) /\ d.at = "anyOfKind"
         /\ \A names \in SUBSET Thing : \A kinds \in Seq(KindSet) \ {<<>>} :
              LET d == [Dialog("kindNames", "names", names, c) EXCEPT !.left = kinds] IN
              Shaped(d) /\ d.at = "kindNames"
<1>1. Steps \cap {"scope", "names", "anyOfKind", "kindNames"} = {}
  BY StepFacts DEF Scoping
<1>2. Shaped(ScopeMenu(c, L)) /\ ScopeMenu(c, L).at = "scope"
  <2> DEFINE d == ScopeMenu(c, L)
  <2>1. /\ DOMAIN d = DOMAIN NoDialog
        /\ d.at = "scope" /\ d.kind = "list" /\ d.items = {All} \cup KindSet /\ d.on = {}
        /\ d.cmd = c /\ d.def = FALSE /\ d.lists = L
    BY DEF ScopeMenu, Dialog, NoDialog
  <2> HIDE DEF d
  <2>2. Shaped(d)
    BY <1>1, <2>1 DEF Shaped, Scopes, Scoping, Questions, FinalQuestions
  <2> QED BY <2>1, <2>2 DEF d
<1>3. ASSUME NEW names \in SUBSET Thing
      PROVE  Shaped(Checklist(c, names, L)) /\ Checklist(c, names, L).at = "names"
  <2> DEFINE d == Checklist(c, names, L)
  <2>1. /\ DOMAIN d = DOMAIN NoDialog
        /\ d.at = "names" /\ d.kind = "check" /\ d.items = names /\ d.on \subseteq names
        /\ d.cmd = c /\ d.def = FALSE /\ d.lists = L
    BY DEF Checklist, Dialog, NoDialog
  <2> HIDE DEF d
  <2>2. Shaped(d)
    BY <1>1, <2>1 DEF Shaped, Scopes, Scoping, Questions, FinalQuestions
  <2> QED BY <2>1, <2>2 DEF d
<1>4. ASSUME NEW kinds \in Seq(KindSet) \ {<<>>}
      PROVE  LET d == [Question("anyOfKind", c) EXCEPT !.left = kinds] IN
             Shaped(d) /\ d.at = "anyOfKind"
  <2> DEFINE d == [Question("anyOfKind", c) EXCEPT !.left = kinds]
  <2>1. /\ DOMAIN d = DOMAIN NoDialog
        /\ d.at = "anyOfKind" /\ d.kind = "bool" /\ d.items = {} /\ d.on = {}
        /\ d.cmd = c /\ d.def = FALSE /\ d.lists = NoLists /\ d.left = kinds
    BY DEF Question, Dialog, NoDialog
  <2> HIDE DEF d
  <2>2. Shaped(d)
    BY <1>1, <2>1, NoListsFacts DEF Shaped, Scopes, Scoping, Questions, FinalQuestions
  <2> QED BY <2>1, <2>2 DEF d
<1>5. ASSUME NEW names \in SUBSET Thing, NEW kinds \in Seq(KindSet) \ {<<>>}
      PROVE  LET d == [Dialog("kindNames", "names", names, c) EXCEPT !.left = kinds] IN
             Shaped(d) /\ d.at = "kindNames"
  <2> DEFINE d == [Dialog("kindNames", "names", names, c) EXCEPT !.left = kinds]
  <2>1. /\ DOMAIN d = DOMAIN NoDialog
        /\ d.at = "kindNames" /\ d.kind = "names" /\ d.items = names /\ d.on = {}
        /\ d.cmd = c /\ d.def = FALSE /\ d.lists = NoLists /\ d.left = kinds
    BY DEF Dialog, NoDialog
  <2> HIDE DEF d
  <2>2. Shaped(d)
    BY <1>1, <2>1, NoListsFacts DEF Shaped, Scopes, Scoping, Questions, FinalQuestions
  <2> QED BY <2>1, <2>2 DEF d
<1> QED BY <1>2, <1>3, <1>4, <1>5

(* The dry run of a rollback shows what the question after it asks about. *)
LEMMA PreviewHarmless ==
  ASSUME NEW c \in Command, c.form = "plain", c.yes = FALSE, c.name = "rollback", ~ c.slot
  PROVE  \A o \in Preview(c) : Harmless(o)
<1>1. \A o \in Preview(c) : o.run = [c EXCEPT !.dry = TRUE] /\ o.ask = Question("apply", c)
  BY DEF Preview, Then
<1>2. [c EXCEPT !.dry = TRUE] \in Command /\ [c EXCEPT !.dry = TRUE].yes = FALSE
  BY Flagged
<1>3. /\ Shaped(Question("apply", c)) /\ Question("apply", c).cmd = c
      /\ Question("apply", c).at = "apply"
  BY ShapedQuestion DEF Questions, Scoping, FinalQuestions
<1> QED BY <1>1, <1>2, <1>3 DEF Harmless

(* From a scope to the preview, or to the strategies if containers are in it. *)
LEMMA WithScopeHarmless ==
  ASSUME NEW c, Scopes(c)
  PROVE  \A o \in WithScope(c) : Harmless(o)
<1>1. CASE c.scope = {}
  BY <1>1, LeaveFacts DEF WithScope
<1>2. CASE c.scope # {} /\ ~ HasContainers(c.scope)
  <2>1. /\ Shaped(DefaultYes(Question("preview", c)))
        /\ DefaultYes(Question("preview", c)).at = "preview"
    BY ShapedQuestion DEF Scopes, Questions, Scoping, FinalQuestions
  <2>2. \A o \in Ask(DefaultYes(Question("preview", c))) : Harmless(o)
    BY <2>1, AskFacts
  <2> QED BY <1>2, <2>2 DEF WithScope, AskPreview
<1>3. CASE c.scope # {} /\ HasContainers(c.scope)
  <2> DEFINE d == Dialog("strategy", "list", {"restore", "current", "missing"}, c)
  <2>1. /\ DOMAIN d = DOMAIN NoDialog
        /\ d.at = "strategy" /\ d.kind = "list" /\ d.on = {} /\ d.cmd = c /\ d.def = FALSE
        /\ d.items = {"restore", "current", "missing"} /\ d.lists \in Lists
    BY NoListsFacts DEF Dialog, NoDialog
  <2>2. "strategy" \notin Steps
    BY StepFacts DEF Scoping
  <2>3. WithScope(c) = Ask(d)
    BY <1>3 DEF WithScope
  <2> HIDE DEF d
  <2>4. Shaped(d)
    BY <2>1, <2>2 DEF Shaped, Scopes, Scoping, Questions, FinalQuestions
  <2> QED BY <2>1, <2>3, <2>4, AskFacts
<1> QED BY <1>1, <1>2, <1>3

(* Asking kind by kind. *)
LEMMA AskKindsHarmless ==
  ASSUME NEW c, Scopes(c), NEW kinds \in Seq(KindSet)
  PROVE  \A o \in AskKinds(c, kinds) : Harmless(o)
<1>1. CASE kinds = <<>>
  BY <1>1, WithScopeHarmless DEF AskKinds
<1>2. CASE kinds # <<>>
  <2> DEFINE d == [Question("anyOfKind", c) EXCEPT !.left = kinds]
  <2>1. Shaped(d) /\ d.at = "anyOfKind"
    BY <1>2, ScopeDialogs, NoListsFacts
  <2>2. AskKinds(c, kinds) = Ask(d)
    BY <1>2 DEF AskKinds
  <2> HIDE DEF d
  <2> QED BY <2>1, <2>2, AskFacts
<1> QED BY <1>1, <1>2

(* A chosen scope makes the command of a scope. *)
LEMMA ScopesChanged ==
  ASSUME NEW c, Scopes(c), NEW S \in SUBSET (Thing \cup {All})
  PROVE  Scopes([c EXCEPT !.scope = S])
<1>1. c \in Command
  BY DEF Scopes
<1> DEFINE n == [c EXCEPT !.scope = S]
<1>2. /\ n \in Command /\ n.name = c.name /\ n.yes = c.yes
      /\ n.strategy = c.strategy /\ n.form = c.form /\ n.slot = c.slot
  BY <1>1, Changed
<1> HIDE DEF n
<1>3. Scopes(n)
  BY <1>2 DEF Scopes
<1> QED BY <1>3 DEF n

(* What a key answers. *)
LEMMA AnswerFacts ==
  ASSUME NEW d, Shaped(d), NEW k, NEW a \in Answers(d, k)
  PROVE  /\ a.ok \in BOOLEAN
         /\ ~ a.ok => k = "esc"
         /\ a.ok => d.kind \in {"bool", "pick", "list", "text", "check", "names"}
         /\ a.ok /\ d.kind = "bool" => /\ a.val \in BOOLEAN
                                       /\ k = "y" => a.val = TRUE
                                       /\ a.val = TRUE => k = "y" \/ d.def = TRUE
         /\ a.ok /\ d.kind = "pick" => a.val \in snaps
         /\ a.ok /\ d.kind \in {"list", "text"} => a.val \in d.items
         /\ a.ok /\ d.kind = "check" => a.val = d.on /\ d.items # {}
         /\ a.ok /\ d.kind = "names" => a.val \subseteq d.items
<1> DEFINE Goes(vals) == {[ok |-> TRUE, val |-> v] : v \in vals}
<1>1. d.def \in BOOLEAN
  BY DEF Shaped
<1>2. CASE k = "esc"
  <2>1. a = [ok |-> FALSE, val |-> FALSE]
    BY <1>2 DEF Answers
  <2> QED BY <1>2, <2>1
<1>3. CASE k = "y" /\ d.kind = "bool"
  <2>1. a \in Goes({TRUE})
    BY <1>3 DEF Answers
  <2>2. a.ok = TRUE /\ a.val = TRUE
    BY <2>1
  <2> QED BY <1>3, <2>2
<1>4. CASE k = "n" /\ d.kind = "bool"
  <2>1. a \in Goes({FALSE})
    BY <1>4 DEF Answers
  <2>2. a.ok = TRUE /\ a.val = FALSE
    BY <2>1
  <2> QED BY <1>4, <2>2
<1>5. CASE k = "enter" /\ d.kind = "bool"
  <2>1. a \in Goes({d.def})
    BY <1>5 DEF Answers
  <2>2. a.ok = TRUE /\ a.val = d.def
    BY <2>1
  <2> QED BY <1>1, <1>5, <2>2
<1>6. CASE k = "enter" /\ d.kind = "pick"
  <2>1. a \in Goes(snaps)
    BY <1>6 DEF Answers
  <2>2. a.ok = TRUE /\ a.val \in snaps
    BY <2>1
  <2> QED BY <1>6, <2>2
<1>7. CASE k = "enter" /\ d.kind \in {"list", "text"}
  <2>1. a \in Goes(d.items)
    BY <1>7 DEF Answers
  <2>2. a.ok = TRUE /\ a.val \in d.items
    BY <2>1
  <2> QED BY <1>7, <2>2
<1>8. CASE k = "enter" /\ d.kind = "check" /\ d.items # {}
  <2>1. a \in Goes({d.on})
    BY <1>8 DEF Answers
  <2>2. a.ok = TRUE /\ a.val = d.on
    BY <2>1
  <2> QED BY <1>8, <2>2
<1>9. CASE k = "enter" /\ d.kind = "names"
  <2>1. a \in Goes(SUBSET d.items)
    BY <1>9 DEF Answers
  <2>2. a.ok = TRUE /\ a.val \subseteq d.items
    BY <2>1
  <2> QED BY <1>9, <2>2
<1> QED BY <1>2, <1>3, <1>4, <1>5, <1>6, <1>7, <1>8, <1>9 DEF Answers

(* The outcome of a "y" to a question that names what is destroyed. *)
Confirmed(d, o) ==
  /\ o.ask = NoDialog
  /\ o.run \in Command /\ o.run.yes = TRUE /\ o.run.form = "plain"
  /\ o.run.name = d.cmd.name /\ o.run.toks = d.cmd.toks

(* The answers to the questions of a scope. *)
LEMMA ScopeHarmless ==
  ASSUME NEW d, Shaped(d), d.at \in {"everything", "anyOfKind"}, NEW val \in BOOLEAN
  PROVE  \A o \in ScopeAnswer(d, val) : Harmless(o)
<1>1. Scopes(d.cmd)
  BY CommandParts DEF Shaped, Scopes, Scoping
<1>2. CASE d.at = "everything" /\ val
  <2>1. Scopes([d.cmd EXCEPT !.scope = {All}])
    BY <1>1, ScopesChanged
  <2> QED BY <1>2, <2>1, WithScopeHarmless DEF ScopeAnswer
<1>3. CASE d.at = "everything" /\ ~ val
  BY <1>1, <1>3, AskKindsHarmless, SessionAssumption DEF ScopeAnswer
<1>4. CASE d.at = "anyOfKind"
  <2>1. d.left \in Seq(KindSet) \ {<<>>} /\ DOMAIN Of = KindSet
    BY <1>4, SessionAssumption DEF Shaped
  <2>2. Head(d.left) \in KindSet /\ Tail(d.left) \in Seq(KindSet)
    BY <2>1
  <2>3. Of[Head(d.left)] \in SUBSET Thing
    BY <2>2 DEF Thing
  <2>4. CASE val
    <3> DEFINE q == [Dialog("kindNames", "names", Of[Head(d.left)], d.cmd)
                       EXCEPT !.left = d.left]
    <3>1. Shaped(q) /\ q.at = "kindNames"
      BY <1>1, <2>1, <2>3, ScopeDialogs, NoListsFacts
    <3>2. ScopeAnswer(d, val) = Ask(q)
      BY <1>4, <2>4 DEF ScopeAnswer
    <3> HIDE DEF q
    <3> QED BY <3>1, <3>2, AskFacts
  <2>5. CASE ~ val
    BY <1>1, <1>4, <2>2, <2>5, AskKindsHarmless DEF ScopeAnswer
  <2> QED BY <2>4, <2>5
<1> QED BY <1>2, <1>3, <1>4

(* The answers to the doctor's questions. *)
LEMMA DoctorOutcomes ==
  ASSUME NEW d, Shaped(d), d.at \in {"deep", "repair"}, NEW val \in BOOLEAN
  PROVE  IF d.at = "repair" /\ val THEN \A o \in DoctorAnswer(d, val) : Confirmed(d, o)
         ELSE \A o \in DoctorAnswer(d, val) : Harmless(o)
<1>1. d.cmd \in Command /\ d.cmd.form = "plain" /\ (d.cmd.yes <=> d.at = "repair")
  BY DEF Shaped
<1>2. CASE d.at = "deep"
  <2> DEFINE c == [Cmd("repair", {}) EXCEPT !.yes = TRUE]
             q == Question("repair", c)
  <2>1. c \in Command /\ c.form = "plain" /\ c.yes = TRUE
    BY DEF Cmd, Command, Destructive
  <2>2. \A o \in DoctorAnswer(d, val) : o.run = d.cmd /\ o.ask = q
    BY <1>2 DEF DoctorAnswer, Then
  <2> HIDE DEF c
  <2>3. Shaped(q) /\ q.at = "repair"
    BY <2>1, ShapedQuestion DEF Questions, Scoping, FinalQuestions
  <2> HIDE DEF q
  <2>4. d.cmd.yes = FALSE
    BY <1>1, <1>2, CommandParts
  <2> QED BY <1>1, <1>2, <2>2, <2>3, <2>4 DEF Harmless
<1>3. CASE d.at = "repair" /\ val
  <2>1. d.cmd.yes = TRUE
    BY <1>1, <1>3, CommandParts
  <2> QED BY <1>1, <1>3, <2>1, DoFacts DEF DoctorAnswer, Confirmed
<1>4. CASE d.at = "repair" /\ ~ val
  BY <1>4, LeaveFacts DEF DoctorAnswer
<1> QED BY <1>2, <1>3, <1>4

(* The answers to a rollback's questions. *)
LEMMA RollbackOutcomes ==
  ASSUME NEW d, Shaped(d), d.at \in {"preview", "apply"}, NEW val \in BOOLEAN
  PROVE  IF d.at = "apply" /\ val THEN \A o \in RollbackAnswer(d, val) : Confirmed(d, o)
         ELSE \A o \in RollbackAnswer(d, val) : Harmless(o)
<1>1. /\ d.cmd \in Command /\ d.cmd.form = "plain" /\ d.cmd.yes = FALSE
      /\ d.cmd.name = "rollback" /\ ~ d.cmd.slot
      /\ d.at = "preview" => d.cmd.strategy = "restore"
  BY CommandParts DEF Shaped, Scoping
<1>2. CASE d.at = "preview" /\ val
  BY <1>1, <1>2, PreviewHarmless DEF RollbackAnswer
<1>3. CASE d.at = "preview" /\ ~ val
  <2>1. /\ Shaped(Question("apply", d.cmd)) /\ Question("apply", d.cmd).cmd = d.cmd
    BY <1>1, ShapedQuestion DEF Questions, Scoping, FinalQuestions
  <2>2. RollbackAnswer(d, val) = Ask(Question("apply", d.cmd))
    BY <1>3 DEF RollbackAnswer
  <2> QED BY <1>1, <1>3, <2>1, <2>2, AskFacts
<1>4. CASE d.at = "apply" /\ val
  BY <1>1, <1>4, ForcedFacts, DoFacts DEF RollbackAnswer, Confirmed
<1>5. CASE d.at = "apply" /\ ~ val
  BY <1>5, LeaveFacts DEF RollbackAnswer
<1> QED BY <1>2, <1>3, <1>4, <1>5

(* The answers to the questions about an import, a deletion, and what the gate holds. *)
LEMMA OtherOutcomes ==
  ASSUME NEW d, Shaped(d), NEW val \in BOOLEAN
  PROVE  /\ d.at = "applyAfter" => \A o \in ImportAnswer(d, val) : Harmless(o)
         /\ d.at = "deleteAll" =>
              IF val THEN \A o \in DeleteAnswer(d, val) : Confirmed(d, o)
              ELSE \A o \in DeleteAnswer(d, val) : Harmless(o)
         /\ d.at = "run" =>
              IF val THEN \A o \in GateAnswer(d, val) : Confirmed(d, o)
              ELSE \A o \in GateAnswer(d, val) : Harmless(o)
<1>1. /\ d.cmd \in Command /\ d.cmd.form = "plain"
      /\ d.at # "repair" => d.cmd.yes = FALSE
  BY CommandParts DEF Shaped
<1>2. CASE d.at = "applyAfter"
  <2> DEFINE c == IF val THEN [d.cmd EXCEPT !.name = "apply"] ELSE d.cmd
  <2>1. c \in Command /\ c.yes = FALSE
    <3>1. d.cmd \in Command /\ d.cmd.yes = FALSE
      BY <1>1, <1>2
    <3>2. [d.cmd EXCEPT !.name = "apply"] \in Command
          /\ [d.cmd EXCEPT !.name = "apply"].yes = d.cmd.yes
      BY <3>1, Flagged
    <3> QED BY <3>1, <3>2
  <2>2. ImportAnswer(d, val) = Exec(c)
    BY DEF ImportAnswer
  <2> HIDE DEF c
  <2> QED BY <1>2, <2>1, <2>2, ExecFacts
<1>3. CASE d.at = "deleteAll"
  <2> DEFINE c == [d.cmd EXCEPT !.yes = TRUE]
  <2>1. /\ c \in Command /\ c.yes = TRUE /\ c.form = "plain" /\ c.name = d.cmd.name
        /\ c.toks = d.cmd.toks
    BY <1>1, Changed
  <2>2. DeleteAnswer(d, val) = IF val THEN Exec(c) ELSE Leave
    BY DEF DeleteAnswer
  <2> HIDE DEF c
  <2>3. Exec(c) = Do(c)
    BY <2>1, ExecFacts, StrippedFacts
  <2>4. \A o \in Do(c) : Confirmed(d, o)
    BY <2>1, DoFacts DEF Confirmed
  <2> QED BY <1>3, <2>2, <2>3, <2>4, LeaveFacts
<1>4. CASE d.at = "run"
  BY <1>1, <1>4, ForcedFacts, DoFacts, LeaveFacts DEF GateAnswer, Confirmed
<1> QED BY <1>2, <1>3, <1>4

(* The checklist of what to delete is the list the session shows. *)
LEMMA AskDeleteHarmless ==
  ASSUME snaps \subseteq Id
  PROVE  \A o \in AskDelete : Harmless(o)
<1> DEFINE q == Dialog("delete", "check", snaps, Cmd("delete", {}))
<1>1. /\ DOMAIN q = DOMAIN NoDialog
      /\ q.at = "delete" /\ q.kind = "check" /\ q.items = snaps /\ q.on = {}
      /\ q.def = FALSE /\ q.lists \in Lists /\ q.cmd = Cmd("delete", {})
  BY NoListsFacts DEF Dialog, NoDialog
<1>2. q.cmd \in Command /\ q.cmd.form = "plain" /\ q.cmd.yes = FALSE
  <2>1. /\ Cmd("delete", {}) \in Command /\ Cmd("delete", {}).form = "plain"
        /\ Cmd("delete", {}).yes = FALSE
    BY DEF Cmd, Command, Destructive
  <2> QED BY <1>1, <2>1
<1>3. "delete" \notin Steps
  BY StepFacts
<1>4. AskDelete = Ask(q)
  BY DEF AskDelete
<1> HIDE DEF q
<1>5. Shaped(q)
  BY <1>1, <1>2, <1>3 DEF Shaped, Questions, Scoping, FinalQuestions
<1> QED BY <1>1, <1>4, <1>5, AskFacts

(* The answers that are no yes or no: checklists, pickers and menus. *)
LEMMA ChoiceHarmless ==
  ASSUME NEW d, Shaped(d), snaps \subseteq Id, NEW val
  PROVE  /\ d.at = "delete" /\ val \subseteq d.items => \A o \in AfterDelete(d, val) : Harmless(o)
         /\ val \in snaps => \A o \in AskScope(val) : Harmless(o)
         /\ d.at = "scope" /\ val \in d.items => \A o \in AfterScope(d, val) : Harmless(o)
         /\ d.at = "names" /\ val \subseteq d.items => \A o \in AfterNames(d, val) : Harmless(o)
         /\ d.at = "kindNames" /\ val \subseteq d.items =>
              \A o \in AskKinds([d.cmd EXCEPT !.scope = @ \cup val], Tail(d.left)) : Harmless(o)
         /\ d.at = "strategy" /\ val \in d.items => \A o \in AfterStrategy(d, val) : Harmless(o)
<1>1. /\ d.cmd \in Command /\ d.cmd.form = "plain" /\ d.lists \in Lists
      /\ d.at # "repair" => d.cmd.yes = FALSE
      /\ d.at \in Scoping => Scopes(d.cmd)
  BY CommandParts DEF Shaped, Scopes, Scoping
<1>2. \A o \in AskDelete : Harmless(o)
  BY AskDeleteHarmless
<1>3. ASSUME d.at = "delete", val \subseteq d.items
      PROVE  \A o \in AfterDelete(d, val) : Harmless(o)
  <2> DEFINE c == [d.cmd EXCEPT !.toks = val]
  <2>1. val \in SUBSET Token
    BY <1>3, SessionAssumption DEF Shaped
  <2>2. c \in Command /\ c.form = "plain" /\ c.yes = FALSE
    BY <1>1, <1>3, <2>1, Changed
  <2>3. AfterDelete(d, val) = IF val = {} THEN AskDelete ELSE Ask(Question("deleteAll", c))
    BY DEF AfterDelete
  <2> HIDE DEF c
  <2>4. Shaped(Question("deleteAll", c)) /\ Question("deleteAll", c).at = "deleteAll"
    BY <2>2, ShapedQuestion DEF Questions, Scoping, FinalQuestions
  <2> QED BY <1>2, <2>3, <2>4, AskFacts
<1>4. ASSUME val \in snaps PROVE \A o \in AskScope(val) : Harmless(o)
  <2> DEFINE c == [Cmd("rollback", {val}) EXCEPT !.slot = FALSE]
  <2>1. {val} \in SUBSET Token
    BY <1>4, SessionAssumption
  <2>2. Scopes(c)
    BY <2>1 DEF Scopes, Cmd, Command, Destructive
  <2>3. AskScope(val) = Ask(DefaultYes(Question("everything", c)))
                        \cup UNION {Ask(ScopeMenu(c, L)) : L \in Lists}
    BY DEF AskScope
  <2> HIDE DEF c
  <2>4. /\ Shaped(DefaultYes(Question("everything", c)))
        /\ DefaultYes(Question("everything", c)).at = "everything"
    BY <2>2, ShapedQuestion DEF Scopes, Questions, Scoping, FinalQuestions
  <2>5. \A o \in Ask(DefaultYes(Question("everything", c))) : Harmless(o)
    BY <2>4, AskFacts
  <2>6. ASSUME NEW L \in Lists PROVE \A o \in Ask(ScopeMenu(c, L)) : Harmless(o)
    <3>1. Shaped(ScopeMenu(c, L)) /\ ScopeMenu(c, L).at = "scope"
      BY <2>2, ScopeDialogs
    <3> QED BY <3>1, AskFacts
  <2> QED BY <2>3, <2>5, <2>6
<1>5. ASSUME d.at = "scope", val \in d.items
      PROVE  \A o \in AfterScope(d, val) : Harmless(o)
  <2>1. val \in {All} \cup KindSet /\ Scopes(d.cmd)
    BY <1>1, <1>5 DEF Shaped, Scoping
  <2>2. CASE val = All
    <3>1. Scopes([d.cmd EXCEPT !.scope = {All}])
      BY <2>1, ScopesChanged
    <3> QED BY <2>2, <3>1, WithScopeHarmless DEF AfterScope
  <2>3. CASE val # All
    <3> DEFINE names == {x \in Of[val] : d.lists[x] # "unlisted"}
    <3>1. names \in SUBSET Thing
      BY <2>1, <2>3 DEF Thing
    <3>2. AfterScope(d, val) =
            IF names = {} THEN Ask(d) ELSE Ask(Checklist(d.cmd, names, d.lists))
      BY <2>3 DEF AfterScope
    <3> HIDE DEF names
    <3>3. /\ Shaped(Checklist(d.cmd, names, d.lists))
          /\ Checklist(d.cmd, names, d.lists).at = "names"
      BY <1>1, <2>1, <3>1, ScopeDialogs
    <3>4. \A o \in Ask(Checklist(d.cmd, names, d.lists)) : Harmless(o)
      BY <3>3, AskFacts
    <3>5. \A o \in Ask(d) : Harmless(o)
      BY <1>5, AskFacts
    <3> QED BY <3>2, <3>4, <3>5
  <2> QED BY <2>2, <2>3
<1>6. ASSUME d.at = "names", val \subseteq d.items
      PROVE  \A o \in AfterNames(d, val) : Harmless(o)
  <2>1. d.items \in SUBSET Thing /\ Scopes(d.cmd)
    BY <1>1, <1>6 DEF Shaped, Scoping
  <2>2. /\ Shaped(Checklist(d.cmd, d.items, d.lists))
        /\ Checklist(d.cmd, d.items, d.lists).at = "names"
    BY <1>1, <2>1, ScopeDialogs
  <2>3. \A o \in Ask(Checklist(d.cmd, d.items, d.lists)) : Harmless(o)
    BY <2>2, AskFacts
  <2>4. Scopes([d.cmd EXCEPT !.scope = val])
    BY <1>6, <2>1, ScopesChanged
  <2> QED BY <2>3, <2>4, WithScopeHarmless DEF AfterNames
<1>7. ASSUME d.at = "kindNames", val \subseteq d.items
      PROVE  \A o \in AskKinds([d.cmd EXCEPT !.scope = @ \cup val], Tail(d.left)) : Harmless(o)
  <2>1. /\ d.items \in SUBSET Thing /\ Scopes(d.cmd) /\ d.cmd \in Command
        /\ d.left \in Seq(KindSet) /\ d.left # <<>>
    BY <1>1, <1>7 DEF Shaped, Scoping
  <2>2. d.cmd.scope \cup val \in SUBSET (Thing \cup {All})
    BY <1>7, <2>1, CommandParts
  <2>3. Scopes([d.cmd EXCEPT !.scope = d.cmd.scope \cup val])
    BY <2>1, <2>2, ScopesChanged
  <2>4. Tail(d.left) \in Seq(KindSet)
    BY <2>1
  <2> QED BY <2>3, <2>4, AskKindsHarmless
<1>8. ASSUME d.at = "strategy", val \in d.items
      PROVE  \A o \in AfterStrategy(d, val) : Harmless(o)
  <2> DEFINE c == [d.cmd EXCEPT !.strategy = val]
  <2>1. val \in {"restore", "current", "missing"} /\ Scopes(d.cmd)
    BY <1>1, <1>8 DEF Shaped, Scoping
  <2>2. /\ c \in Command /\ c.form = "plain" /\ c.yes = FALSE /\ c.name = "rollback"
        /\ ~ c.slot /\ c.strategy = val
    <3>1. /\ d.cmd \in Command /\ d.cmd.form = "plain" /\ d.cmd.yes = FALSE
          /\ d.cmd.name = "rollback" /\ ~ d.cmd.slot
      BY <2>1 DEF Scopes
    <3>2. /\ c \in Command /\ c.strategy = val /\ c.name = d.cmd.name /\ c.yes = d.cmd.yes
          /\ c.form = d.cmd.form /\ c.slot = d.cmd.slot
      BY <2>1, <3>1 DEF Command
    <3> QED BY <3>1, <3>2
  <2>3. AfterStrategy(d, val) = IF val = "restore" THEN AskPreview(c) ELSE Preview(c)
    BY DEF AfterStrategy
  <2> HIDE DEF c
  <2>4. CASE val = "restore"
    <3>1. /\ Shaped(DefaultYes(Question("preview", c)))
          /\ DefaultYes(Question("preview", c)).at = "preview"
      BY <2>2, <2>4, ShapedQuestion DEF Questions, Scoping, FinalQuestions
    <3> QED BY <2>3, <2>4, <3>1, AskFacts DEF AskPreview
  <2>5. CASE val # "restore"
    BY <2>2, <2>3, <2>5, PreviewHarmless
  <2> QED BY <2>4, <2>5
<1> QED BY <1>3, <1>4, <1>5, <1>6, <1>7, <1>8

(* Every answer but a "y" to a final question is harmless, and that one runs what it
   names with --yes.                                                             *)
LEMMA AfterOutcomes ==
  ASSUME NEW d, Shaped(d), snaps \subseteq Id, NEW k, NEW a \in Answers(d, k)
  PROVE  IF k = "y" /\ d.at \in FinalQuestions
         THEN \A o \in After(d, a.ok, a.val) : Confirmed(d, o)
         ELSE \A o \in After(d, a.ok, a.val) : Harmless(o)
<1>1. CASE \E r \in Reading : r[1] = d.at
  <2>1. d.at \in Steps /\ d.at \notin FinalQuestions
    BY <1>1, StepFacts DEF Steps, Questions
  <2>2. a.ok \in BOOLEAN /\ (a.ok /\ d.kind = "pick" => a.val \in Token)
    BY AnswerFacts, SessionAssumption
  <2>3. \A o \in AfterReading(d, a.ok, a.val) : Harmless(o)
    BY <2>1, <2>2, ReadingHarmless
  <2> QED BY <1>1, <2>1, <2>3 DEF After
<1>2. CASE ~ (\E r \in Reading : r[1] = d.at) /\ ~ a.ok
  <2>1. k # "y" /\ After(d, a.ok, a.val) = Cancelled(d)
    BY <1>2, AnswerFacts DEF After
  <2>2. CASE d.at = "names"
    <3>1. Scopes(d.cmd) /\ d.lists \in Lists
      BY <2>2, CommandParts DEF Shaped, Scopes, Scoping
    <3>2. Shaped(ScopeMenu(d.cmd, d.lists)) /\ ScopeMenu(d.cmd, d.lists).at = "scope"
      BY <3>1, ScopeDialogs
    <3> QED BY <2>1, <2>2, <3>2, AskFacts DEF Cancelled
  <2>3. CASE d.at # "names"
    BY <2>1, <2>3, LeaveFacts DEF Cancelled
  <2> QED BY <2>2, <2>3
<1>3. CASE ~ (\E r \in Reading : r[1] = d.at) /\ a.ok /\ d.kind = "bool"
  <2>1. After(d, a.ok, a.val) = AfterQuestion(d, a.val)
    BY <1>3 DEF After
  <2>2. /\ a.val \in BOOLEAN /\ (k = "y" => a.val = TRUE)
        /\ a.val = TRUE => k = "y" \/ d.def = TRUE
    BY <1>3, AnswerFacts
  <2>3. d.at \in FinalQuestions => (a.val = TRUE <=> k = "y")
    BY <2>2 DEF Shaped
  <2>4. d.at \in Questions
    <3>1. d.at \notin Steps
      BY <1>3 DEF Steps
    <3> QED BY <1>3, <3>1 DEF Shaped, Scoping, Questions, NoDialog, Dialog
  <2> DEFINE val == a.val
  <2>5. val \in BOOLEAN /\ (d.at \in FinalQuestions => (val <=> k = "y"))
    BY <2>2, <2>3
  <2> HIDE DEF val
  <2>6. CASE d.at \in {"everything", "anyOfKind"}
    <3>1. AfterQuestion(d, val) = ScopeAnswer(d, val) /\ d.at \notin FinalQuestions
      BY <2>6 DEF AfterQuestion, FinalQuestions
    <3> QED BY <2>1, <2>5, <2>6, <3>1, ScopeHarmless DEF val
  <2>7. CASE d.at \in {"deep", "repair"}
    <3>1. AfterQuestion(d, val) = DoctorAnswer(d, val)
          /\ (d.at \in FinalQuestions <=> d.at = "repair")
      BY <2>7 DEF AfterQuestion, FinalQuestions
    <3> QED BY <2>1, <2>5, <2>7, <3>1, DoctorOutcomes DEF val
  <2>8. CASE d.at \in {"preview", "apply"}
    <3>1. AfterQuestion(d, val) = RollbackAnswer(d, val)
          /\ (d.at \in FinalQuestions <=> d.at = "apply")
      BY <2>8 DEF AfterQuestion, FinalQuestions
    <3> QED BY <2>1, <2>5, <2>8, <3>1, RollbackOutcomes DEF val
  <2>9. CASE d.at = "applyAfter"
    <3>1. AfterQuestion(d, val) = ImportAnswer(d, val) /\ d.at \notin FinalQuestions
      BY <2>9 DEF AfterQuestion, FinalQuestions
    <3> QED BY <2>1, <2>5, <2>9, <3>1, OtherOutcomes DEF val
  <2>10. CASE d.at = "deleteAll"
    <3>1. AfterQuestion(d, val) = DeleteAnswer(d, val) /\ d.at \in FinalQuestions
      BY <2>10 DEF AfterQuestion, FinalQuestions
    <3> QED BY <2>1, <2>5, <2>10, <3>1, OtherOutcomes DEF val
  <2>11. CASE d.at = "run"
    <3>1. AfterQuestion(d, val) = GateAnswer(d, val) /\ d.at \in FinalQuestions
      BY <2>11 DEF AfterQuestion, FinalQuestions
    <3> QED BY <2>1, <2>5, <2>11, <3>1, OtherOutcomes DEF val
  <2> QED BY <2>4, <2>6, <2>7, <2>8, <2>9, <2>10, <2>11 DEF Questions, FinalQuestions
<1>4. CASE ~ (\E r \in Reading : r[1] = d.at) /\ a.ok /\ d.kind # "bool"
  <2>1. d.at \in {"delete", "rollback", "scope", "names", "kindNames", "strategy"}
    <3>1. d.at \notin Steps
      BY <1>4 DEF Steps
    <3>2. d.at # "none"
      <4>1. NoDialog.kind = "none"
        BY DEF NoDialog, Dialog
      <4>2. d.kind # "none"
        BY <1>4, AnswerFacts
      <4> QED BY <4>1, <4>2 DEF Shaped
    <3>3. d.at \notin Questions
      BY <1>4 DEF Shaped
    <3> QED BY <3>1, <3>2, <3>3 DEF Shaped, Questions, Scoping
  <2>2. d.at \notin FinalQuestions
    BY <2>1 DEF FinalQuestions
  <2>3. /\ d.kind = "pick" => a.val \in snaps
        /\ d.kind = "list" => a.val \in d.items
        /\ d.kind \in {"check", "names"} => a.val \subseteq d.items
    BY <1>4, AnswerFacts DEF Shaped
  <2> DEFINE val == a.val
  <2>4. /\ d.at = "delete" => After(d, a.ok, val) = AfterDelete(d, val)
        /\ d.at = "rollback" => After(d, a.ok, val) = AskScope(val)
        /\ d.at = "scope" => After(d, a.ok, val) = AfterScope(d, val)
        /\ d.at = "names" => After(d, a.ok, val) = AfterNames(d, val)
        /\ d.at = "kindNames" =>
             After(d, a.ok, val) = AskKinds([d.cmd EXCEPT !.scope = @ \cup val], Tail(d.left))
        /\ d.at = "strategy" => After(d, a.ok, val) = AfterStrategy(d, val)
    BY <1>4 DEF After
  <2>5. /\ d.at = "rollback" => val \in snaps
        /\ d.at \in {"scope", "strategy"} => val \in d.items
        /\ d.at \in {"delete", "names", "kindNames"} => val \subseteq d.items
    BY <2>3 DEF Shaped
  <2> HIDE DEF val
  <2>6. \A o \in After(d, a.ok, val) : Harmless(o)
    BY <2>1, <2>4, <2>5, ChoiceHarmless
  <2> QED BY <2>2, <2>6 DEF val
<1>5. a.ok \in BOOLEAN
  BY AnswerFacts
<1> QED BY <1>1, <1>2, <1>3, <1>4, <1>5

(* What the session reads and shows keeps its types while the store changes. *)
LEMMA RefreshType ==
  ASSUME catalog' \in [Id -> {"never", "present", "gone"}], Refresh
  PROVE  snaps' \subseteq Id
BY DEF Refresh, Present

(* Running a command from the session: the command as its names are expanded, or
   nothing at all.                                                               *)
LEMMA DoExecFacts ==
  ASSUME TypeOK, NEW c \in Command, DoExec(c)
  PROVE  /\ Keeps /\ snaps' \subseteq Id /\ pane'.cmd \in Command
         /\ \/ UNCHANGED <<store, pane>>
            \/ /\ c.name # "none" /\ ~ Unclear(c)
               /\ Expanded(c) \in Command /\ Effect(Expanded(c))
<1>1. CASE c.name = "none" \/ Unclear(c)
  <2>1. UNCHANGED <<store, pane, snaps>>
    BY <1>1 DEF DoExec
  <2> QED BY <2>1 DEF TypeOK, Keeps, store, Present
<1>2. CASE ~ (c.name = "none" \/ Unclear(c))
  <2>1. RunArgs(Expanded(c)) /\ Refresh
    BY <1>2 DEF DoExec
  <2>2. Expanded(c) \in Command
    BY ExpandedFacts DEF TypeOK
  <2>3. Effect(Expanded(c))
    BY <2>1, <2>2, RunEffect
  <2>4. Keeps /\ pane'.cmd \in Command
    BY <2>2, <2>3 DEF Effect
  <2>5. snaps' \subseteq Id
    BY <2>1, <2>4, RefreshType DEF Keeps
  <2> QED BY <1>2, <2>2, <2>3, <2>4, <2>5
<1> QED BY <1>1, <1>2

(* The part of the invariant that a command run from the session is about. *)
Safe == /\ catalog \in [Id -> {"never", "present", "gone"}]
        /\ broken \subseteq Present /\ litter \in BOOLEAN /\ snaps \subseteq Id
        /\ pane.cmd \in Command
        /\ Shaped(dlg) /\ PreviewedIsApplied

(* A harmless outcome destroys nothing, and what is asked after it was shown. *)
LEMMA PerformHarmless ==
  ASSUME IInv, NEW o, Harmless(o), Perform(o)
  PROVE  Safe' /\ ~ Ruins
<1>1. o.run \in Command /\ o.run.yes = FALSE /\ Shaped(o.ask)
  BY DEF Harmless
<1>2. DoExec(o.run) /\ (dlg' = NoDialog \/ dlg' = o.ask)
  BY DEF Perform
<1>3. /\ Keeps /\ snaps' \subseteq Id /\ pane'.cmd \in Command
      /\ \/ UNCHANGED <<store, pane>>
         \/ /\ o.run.name # "none" /\ ~ Unclear(o.run)
            /\ Expanded(o.run) \in Command /\ Effect(Expanded(o.run))
  BY <1>1, <1>2, DoExecFacts DEF IInv
<1>4. ~ Ruins
  <2>1. CASE UNCHANGED <<store, pane>>
    BY <2>1 DEF store, Ruins, Lost, Present
  <2>2. CASE Effect(Expanded(o.run))
    <3>1. Expanded(o.run).yes = FALSE
      BY <1>1, ExpandedFacts DEF IInv, TypeOK
    <3> QED BY <2>2, <3>1 DEF Effect, Ruins
  <2> QED BY <1>3, <2>1, <2>2
<1>5. Shaped(dlg)'
  <2>1. Shaped(dlg')
    BY <1>1, <1>2, ShapedNone
  <2> QED BY <2>1 DEF Shaped
<1>6. PreviewedIsApplied'
  <2> SUFFICES ASSUME dlg'.at = "apply", dlg'.cmd.strategy # "restore"
               PROVE  pane'.cmd = [dlg'.cmd EXCEPT !.dry = TRUE]
    BY DEF PreviewedIsApplied
  <2>1. dlg' = o.ask
    BY <1>2, ShapedNone
  <2> DEFINE c == o.ask.cmd
             n == [c EXCEPT !.dry = TRUE]
  <2>2. o.run = n
    BY <2>1 DEF Harmless
  <2>3. c \in Command /\ c.form = "plain" /\ c.name = "rollback" /\ ~ c.slot
    BY <1>1, <2>1 DEF Shaped
  <2>4. n.form = "plain" /\ n.name = "rollback" /\ ~ n.slot
    BY <2>3, Flagged
  <2> HIDE DEF n, c
  <2>5. ~ Expands(n)
    BY <2>4 DEF Expands
  <2>6. Expanded(n) = n /\ ~ Unclear(n) /\ n.name # "none"
    BY <2>4, <2>5 DEF Expanded, Unclear
  <2>7. RunArgs(n)
    BY <1>2, <2>2, <2>6 DEF DoExec
  <2>8. pane'.cmd = n
    BY <1>1, <2>2, <2>7, RunEffect DEF IInv, Effect
  <2> QED BY <2>1, <2>8 DEF n, c
<1> QED BY <1>3, <1>4, <1>5, <1>6 DEF Safe, Keeps

(* A "y" to a final question runs what the question names, and is not asked again. *)
LEMMA PerformConfirmed ==
  ASSUME IInv, NEW d, Shaped(d), NEW o, Confirmed(d, o), Perform(o)
  PROVE  /\ Safe'
         /\ pane' # pane => pane'.cmd.yes /\ pane'.what # "declined"
         /\ Lost # {} => Effect(Expanded(o.run)) /\ ~ Unclear(o.run)
<1>1. o.run \in Command /\ o.run.yes = TRUE /\ o.ask = NoDialog
  BY DEF Confirmed
<1>2. DoExec(o.run) /\ dlg' = NoDialog
  BY <1>1 DEF Perform
<1>3. /\ Keeps /\ snaps' \subseteq Id /\ pane'.cmd \in Command
      /\ \/ UNCHANGED <<store, pane>>
         \/ /\ o.run.name # "none" /\ ~ Unclear(o.run)
            /\ Expanded(o.run) \in Command /\ Effect(Expanded(o.run))
  BY <1>1, <1>2, DoExecFacts DEF IInv
<1>4. Shaped(dlg)' /\ PreviewedIsApplied'
  <2>1. Shaped(dlg') /\ dlg'.at = "none"
    BY <1>2, ShapedNone
  <2> QED BY <2>1 DEF Shaped, PreviewedIsApplied
<1>5. pane' # pane => pane'.cmd.yes /\ pane'.what # "declined"
  <2>1. Expanded(o.run).yes = TRUE
    BY <1>1, ExpandedFacts DEF IInv, TypeOK
  <2> QED BY <1>3, <2>1 DEF Effect
<1>6. Lost # {} => Effect(Expanded(o.run)) /\ ~ Unclear(o.run)
  <2>1. UNCHANGED <<store, pane>> => Lost = {}
    BY DEF store, Lost, Present
  <2> QED BY <1>3, <2>1
<1> QED BY <1>3, <1>4, <1>5, <1>6 DEF Safe, Keeps

(* The rows of the menu are harmless. *)
LEMMA MenuHarmless ==
  ASSUME snaps \subseteq Id
  PROVE  \A m \in Menu : \A o \in m : Harmless(o)
<1>1. \A name \in {"read", "prune", "snapshot", "import", "doctor", "rollback"} :
        /\ Cmd(name, {}) \in Command /\ Cmd(name, {}).form = "plain"
        /\ Cmd(name, {}).yes = FALSE
  BY DEF Cmd, Command, Destructive
<1>2. \A name \in {"read", "prune"} : \A o \in Exec(Cmd(name, {})) : Harmless(o)
  BY <1>1, ExecFacts
<1>3. \A o \in AskDelete : Harmless(o)
  BY AskDeleteHarmless
<1>4. \A at \in {"message", "import", "importPath", "deepStatus", "show", "diffFrom",
                 "export", "files", "archive", "config"} :
        /\ at \in Steps /\ at # "apply"
        /\ \A name \in {"read", "snapshot", "import"} :
             \A o \in Ask(Show(at, Cmd(name, {}))) : Harmless(o)
  <2> TAKE at \in {"message", "import", "importPath", "deepStatus", "show", "diffFrom",
                   "export", "files", "archive", "config"}
  <2>1. at \in Steps /\ at # "apply"
    BY StepFacts DEF StepNames
  <2>2. ASSUME NEW name \in {"read", "snapshot", "import"}
        PROVE  \A o \in Ask(Show(at, Cmd(name, {}))) : Harmless(o)
    <3>1. Shaped(Show(at, Cmd(name, {}))) /\ Show(at, Cmd(name, {})).at = at
      BY <1>1, <2>1, ShowFacts
    <3> QED BY <2>1, <3>1, AskFacts
  <2> QED BY <2>1, <2>2
<1>5. \A o \in Ask(Dialog("rollback", "pick", {}, Cmd("rollback", {}))) : Harmless(o)
  <2> DEFINE q == Dialog("rollback", "pick", {}, Cmd("rollback", {}))
  <2>1. /\ DOMAIN q = DOMAIN NoDialog
        /\ q.at = "rollback" /\ q.kind = "pick" /\ q.items = {} /\ q.on = {}
        /\ q.def = FALSE /\ q.lists \in Lists /\ q.cmd = Cmd("rollback", {})
    BY NoListsFacts DEF Dialog, NoDialog
  <2>2. q.cmd \in Command /\ q.cmd.form = "plain" /\ q.cmd.yes = FALSE
    BY <1>1, <2>1
  <2>3. "rollback" \notin Steps
    BY StepFacts
  <2> HIDE DEF q
  <2>4. Shaped(q)
    BY <2>1, <2>2, <2>3 DEF Shaped, Questions, Scoping, FinalQuestions
  <2> QED BY <2>1, <2>4, AskFacts DEF q
<1>6. \A o \in Ask(Question("deep", Cmd("doctor", {}))) : Harmless(o)
  <2>1. /\ Shaped(Question("deep", Cmd("doctor", {})))
        /\ Question("deep", Cmd("doctor", {})).at = "deep"
    BY <1>1, ShapedQuestion DEF Questions, Scoping, FinalQuestions
  <2> QED BY <2>1, AskFacts
<1> QED BY <1>2, <1>3, <1>4, <1>5, <1>6 DEF Menu

(* What a deletion or a repair takes from the catalog was named on the line c, of
   which r is what the session runs.                                             *)
LEMMA NamedLost ==
  ASSUME IInv, NEW c \in Command, NEW r \in Command,
         r.name = c.name, r.toks = c.toks, r.form = "masked" <=> c.form = "masked",
         ~ Unclear(r), Effect(Expanded(r)), Lost # {}
  PROVE  Named(c, Lost)
<1>1. snaps \subseteq Id
  BY DEF IInv, TypeOK
<1>2. Expanded(r).name = c.name
  BY <1>1, ExpandedFacts
<1>3. \/ c.name = "repair" /\ Lost \subseteq broken
      \/ /\ c.name = "delete"
         /\ \A t \in Expanded(r).toks : \E s \in Id : Resolve(t) = {s}
         /\ \A s \in Lost : \E t \in Expanded(r).toks : Resolve(t) = {s}
  BY <1>2 DEF Effect
<1>4. CASE c.name = "delete" /\ c.form = "masked"
  <2>1. Expanded(r) = r
    BY <1>1, <1>4, ExpandedFacts DEF Expands
  <2>2. \A t \in c.toks : \E s \in Id : Resolve(t) = {s} /\ s \in Present
    BY <1>3, <1>4, <2>1, CommandParts, ResolveFacts
  <2> QED BY <1>3, <1>4, <2>1, <2>2 DEF Named, Means
<1>5. CASE c.name = "delete" /\ c.form # "masked"
  <2>1. Expands(r)
    BY <1>5 DEF Expands
  <2>2. Expanded(r).toks = UNION {Expand(t) : t \in c.toks}
    BY <1>1, <2>1, ExpandedFacts
  <2>3. \A t \in c.toks : \E u \in Id : Expand(t) = {u}
    BY <2>1 DEF Unclear
  <2>4. ASSUME NEW t \in c.toks, NEW u \in Id, Expand(t) = {u}
        PROVE  Means(c, t, u) /\ u \in Expanded(r).toks
    <3>1. u \in Expanded(r).toks
      BY <2>2, <2>4
    <3>2. CASE t \in snaps
      BY <1>5, <2>4, <3>1, <3>2 DEF Expand, Means
    <3>3. CASE t \notin snaps
      BY <1>5, <2>4, <3>1, <3>3 DEF Expand, Means
    <3> QED BY <3>2, <3>3
  <2>5. ASSUME NEW u \in Id, NEW s \in Id, Resolve(u) = {s}
        PROVE  s = u /\ u \in Present
    BY <2>5, SessionAssumption DEF Resolve
  <2>6. ASSUME NEW s \in Lost PROVE \E t \in c.toks : Means(c, t, s)
    <3>1. PICK u \in Expanded(r).toks : Resolve(u) = {s}
      BY <1>3, <1>5
    <3>2. PICK t \in c.toks : u \in Expand(t)
      BY <2>2, <3>1
    <3>3. u \in Id /\ Expand(t) = {u}
      BY <2>3, <3>2
    <3>4. s \in Id
      BY <2>6 DEF Lost, Present
    <3>5. s = u
      BY <2>5, <3>1, <3>3, <3>4
    <3> QED BY <2>4, <3>3, <3>5
  <2>7. ASSUME NEW t \in c.toks PROVE \E s \in Present : Means(c, t, s)
    <3>1. PICK u \in Id : Expand(t) = {u}
      BY <2>3
    <3>2. Means(c, t, u) /\ u \in Expanded(r).toks
      BY <2>4, <3>1
    <3>3. PICK s \in Id : Resolve(u) = {s}
      BY <1>3, <1>5, <3>2
    <3>4. u \in Present
      BY <2>5, <3>3
    <3> QED BY <3>2, <3>4
  <2> QED BY <1>5, <2>6, <2>7 DEF Named
<1> QED BY <1>3, <1>4, <1>5 DEF Named

(* What is left of the invariant once a command has run. *)
LEMMA Reassemble ==
  ASSUME Safe', dlg' # NoDialog => ~ inInput', escArmed' => InMenu',
         key'.line \in Command, others' \in 0..MaxOthers
  PROVE  IInv'
BY DEF Safe, IInv, TypeOK, Shaped, Present

(* What holds of a step that runs nothing. *)
LEMMA Untouched ==
  ASSUME IInv, UNCHANGED store, pane'.what # "restored" \/ pane' = pane,
         pane' = pane \/ dlg = NoDialog
  PROVE  OnYes /\ LosesTheNamed
<1>1. Lost = {} /\ ~ (litter /\ ~ litter')
  BY DEF store, Lost, Present
<1>2. dlg = NoDialog => dlg.at \notin FinalQuestions
  BY ShapedNone DEF FinalQuestions
<1> QED BY <1>1, <1>2 DEF OnYes, Destroys, LosesTheNamed, Lost

(* What holds of a step that runs a harmless outcome. *)
LEMMA HarmlessStep ==
  ASSUME IInv, ~ Ruins,
         ~ (key'.k = "y" /\ dlg.at \in FinalQuestions)
  PROVE  OnYes /\ LosesTheNamed
<1>1. ~ Destroys
  BY DEF Destroys, Ruins, Lost
<1> QED BY <1>1 DEF OnYes, LosesTheNamed, Ruins, Lost

(* A key at a dialog. *)
LEMMA DialogStep ==
  ASSUME IInv, NEW k, DialogKey(k)
  PROVE  IInv' /\ OnYes /\ LosesTheNamed
<1>1. /\ dlg # NoDialog /\ key' = [k |-> k, line |-> NoCmd]
      /\ UNCHANGED <<inInput, escArmed, done, others>>
  BY DEF DialogKey, Hit
<1>2. PICK a \in Answers(dlg, k) : \E x \in After(dlg, a.ok, a.val) : Perform(x)
  BY DEF DialogKey
<1>7. PICK o \in After(dlg, a.ok, a.val) : Perform(o)
  BY <1>2
<1>3. Shaped(dlg) /\ snaps \subseteq Id /\ ~ inInput /\ ~ escArmed /\ others \in 0..MaxOthers
  BY <1>1 DEF IInv, TypeOK, InMenu
<1>4. key'.k = k /\ key'.line \in Command /\ ~ inInput' /\ ~ escArmed' /\ others' \in 0..MaxOthers
  BY <1>1, <1>3, NoCmdFacts
<1>5. CASE k = "y" /\ dlg.at \in FinalQuestions
  <2>1. Confirmed(dlg, o)
    BY <1>7, <1>3, <1>5, AfterOutcomes
  <2>2. /\ Safe'
        /\ pane' # pane => pane'.cmd.yes /\ pane'.what # "declined"
        /\ Lost # {} => Effect(Expanded(o.run)) /\ ~ Unclear(o.run)
    BY <1>7, <1>3, <2>1, PerformConfirmed
  <2>3. OnYes
    BY <1>4, <1>5, <2>2 DEF OnYes
  <2>4. LosesTheNamed
    <3> SUFFICES ASSUME Lost # {} PROVE Named(dlg.cmd, Lost)
      BY <1>1 DEF LosesTheNamed, Lost
    <3>1. /\ o.run \in Command /\ o.run.name = dlg.cmd.name /\ o.run.toks = dlg.cmd.toks
          /\ o.run.form = "plain" /\ dlg.cmd \in Command /\ dlg.cmd.form = "plain"
      BY <1>3, <2>1 DEF Confirmed, Shaped
    <3> QED BY <2>2, <3>1, NamedLost
  <2> QED BY <1>4, <2>2, <2>3, <2>4, Reassemble
<1>6. CASE ~ (k = "y" /\ dlg.at \in FinalQuestions)
  <2>1. Harmless(o)
    BY <1>7, <1>3, <1>6, AfterOutcomes
  <2>2. Safe' /\ ~ Ruins
    BY <1>7, <2>1, PerformHarmless
  <2>3. OnYes /\ LosesTheNamed
    BY <1>4, <1>6, <2>2, HarmlessStep
  <2> QED BY <1>4, <2>2, <2>3, Reassemble
<1> QED BY <1>5, <1>6

(* A key on a checklist. *)
LEMMA ToggleStep ==
  ASSUME IInv, NEW k, Toggle(k)
  PROVE  IInv' /\ OnYes /\ LosesTheNamed
<1>1. /\ dlg.kind = "check" /\ key' = [k |-> k, line |-> NoCmd]
      /\ UNCHANGED <<store, snaps, inInput, pane, escArmed, done, others>>
  BY DEF Toggle, Hit
<1>2. Shaped(dlg) /\ TypeOK /\ PreviewedIsApplied
  BY DEF IInv
<1>3. PICK on \in SUBSET dlg.items : dlg' = [dlg EXCEPT !.on = on]
  <2>1. CASE \E x \in dlg.items : dlg' = [dlg EXCEPT !.on = SymDiff(@, {x})]
    <3>1. PICK x \in dlg.items : dlg' = [dlg EXCEPT !.on = SymDiff(dlg.on, {x})]
      BY <2>1
    <3>2. SymDiff(dlg.on, {x}) \subseteq dlg.items
      BY <1>2 DEF SymDiff, Shaped
    <3> QED BY <3>1, <3>2
  <2>2. CASE dlg' = [dlg EXCEPT !.on = IF dlg.on = {} THEN dlg.items ELSE {}]
    BY <2>2
  <2> QED BY <2>1, <2>2 DEF Toggle
<1>4. dlg.at \in {"delete", "names"}
  <2>1. dlg.at = "none" => dlg.kind = "none"
    BY <1>2 DEF Shaped, NoDialog, Dialog
  <2>2. dlg.at \in Steps => dlg.kind # "check"
    BY <1>2 DEF Shaped, KindOf
  <2> QED BY <1>1, <1>2, <2>1, <2>2 DEF Shaped, Questions, Scoping
<1>5. /\ DOMAIN dlg' = DOMAIN NoDialog /\ dlg'.on \subseteq dlg.items
      /\ dlg'.at = dlg.at /\ dlg'.kind = dlg.kind /\ dlg'.items = dlg.items
      /\ dlg'.def = dlg.def /\ dlg'.cmd = dlg.cmd /\ dlg'.lists = dlg.lists
      /\ dlg'.left = dlg.left
  <2>1. DOMAIN dlg = {"at", "kind", "items", "on", "def", "cmd", "lists", "left"}
    BY <1>2 DEF Shaped, NoDialog, Dialog
  <2> QED BY <1>2, <1>3, <2>1 DEF Shaped
<1>6. Shaped(dlg)' /\ PreviewedIsApplied'
  <2>1. Shaped(dlg')
    BY <1>2, <1>4, <1>5 DEF Shaped
  <2> QED BY <1>4, <1>5, <2>1 DEF Shaped, PreviewedIsApplied
<1>7. Safe'
  BY <1>1, <1>2, <1>6 DEF Safe, TypeOK, store, Present
<1>8. dlg # NoDialog
  BY <1>4, ShapedNone
<1>9. ~ inInput' /\ ~ escArmed' /\ key'.line \in Command
  BY <1>1, <1>2, <1>8, NoCmdFacts DEF TypeOK, InMenu
<1>10. others' \in 0..MaxOthers
  BY <1>2 DEF TypeOK, Toggle
<1>11. OnYes /\ LosesTheNamed
  BY <1>1, Untouched
<1> QED BY <1>7, <1>9, <1>10, <1>11, Reassemble

(* A key on the ':' line: what is typed goes through the gate, or says --yes. *)
LEMMA InputStep ==
  ASSUME IInv, NEW k, InputKey(k)
  PROVE  IInv' /\ OnYes /\ LosesTheNamed
<1>1. /\ dlg = NoDialog /\ inInput /\ inInput' = FALSE
      /\ UNCHANGED <<escArmed, done, others>>
  BY DEF InputKey
<1>2. /\ snaps \subseteq Id /\ ~ escArmed' /\ others' \in 0..MaxOthers
      /\ dlg.at \notin FinalQuestions
  BY <1>1, ShapedNone DEF IInv, TypeOK, InMenu, FinalQuestions
<1>3. CASE k = "esc" /\ Hit(k, NoCmd) /\ Perform([run |-> NoCmd, ask |-> NoDialog])
  <2> DEFINE o == [run |-> NoCmd, ask |-> NoDialog]
  <2>1. Harmless(o)
    BY NoCmdFacts, ShapedNone DEF Harmless
  <2>2. key'.line \in Command
    BY <1>3, NoCmdFacts DEF Hit
  <2> HIDE DEF o
  <2>3. Perform(o)
    BY <1>3 DEF o
  <2>4. Safe' /\ ~ Ruins
    BY <2>1, <2>3, PerformHarmless
  <2> QED BY <1>1, <1>2, <2>2, <2>4, HarmlessStep, Reassemble
<1>4. CASE k = "enter" /\ \E l \in Lines : Hit(k, l) /\ \E o \in Exec(l) : Perform(o)
  <2>1. PICK l \in Lines : Hit(k, l) /\ \E o \in Exec(l) : Perform(o)
    BY <1>4
  <2>2. PICK o \in Exec(l) : Perform(o)
    BY <2>1
  <2>3. l \in Command /\ key'.k = "enter" /\ key'.line = l
    BY <1>4, <2>1, SessionAssumption DEF Hit
  <2>4. CASE ~ l.yes
    <3>1. Harmless(o)
      BY <2>2, <2>3, <2>4, CommandParts, ExecFacts
    <3>2. Safe' /\ ~ Ruins
      BY <2>2, <3>1, PerformHarmless
    <3> QED BY <1>1, <1>2, <2>3, <3>2, HarmlessStep, Reassemble
  <2>5. CASE l.yes
    <3> DEFINE r == Stripped(l)
    <3>1. /\ r \in Command /\ r.name = l.name /\ r.toks = l.toks
          /\ r.form = "masked" <=> l.form = "masked"
      BY <2>3, StrippedFacts, CommandParts
    <3>2. Exec(l) = Do(r)
      BY <2>3, <2>5, CommandParts, ExecFacts
    <3> HIDE DEF r
    <3>3. o.run = r /\ o.ask = NoDialog
      BY <2>2, <3>1, <3>2, DoFacts
    <3>4. DoExec(r) /\ dlg' = NoDialog
      BY <2>2, <3>3 DEF Perform
    <3>5. /\ Keeps /\ snaps' \subseteq Id /\ pane'.cmd \in Command
          /\ \/ UNCHANGED <<store, pane>>
             \/ /\ r.name # "none" /\ ~ Unclear(r)
                /\ Expanded(r) \in Command /\ Effect(Expanded(r))
      BY <3>1, <3>4, DoExecFacts DEF IInv
    <3>6. Shaped(dlg)' /\ PreviewedIsApplied'
      <4>1. Shaped(dlg') /\ dlg'.at = "none"
        BY <3>4, ShapedNone
      <4> QED BY <4>1 DEF Shaped, PreviewedIsApplied
    <3>7. Safe'
      BY <3>5, <3>6 DEF Safe, Keeps
    <3>8. OnYes
      BY <1>2, <2>3, <2>5 DEF OnYes
    <3>9. LosesTheNamed
      <4> SUFFICES ASSUME Lost # {} PROVE Named(l, Lost)
        BY <1>1, <2>3 DEF LosesTheNamed, Lost
      <4>1. ~ Unclear(r) /\ Effect(Expanded(r))
        BY <3>5 DEF store, Lost, Present
      <4> QED BY <2>3, <3>1, <4>1, NamedLost
    <3> QED BY <1>1, <1>2, <2>3, <3>7, <3>8, <3>9, Reassemble
  <2> QED BY <2>4, <2>5
<1> QED BY <1>3, <1>4 DEF InputKey

(* A key while output is shown, and the end of the session. *)
LEMMA QuietSteps ==
  ASSUME IInv
  PROVE  /\ \A k : OutputKey(k) => IInv' /\ OnYes /\ LosesTheNamed
         /\ Quit => IInv' /\ OnYes /\ LosesTheNamed
<1>1. ASSUME NEW k, OutputKey(k) PROVE IInv' /\ OnYes /\ LosesTheNamed
  <2>1. /\ dlg = NoDialog /\ ~ inInput /\ pane # Closed /\ key' = [k |-> k, line |-> NoCmd]
        /\ UNCHANGED <<store, snaps, dlg, escArmed, done, others>>
        /\ pane' = Closed \/ UNCHANGED pane
    BY <1>1 DEF OutputKey, Hit
  <2>2. Closed.cmd \in Command /\ Closed.what # "restored"
    BY NoCmdFacts DEF Closed
  <2>3. Safe'
    <3>1. dlg' = NoDialog
      BY <2>1
    <3>2. Shaped(dlg)' /\ PreviewedIsApplied'
      <4>1. Shaped(dlg') /\ dlg'.at = "none"
        BY <3>1, ShapedNone
      <4> QED BY <4>1 DEF Shaped, PreviewedIsApplied
    <3> QED BY <2>1, <2>2, <3>2 DEF IInv, TypeOK, Safe, store, Present
  <2>4. ~ escArmed' /\ key'.line \in Command /\ others' \in 0..MaxOthers
    BY <2>1, NoCmdFacts DEF IInv, TypeOK, InMenu
  <2>5. OnYes /\ LosesTheNamed
    BY <2>1, <2>2, Untouched
  <2> QED BY <2>1, <2>3, <2>4, <2>5, Reassemble
<1>2. ASSUME Quit PROVE IInv' /\ OnYes /\ LosesTheNamed
  <2>1. /\ UNCHANGED <<store, snaps, dlg, inInput, pane, escArmed, others>>
        /\ key'.line = NoCmd
    BY <1>2 DEF Quit, Hit
  <2>2. Safe'
    BY <2>1 DEF IInv, TypeOK, Safe, store, Present, Shaped, PreviewedIsApplied
  <2>3. /\ dlg' # NoDialog => ~ inInput'
        /\ escArmed' => InMenu'
        /\ key'.line \in Command /\ others' \in 0..MaxOthers
    BY <2>1, NoCmdFacts DEF IInv, TypeOK, InMenu
  <2>4. OnYes /\ LosesTheNamed
    BY <2>1, Untouched
  <2> QED BY <2>2, <2>3, <2>4, Reassemble
<1> QED BY <1>1, <1>2

(* A key in the menu. *)
LEMMA MenuStep ==
  ASSUME IInv, NEW k, MenuKey(k)
  PROVE  IInv' /\ OnYes /\ LosesTheNamed
<1>1. /\ dlg = NoDialog /\ ~ inInput /\ pane = Closed
      /\ key' = [k |-> k, line |-> NoCmd] /\ UNCHANGED others
  BY DEF MenuKey, InMenu, Hit
<1>2. /\ snaps \subseteq Id /\ others' \in 0..MaxOthers /\ dlg.at \notin FinalQuestions
      /\ key'.line \in Command
  BY <1>1, ShapedNone, NoCmdFacts DEF IInv, TypeOK, FinalQuestions
<1>3. CASE /\ k = "enter"
           /\ \E m \in Menu : \E o \in m : Perform(o)
           /\ escArmed' = FALSE /\ UNCHANGED <<inInput, done>>
  <2>1. PICK m \in Menu : \E o \in m : Perform(o)
    BY <1>3
  <2>2. PICK o \in m : Perform(o)
    BY <2>1
  <2>3. Harmless(o)
    BY <1>2, <2>1, <2>2, MenuHarmless
  <2>4. Safe' /\ ~ Ruins
    BY <2>2, <2>3, PerformHarmless
  <2> QED BY <1>1, <1>2, <1>3, <2>4, HarmlessStep, Reassemble
<1>4. CASE /\ escArmed' = (k = "esc") /\ inInput' = (k = ":")
           /\ UNCHANGED <<store, snaps, dlg, pane>>
  <2>1. Safe'
    BY <1>4 DEF IInv, TypeOK, Safe, store, Present, Shaped, PreviewedIsApplied
  <2>2. dlg' = NoDialog /\ (escArmed' => InMenu')
    BY <1>1, <1>4 DEF InMenu
  <2>3. OnYes /\ LosesTheNamed
    BY <1>4, Untouched
  <2> QED BY <1>2, <2>1, <2>2, <2>3, Reassemble
<1> QED BY <1>3, <1>4 DEF MenuKey

(* A change by another process is none of the session's. *)
LEMMA ElsewhereStep ==
  ASSUME IInv, Elsewhere
  PROVE  IInv' /\ OnYes /\ LosesTheNamed
<1>1. /\ key' = [k |-> "none", line |-> NoCmd] /\ others' = others + 1 /\ others < MaxOthers
      /\ UNCHANGED <<snaps, dlg, inInput, pane, escArmed, done>>
  BY DEF Elsewhere
<1>2. TypeOK
  BY DEF IInv
<1>3. Keeps
  <2>1. ASSUME NEW s \in Id, Enters(s), UNCHANGED <<broken, litter>> PROVE Keeps
    BY <1>2, <2>1, EntersFacts DEF Keeps, TypeOK
  <2>2. ASSUME NEW s \in Present, Drop({s}), UNCHANGED litter PROVE Keeps
    <3>1. {s} \in SUBSET Id
      BY DEF Present
    <3> QED BY <1>2, <2>2, <3>1, DropFacts DEF Keeps, TypeOK
  <2>3. ASSUME NEW s \in Present, broken' = broken \cup {s}, UNCHANGED <<catalog, litter>>
        PROVE  Keeps
    BY <1>2, <2>3 DEF Keeps, TypeOK, Present
  <2>4. ASSUME litter' = TRUE, UNCHANGED <<catalog, broken>> PROVE Keeps
    BY <1>2, <2>4 DEF Keeps, TypeOK, Present
  <2> QED BY <2>1, <2>2, <2>3, <2>4 DEF Elsewhere
<1>4. Safe'
  BY <1>1, <1>3 DEF IInv, TypeOK, Safe, Keeps, Shaped, PreviewedIsApplied
<1>5. /\ dlg' # NoDialog => ~ inInput'
      /\ escArmed' => InMenu'
      /\ key'.line \in Command
  BY <1>1, <1>2, NoCmdFacts DEF TypeOK, InMenu
<1>6. others' \in 0..MaxOthers
  BY <1>1, <1>2, SessionAssumption DEF TypeOK
<1>7. OnYes /\ LosesTheNamed
  BY <1>1 DEF OnYes, Destroys, LosesTheNamed
<1> QED BY <1>4, <1>5, <1>6, <1>7, Reassemble

(* Every step keeps the invariant, and destroys nothing but what a "y" was said to and
   what was named.                                                               *)
LEMMA EveryStep ==
  ASSUME IInv, [Next]_vars
  PROVE  IInv' /\ [OnYes]_vars /\ [LosesTheNamed]_vars
<1>1. CASE Next
  <2>1. ASSUME NEW k \in Keys, Press(k) PROVE IInv' /\ OnYes /\ LosesTheNamed
    BY <2>1, DialogStep, ToggleStep, InputStep, QuietSteps, MenuStep DEF Press
  <2> QED BY <1>1, <2>1, QuietSteps, ElsewhereStep DEF Next
<1>2. CASE UNCHANGED vars
  <2>1. /\ UNCHANGED <<catalog, broken, litter, snaps, dlg, inInput, pane, escArmed, done,
                       key, others>>
    BY <1>2 DEF vars
  <2>2. TypeOK'
    BY <2>1 DEF IInv, TypeOK, Present, InMenu
  <2>3. Shaped(dlg)' /\ PreviewedIsApplied'
    BY <2>1 DEF IInv, Shaped, PreviewedIsApplied
  <2> QED BY <1>2, <2>2, <2>3 DEF IInv
<1> QED BY <1>1, <1>2

(* What every key keeps, of whatever flow. *)
THEOREM InductiveInvariant == Spec => []IInv
<1>1. Init => IInv
  <2> SUFFICES ASSUME Init PROVE IInv
    OBVIOUS
  <2>1. /\ catalog \in [Id -> {"never", "present", "gone"}] /\ broken \subseteq Present
        /\ litter \in BOOLEAN /\ snaps \subseteq Id /\ others \in 0..MaxOthers
        /\ ~ escArmed
    <3>1. catalog = [s \in Id |-> IF s \in Start THEN "present" ELSE "never"]
          /\ broken = {} /\ litter = FALSE /\ snaps \in {Start, {}} /\ others = 0
          /\ escArmed = FALSE
      BY DEF Init
    <3>2. Start \subseteq Id /\ MaxOthers \in Nat
      BY SessionAssumption
    <3>3. catalog \in [Id -> {"never", "present", "gone"}]
      BY <3>1
    <3>4. snaps \subseteq Id /\ others \in 0..MaxOthers
      BY <3>1, <3>2
    <3> QED BY <3>1, <3>3, <3>4
  <2>2. dlg = NoDialog /\ pane.cmd = NoCmd /\ key.line = NoCmd
    BY DEF Init, Closed
  <2>3. Shaped(dlg) /\ dlg.at = "none"
    BY <2>2, ShapedNone
  <2>4. TypeOK
    BY <2>1, <2>2, <2>3, NoCmdFacts DEF TypeOK, Shaped
  <2> QED BY <2>3, <2>4 DEF IInv, PreviewedIsApplied
<1> QED BY <1>1, EveryStep, PTL DEF Spec

(* The session, its dialogs and the catalog keep their types. *)
THEOREM TypeCorrect == Spec => []TypeOK
<1>1. IInv => TypeOK
  BY DEF IInv
<1> QED BY <1>1, InductiveInvariant, PTL

(* The question whether to apply a strategy that trusts names is asked over the output
   of its own dry run, whatever scope it was built for.                           *)
THEOREM PreviewsAreOfWhatIsApplied == Spec => []PreviewedIsApplied
<1>1. IInv => PreviewedIsApplied
  BY DEF IInv
<1> QED BY <1>1, InductiveInvariant, PTL

(* Nothing is destroyed but by a "y" to a question that says so, or by a line that says
   --yes: whatever flow, answers and lines, and however other processes race with it. *)
THEOREM DestroysOnlyOnYes == Spec => DestroysOnYes
<1>1. IInv /\ [Next]_vars => [OnYes]_vars
  BY EveryStep
<1> QED BY <1>1, InductiveInvariant, PTL DEF Spec, DestroysOnYes

(* The snapshots that go are the ones the user named, or broken ones repair found. *)
THEOREM DeletesOnlyTheNamed == Spec => DeletesTheNamed
<1>1. IInv /\ [Next]_vars => [LosesTheNamed]_vars
  BY EveryStep
<1> QED BY <1>1, InductiveInvariant, PTL DEF Spec, DeletesTheNamed
=============================================================================
