------------------------------ MODULE Session ------------------------------
(***************************************************************************)
(* The full-screen session (internal/cli/tui.go, tui_rollback.go,          *)
(* tui_export.go, tui_path.go, status_menu.go): the key loop, its dialogs, *)
(* the flows of the menu, the gate in front of destructive commands and    *)
(* the expansion of what is typed to snapshot ids, over the commands they  *)
(* run (snapshot.go, maintenance.go, doctor.go, rollback.go, import.go)    *)
(*                                                                         *)
(* The session holds no lock between two commands: other processes change  *)
(* the catalog, and the list of snapshots it shows is the one it read      *)
(* after its last command.  One step is one key, with the command it runs. *)
(* Moving a cursor, scrolling, filtering and typing a line are left out: a *)
(* line is one of Lines when Enter is hit, a list answers any of its rows. *)
(* What a command does to objects and to the engine is in ObjectStore,     *)
(* Capture, Rollback and Archive; here it changes the catalog, or fails.   *)
(***************************************************************************)
EXTENDS Naturals, Sequences, FiniteSetsExt, SequencesExt

CONSTANTS Id,          \* snapshot ids
          Token,       \* what a user may type for one, the ids among them
          Match,       \* [Token -> SUBSET Id]: id prefix, or id or message substring
          Prefix,      \* [Token -> SUBSET Id]: id prefix
          Kinds,       \* the kinds of a rollback's scope, in the order asked
          Of,          \* [kind -> the names of that kind in a snapshot]
          All,         \* --all
          Lines,       \* the command lines users type
          Start,       \* the snapshots in the catalog at first
          MaxOthers    \* bound: changes other processes make

KindSet == Range(Kinds)
Thing   == UNION {Of[k] : k \in KindSet}
Destructive == {"delete", "prune", "rollback", "repair", "apply"}

\* form: plain, with the program's name in front ("named"), or with a flag in front
\* or written flag=value, which hides the command from the gate ("masked").
\* slot: the ids stand where expandSnapArgs looks for them.
Command == [name : {"none", "read", "snapshot", "doctor", "import"} \cup Destructive,
            toks : SUBSET Token, scope : SUBSET (Thing \cup {All}),
            strategy : {"restore", "current", "missing"},
            yes : BOOLEAN, dry : BOOLEAN,
            form : {"plain", "named", "masked"}, slot : BOOLEAN]

ASSUME SessionAssumption ==
  /\ Id \subseteq Token /\ Start \subseteq Id
  /\ Match \in [Token -> SUBSET Id] /\ Prefix \in [Token -> SUBSET Id]
  /\ \A t \in Token : Prefix[t] \subseteq Match[t]
  /\ \A s \in Id : Prefix[s] = {s}   \* ids have one length (newSnapshotID)
  /\ Kinds \in Seq(KindSet) /\ "containers" \in KindSet /\ All \notin Thing
  /\ DOMAIN Of = KindSet /\ Lines \subseteq Command /\ MaxOthers \in Nat

VARIABLES
  catalog,   \* [Id -> "never", "present" or "gone"]
  broken,    \* the present snapshots that miss an object
  litter,    \* whether the store holds what no snapshot refers to
  snaps,     \* the list of snapshots the session shows
  dlg,       \* the dialog on top
  inInput,   \* whether a ':' line is being typed
  pane,      \* the command whose output is shown, and how it ended
  escArmed, done,
  key,       \* history: the key of the last step, the line it entered
  others     \* changes other processes made

store == <<catalog, broken, litter>>
vars == <<catalog, broken, litter, snaps, dlg, inInput, pane, escArmed, done, key, others>>

Present == {s \in Id : catalog[s] = "present"}

Cmd(name, toks) ==
  [name |-> name, toks |-> toks, scope |-> {}, strategy |-> "restore",
   yes |-> FALSE, dry |-> FALSE, form |-> "plain", slot |-> TRUE]
NoCmd == Cmd("none", {})

NoLists == [x \in Thing |-> "unlisted"]
Dialog(at, kind, items, cmd) ==
  [at |-> at, kind |-> kind, items |-> items, on |-> {}, def |-> FALSE,
   cmd |-> cmd, lists |-> NoLists, left |-> <<>>]
NoDialog == Dialog("none", "none", {}, NoCmd)

Closed == [cmd |-> NoCmd, what |-> "closed"]

----------------------------------------------------------------------------
(* Commands: the store opens or is locked by another process, the engine   *)
(* answers or does not; a failure, and a plan without steps, leave all as  *)
(* it was.  The pane tells how a command ended; confirm() declines inside  *)
(* the session.                                                            *)

\* GetSnapshot: the exact id, or the one id in the catalog with this prefix.
Resolve(t) == IF t \in Present THEN {t} ELSE Prefix[t] \cap Present

Ends(c, what) == pane' = [cmd |-> c, what |-> what]

Fails(c) == Ends(c, "failed") /\ UNCHANGED store

Read(c) == c.name = "read" /\ Ends(c, "done") /\ UNCHANGED store

\* A new snapshot enters the catalog: a capture, or the checkpoint of a rollback.
Enters(s) == catalog' = [catalog EXCEPT ![s] = "present"]

Snapshot(c) ==
  /\ c.name = "snapshot"
  /\ \E s \in Id : catalog[s] = "never" /\ Enters(s)
  /\ Ends(c, "done") /\ UNCHANGED <<broken, litter>>

Drop(gone) ==
  /\ catalog' = [s \in Id |-> IF s \in gone THEN "gone" ELSE catalog[s]]
  /\ broken' = broken \ gone

\* Every name is resolved before anything is deleted; each deletion may fail.
Delete(c) ==
  /\ c.name = "delete"
  /\ \A t \in c.toks : \E s \in Id : Resolve(t) = {s}
  /\ \/ ~c.yes /\ Ends(c, "declined") /\ UNCHANGED store
     \/ /\ c.yes
        /\ \E gone \in SUBSET UNION {Resolve(t) : t \in c.toks} :
             /\ Drop(gone)
             /\ litter' \in IF gone = {} THEN {litter} ELSE {litter, TRUE}
        /\ Ends(c, "done")

Prune(c) ==
  /\ c.name = "prune"
  /\ UNCHANGED <<catalog, broken>>
  /\ IF litter /\ ~c.yes THEN Ends(c, "declined") /\ UNCHANGED litter
     ELSE litter' \in {litter, FALSE} /\ Ends(c, "done")

Problems == broken # {} \/ litter

Doctor(c) ==
  /\ c.name = "doctor"
  /\ Ends(c, IF Problems THEN "problems" ELSE "done") /\ UNCHANGED store

\* Every fix is asked for; the broken snapshots go, each fix may fail.
Repair(c) ==
  /\ c.name = "repair"
  /\ IF c.yes THEN /\ \E gone \in SUBSET broken : Drop(gone)
                   /\ litter' \in {litter, FALSE}
              ELSE UNCHANGED store
  /\ Ends(c, IF c.yes \/ ~Problems THEN "done" ELSE "declined")

HasContainers(scope) == \/ All \in scope
                        \/ scope \cap Of["containers"] # {}

\* The plan of a scope: none without one, nor by names without containers alone.
Plannable(c) ==
  /\ c.scope # {}
  /\ c.strategy # "restore" =>
       HasContainers(c.scope) /\ c.scope \ {All} \subseteq Of["containers"]

\* A checkpoint is captured before the question.
Applies(c) ==
  /\ \E s \in Id : catalog[s] = "never" /\ Enters(s)
  /\ Ends(c, IF c.yes THEN "restored" ELSE "declined")

Rollback(c) ==
  /\ c.name = "rollback"
  /\ Plannable(c)
  /\ \E t \in c.toks, s \in Id \ broken : Resolve(t) = {s}
  /\ UNCHANGED <<broken, litter>>
  /\ \/ c.dry /\ Ends(c, "plan") /\ UNCHANGED catalog
     \/ ~c.dry /\ Applies(c)

\* The snapshot of the archive enters the catalog if it is not there; then --apply
\* is a rollback to all of it.
Import(c) ==
  /\ c.name \in {"import", "apply"}
  /\ \E s \in Id :
       /\ broken' \in {broken, broken \ {s}}
       /\ UNCHANGED litter
       /\ \/ Enters(s) /\ Ends(c, "imported")
          \/ /\ c.name = "apply"
             /\ \E p \in Id \ {s} :
                  /\ catalog[p] = "never"
                  /\ catalog' = [catalog EXCEPT ![s] = "present", ![p] = "present"]
             /\ Ends(c, IF c.yes THEN "restored" ELSE "declined")

RunArgs(c) ==
  \/ Fails(c) \/ Read(c) \/ Snapshot(c) \/ Delete(c) \/ Prune(c)
  \/ Doctor(c) \/ Repair(c) \/ Rollback(c) \/ Import(c)

----------------------------------------------------------------------------
(* Running a command from the session. *)

Expands(c) == /\ c.form # "masked"
              /\ c.name = "delete" \/ (c.slot /\ c.name \in {"read", "rollback"})

(* Faulty: the first of several matches will do. *)
ExpandFirst(t) == LET m == Match[t] \cap snaps IN
  IF t \in snaps THEN {t} ELSE IF m = {} THEN {} ELSE {CHOOSE s \in m : TRUE}

\* A token: an id of the list, or the only snapshot of the list it matches.
Expand(t) == IF t \in snaps THEN {t} ELSE Match[t] \cap snaps

Unclear(c) == Expands(c) /\ \E t \in c.toks : \A s \in Id : Expand(t) # {s}

Expanded(c) ==
  IF Expands(c) THEN [c EXCEPT !.toks = UNION {Expand(t) : t \in c.toks}] ELSE c

\* The list is empty when it cannot be read.
Refresh == snaps' \in {Present', {}}

DoExec(c) ==
  IF c.name = "none" \/ Unclear(c) THEN UNCHANGED <<store, pane, snaps>>
  ELSE RunArgs(Expanded(c)) /\ Refresh

\* The gate knows a command by its first word or an exact flag.
Stripped(c) == IF c.form = "named" THEN [c EXCEPT !.form = "plain"] ELSE c

Gated(c) == c.form # "masked" /\ c.name \in Destructive /\ ~c.yes

\* --yes goes in front of the arguments.
Forced(c) == [c EXCEPT !.yes = TRUE, !.slot = @ /\ c.name # "rollback"]

\* What answering does: a command to run, then a dialog to show.
Then(c, d) == {[run |-> c, ask |-> d]}
Ask(d) == Then(NoCmd, d)
Leave  == Ask(NoDialog)
Do(c)  == Then(c, NoDialog)
Question(at, c) == Dialog(at, "bool", {}, c)
DefaultYes(d) == [d EXCEPT !.def = TRUE]

Exec(c) == IF Gated(Stripped(c)) THEN Ask(Question("run", Stripped(c)))
                                 ELSE Do(Stripped(c))

----------------------------------------------------------------------------
(* Flows that end in a command that destroys nothing, as rows of a table:  *)
(* at this dialog, this answer leads to that dialog, runs the command or   *)
(* ends the flow.  An answer with several rows depends on what the store   *)
(* or a file holds, or on whether it can be read.  Esc ends a flow unless  *)
(* a row says otherwise, and a row of a picker adds its id to the command. *)
StatusRows == {
  <<"deepStatus", "no", "run">>, <<"deepStatus", "yes", "run">>,
  <<"deepStatus", "yes", "leave">>, <<"deepStatus", "yes", "statusVolumes">>,
  <<"statusVolumes", "none", "statusVolumes">>, <<"statusVolumes", "some", "run">>}

SnapshotRows == {
  <<"message", "text", "stopFirst">>,
  <<"stopFirst", "yes", "run">>, <<"stopFirst", "no", "run">>,
  <<"show", "row", "run">>, <<"diffFrom", "row", "diffTo">>,
  <<"diffTo", "row", "run">>, <<"diffTo", "esc", "run">>}

ExportRows == {
  <<"export", "row", "what">>, <<"export", "row", "leave">>,
  <<"what", "snapshot", "outputPath">>, <<"outputPath", "text", "run">>,
  <<"what", "volume", "volume">>, <<"volume", "name", "run">>,
  <<"what", "pathOrRaw", "volumeOfPath">>, <<"what", "image", "image">>,
  <<"volumeOfPath", "name", "topFolder">>, <<"volumeOfPath", "name", "pathInside">>,
  <<"volumeOfPath", "name", "leave">>}

FolderRows == {
  <<"topFolder", "manual", "pathInside">>, <<"topFolder", "dir", "folder">>,
  <<"topFolder", "select", "run">>,
  <<"folder", "manual", "pathInside">>, <<"folder", "dir", "folder">>,
  <<"folder", "select", "run">>, <<"folder", "up", "folder">>, <<"folder", "up", "topFolder">>,
  <<"pathInside", "text", "run">>, <<"pathInside", "empty", "leave">>}

ImageRows == {<<"image", "name", "run">>}

FilesRows == {
  <<"files", "row", "filesOfVolume">>, <<"files", "row", "leave">>,
  <<"filesOfVolume", "name", "prefix">>,
  <<"prefix", "text", "run">>, <<"prefix", "empty", "run">>}

ArchiveRows == {
  <<"archive", "list", "run">>, <<"archive", "showOrVerify", "whichArchive">>,
  <<"archive", "showOrVerify", "archivePath">>,
  <<"archive", "files", "whichArchiveToList">>, <<"archive", "files", "pathToList">>,
  <<"whichArchive", "name", "archivePath">>,
  <<"whichArchiveToList", "name", "pathToList">>,
  <<"archivePath", "text", "run">>, <<"archivePath", "empty", "leave">>,
  <<"pathToList", "text", "filesOfVolume">>, <<"pathToList", "text", "leave">>,
  <<"pathToList", "empty", "leave">>}

ConfigRows == {
  <<"config", "show", "run">>, <<"config", "unset", "run">>, <<"config", "set", "directory">>,
  <<"directory", "text", "run">>, <<"directory", "empty", "leave">>}

ImportRows == {
  <<"import", "name", "importPath">>,
  <<"importPath", "text", "applyAfter">>, <<"importPath", "empty", "leave">>}

Reading == UNION {StatusRows, SnapshotRows, ExportRows, FolderRows, ImageRows, FilesRows,
                  ArchiveRows, ConfigRows, ImportRows}

Rows(at) == {e[2] : e \in {r \in Reading : r[1] = at}} \ {"esc"}

KindOf(at) == IF "row" \in Rows(at) THEN "pick"
              ELSE IF "yes" \in Rows(at) THEN "bool"
              ELSE IF Rows(at) \cap {"text", "empty"} # {} THEN "text"
              ELSE "list"

Show(at, c) ==
  IF at = "applyAfter" THEN Question(at, c) ELSE Dialog(at, KindOf(at), Rows(at), c)

AfterReading(d, ok, val) ==
  LET picked == ok /\ d.kind = "pick"
      answer == IF ~ok THEN "esc"
                ELSE IF picked THEN "row"
                ELSE IF d.kind = "bool" THEN (IF val THEN "yes" ELSE "no")
                ELSE val
      c      == IF picked THEN [d.cmd EXCEPT !.toks = @ \cup {val}] ELSE d.cmd
      next   == {e[3] : e \in {r \in Reading : r[1] = d.at /\ r[2] = answer}}
  IN IF next = {} THEN Leave
     ELSE UNION {CASE n = "run"   -> Exec(c)
                   [] n = "leave" -> Leave
                   [] OTHER       -> Ask(Show(n, c)) : n \in next}

----------------------------------------------------------------------------
(* The flows that end in a command that destroys. *)

\* The boxes of the deletion checklist start empty.
AskDelete == Ask(Dialog("delete", "check", snaps, Cmd("delete", {})))

(* Faulty: the checklist is taken for the confirmation. *)
AfterDeleteUnasked(d, val) ==
  IF val = {} THEN AskDelete ELSE Do([d.cmd EXCEPT !.toks = val, !.yes = TRUE])

AfterDelete(d, val) ==
  IF val = {} THEN AskDelete ELSE Ask(Question("deleteAll", [d.cmd EXCEPT !.toks = val]))

\* What the scope menu lists: the names of a kind that are there or gone.
Lists == [Thing -> {"unlisted", "listed", "gone"}]

ScopeMenu(c, L) == [Dialog("scope", "list", {All} \cup KindSet, c) EXCEPT !.lists = L]

Checklist(c, names, L) ==
  [Dialog("names", "check", names, c) EXCEPT
     !.lists = L, !.on = {x \in names : L[x] = "gone"}]

AskPreview(c) == Ask(DefaultYes(Question("preview", c)))

(* Faulty: the preview leaves the strategy's flag out. *)
PreviewOrdinary(c) ==
  Then([c EXCEPT !.dry = TRUE, !.strategy = "restore"], Question("apply", c))

\* A dry run of the same scope, strategy and snapshot, then the question.
Preview(c) == Then([c EXCEPT !.dry = TRUE], Question("apply", c))

WithScope(c) ==
  IF c.scope = {} THEN Leave
  ELSE IF ~HasContainers(c.scope) THEN AskPreview(c)
  ELSE Ask(Dialog("strategy", "list", {"restore", "current", "missing"}, c))

AskKinds(c, kinds) ==
  IF kinds = <<>> THEN WithScope(c)
  ELSE Ask([Question("anyOfKind", c) EXCEPT !.left = kinds])

\* The live state is compared, or cannot be: then names are asked for.
AskScope(id) ==
  LET c == [Cmd("rollback", {id}) EXCEPT !.slot = FALSE]
  IN Ask(DefaultYes(Question("everything", c))) \cup UNION {Ask(ScopeMenu(c, L)) : L \in Lists}

AfterScope(d, val) ==
  IF val = All THEN WithScope([d.cmd EXCEPT !.scope = {All}])
  ELSE LET names == {x \in Of[val] : d.lists[x] # "unlisted"}
       IN IF names = {} THEN Ask(d) ELSE Ask(Checklist(d.cmd, names, d.lists))

AfterNames(d, val) ==
  IF val = {} THEN Ask(Checklist(d.cmd, d.items, d.lists))
  ELSE WithScope([d.cmd EXCEPT !.scope = val])

AfterStrategy(d, val) ==
  LET c == [d.cmd EXCEPT !.strategy = val]
  IN IF val = "restore" THEN AskPreview(c) ELSE Preview(c)

\* Names are asked for kind by kind.
ScopeAnswer(d, val) ==
  IF d.at = "everything"
  THEN IF val THEN WithScope([d.cmd EXCEPT !.scope = {All}]) ELSE AskKinds(d.cmd, Kinds)
  ELSE IF val
  THEN Ask([Dialog("kindNames", "names", Of[Head(d.left)], d.cmd) EXCEPT !.left = d.left])
  ELSE AskKinds(d.cmd, Tail(d.left))

\* The check runs at once; "repair" carries --yes.
DoctorAnswer(d, val) ==
  IF d.at = "deep"
  THEN Then(d.cmd, Question("repair", [Cmd("repair", {}) EXCEPT !.yes = TRUE]))
  ELSE IF val THEN Do(d.cmd) ELSE Leave

RollbackAnswer(d, val) ==
  IF d.at = "preview"
  THEN IF val THEN Preview(d.cmd) ELSE Ask(Question("apply", d.cmd))
  ELSE IF val THEN Do(Forced(d.cmd)) ELSE Leave

\* --apply goes through the gate, which asks again.
ImportAnswer(d, val) == Exec(IF val THEN [d.cmd EXCEPT !.name = "apply"] ELSE d.cmd)

DeleteAnswer(d, val) == IF val THEN Exec([d.cmd EXCEPT !.yes = TRUE]) ELSE Leave

GateAnswer(d, val) == IF val THEN Do(Forced(d.cmd)) ELSE Leave

\* A yes or no question, val the answer.
AfterQuestion(d, val) ==
  CASE d.at \in {"everything", "anyOfKind"} -> ScopeAnswer(d, val)
    [] d.at \in {"deep", "repair"}            -> DoctorAnswer(d, val)
    [] d.at \in {"preview", "apply"}          -> RollbackAnswer(d, val)
    [] d.at = "applyAfter"                   -> ImportAnswer(d, val)
    [] d.at = "deleteAll"                    -> DeleteAnswer(d, val)
    [] d.at = "run"                           -> GateAnswer(d, val)

(* Faulty: Esc shows the scope menu again from the scope menu too. *)
CancelledBack(d) ==
  IF d.at \in {"names", "scope"} THEN Ask(ScopeMenu(d.cmd, d.lists)) ELSE Leave

\* Esc leaves the flow, except from a checklist of names and the second diff picker.
Cancelled(d) == IF d.at = "names" THEN Ask(ScopeMenu(d.cmd, d.lists)) ELSE Leave

After(d, ok, val) ==
  IF \E r \in Reading : r[1] = d.at THEN AfterReading(d, ok, val)
  ELSE IF ~ok THEN Cancelled(d)
  ELSE IF d.kind = "bool" THEN AfterQuestion(d, val)
  ELSE CASE d.at = "delete"      -> AfterDelete(d, val)
         [] d.at = "rollback"    -> AskScope(val)
         [] d.at = "scope"       -> AfterScope(d, val)
         [] d.at = "names"       -> AfterNames(d, val)
         [] d.at = "kindNames"  -> AskKinds([d.cmd EXCEPT !.scope = @ \cup val], Tail(d.left))
         [] d.at = "strategy"    -> AfterStrategy(d, val)

Menu ==
  {Exec(Cmd("read", {})), Exec(Cmd("prune", {})), AskDelete,
   Ask(Show("message", Cmd("snapshot", {}))),
   Ask(Show("import", Cmd("import", {}))), Ask(Show("importPath", Cmd("import", {}))),
   Ask(Dialog("rollback", "pick", {}, Cmd("rollback", {}))),
   Ask(Question("deep", Cmd("doctor", {})))}
  \cup {Ask(Show(at, Cmd("read", {}))) : at \in {"deepStatus", "show", "diffFrom", "export",
                                                 "files", "archive", "config"}}

----------------------------------------------------------------------------
(* Keys.  One that changes nothing is a stuttering step. *)

Hit(k, l) == ~done /\ key' = [k |-> k, line |-> l]

\* What a key answers at a dialog: whether it goes on, and with which value.
Answers(d, k) ==
  LET Goes(vals) == {[ok |-> TRUE, val |-> v] : v \in vals}
  IN CASE k = "esc" -> {[ok |-> FALSE, val |-> FALSE]}
       [] k = "y" /\ d.kind = "bool" -> Goes({TRUE})
       [] k = "n" /\ d.kind = "bool" -> Goes({FALSE})
       [] k = "enter" /\ d.kind = "bool"  -> Goes({d.def})
       [] k = "enter" /\ d.kind = "pick"  -> Goes(snaps)
       [] k = "enter" /\ d.kind \in {"list", "text"} -> Goes(d.items)
       [] k = "enter" /\ d.kind = "check" /\ d.items # {} -> Goes({d.on})
       [] k = "enter" /\ d.kind = "names" -> Goes(SUBSET d.items)
       [] OTHER -> {}

\* The command runs, then the dialog shows; repair is offered if the check's output
\* says problems were found.
Perform(o) ==
  /\ DoExec(o.run)
  /\ dlg' = IF o.ask.at = "repair" /\ pane'.what # "problems" THEN NoDialog ELSE o.ask

DialogKey(k) ==
  /\ dlg # NoDialog
  /\ Hit(k, NoCmd)
  /\ \E a \in Answers(dlg, k) : \E o \in After(dlg, a.ok, a.val) : Perform(o)
  /\ UNCHANGED <<inInput, escArmed, done, others>>

\* Space flips one box; "a" clears all of them if any is checked, else checks all.
Toggle(k) ==
  /\ dlg.kind = "check" /\ k \in {"space", "a"}
  /\ Hit(k, NoCmd)
  /\ \/ k = "space" /\ \E x \in dlg.items : dlg' = [dlg EXCEPT !.on = SymDiff(@, {x})]
     \/ k = "a" /\ dlg' = [dlg EXCEPT !.on = IF @ = {} THEN dlg.items ELSE {}]
  /\ UNCHANGED <<store, snaps, inInput, pane, escArmed, done, others>>

(* Faulty: the line stays open behind what it runs. *)
InputKeyOpen(k) ==
  /\ dlg = NoDialog /\ inInput
  /\ inInput' = (k # "esc")
  /\ \/ k = "esc" /\ Hit(k, NoCmd) /\ Perform([run |-> NoCmd, ask |-> NoDialog])
     \/ k = "enter" /\ \E l \in Lines : Hit(k, l) /\ \E o \in Exec(l) : Perform(o)
  /\ UNCHANGED <<escArmed, done, others>>

InputKey(k) ==
  /\ dlg = NoDialog /\ inInput
  /\ inInput' = FALSE
  /\ \/ k = "esc" /\ Hit(k, NoCmd) /\ Perform([run |-> NoCmd, ask |-> NoDialog])
     \/ k = "enter" /\ \E l \in Lines : Hit(k, l) /\ \E o \in Exec(l) : Perform(o)
  /\ UNCHANGED <<escArmed, done, others>>

OutputKey(k) ==
  /\ dlg = NoDialog /\ ~inInput /\ pane # Closed
  /\ Hit(k, NoCmd)
  /\ \/ k \in {"esc", "enter", "q"} /\ pane' = Closed /\ UNCHANGED inInput
     \/ k = ":" /\ inInput' = TRUE /\ UNCHANGED pane
  /\ UNCHANGED <<store, snaps, dlg, escArmed, done, others>>

InMenu == dlg = NoDialog /\ ~inInput /\ pane = Closed

MenuKey(k) ==
  /\ InMenu
  /\ Hit(k, NoCmd)
  /\ \/ /\ k = "enter"
        /\ \E m \in Menu : \E o \in m : Perform(o)
        /\ escArmed' = FALSE /\ UNCHANGED <<inInput, done>>
     \/ /\ k \in {"esc", "q", ":", "other"}
        /\ escArmed' = (k = "esc")
        /\ done' = (k = "q" \/ (k = "esc" /\ escArmed))
        /\ inInput' = (k = ":")
        /\ UNCHANGED <<store, snaps, dlg, pane>>
  /\ UNCHANGED others

Press(k) == DialogKey(k) \/ Toggle(k) \/ InputKey(k) \/ OutputKey(k) \/ MenuKey(k)

EscKey == Press("esc")

\* Ctrl-C, or the end of the input.
Quit == /\ Hit("quit", NoCmd) /\ done' = TRUE
        /\ UNCHANGED <<store, snaps, dlg, inInput, pane, escArmed, others>>

\* Another process captures, imports or deletes a snapshot, dies in a capture and
\* leaves its objects, or an object is lost.
Elsewhere ==
  /\ others < MaxOthers /\ others' = others + 1
  /\ ~done /\ key' = [k |-> "none", line |-> NoCmd]
  /\ \/ \E s \in Id : catalog[s] # "present" /\ Enters(s) /\ UNCHANGED <<broken, litter>>
     \/ \E s \in Present : Drop({s}) /\ UNCHANGED litter
     \/ \E s \in Present : broken' = broken \cup {s} /\ UNCHANGED <<catalog, litter>>
     \/ litter' = TRUE /\ UNCHANGED <<catalog, broken>>
  /\ UNCHANGED <<snaps, dlg, inInput, pane, escArmed, done>>

Keys == {"esc", "enter", "y", "n", "space", "a", "q", ":", "other"}

Init ==
  /\ catalog = [s \in Id |-> IF s \in Start THEN "present" ELSE "never"]
  /\ broken = {} /\ litter = FALSE
  /\ snaps \in {Start, {}}
  /\ dlg = NoDialog /\ inInput = FALSE /\ pane = Closed
  /\ escArmed = FALSE /\ done = FALSE
  /\ key = [k |-> "none", line |-> NoCmd]
  /\ others = 0

Next == Quit \/ Elsewhere \/ \E k \in Keys : Press(k)

Spec == Init /\ [][Next]_vars

\* The fairness is the user's: one who wants to leave hits Esc again.
Leaving == Spec /\ WF_vars(EscKey)

----------------------------------------------------------------------------
(* Properties. *)

\* The shape of the state.  A dialog hides the input line, an armed Esc is only
\* armed in the menu, and what the store misses is in its catalog.
TypeOK ==
  /\ catalog \in [Id -> {"never", "present", "gone"}]
  /\ broken \subseteq Present /\ litter \in BOOLEAN
  /\ snaps \subseteq Id
  /\ dlg.on \subseteq dlg.items /\ dlg.cmd \in Command /\ dlg.lists \in Lists
  /\ dlg # NoDialog => ~inInput
  /\ escArmed => InMenu
  /\ pane.cmd \in Command /\ key.line \in Command
  /\ others \in 0..MaxOthers

\* The questions that name what is about to be destroyed.
FinalQuestions == {"run", "deleteAll", "apply", "repair"}

\* Whether a step of the session destroyed something: snapshots or objects gone,
\* or a rollback begun.
Destroys == /\ key'.k # "none"
            /\ \/ ~(Present \subseteq Present')
               \/ litter /\ ~litter'
               \/ pane' # pane /\ pane'.what = "restored"

\* Snapshots, objects and the engine are only touched by a "y" to a question that
\* says so, or by a typed line that says --yes itself: no run of Enter and Esc, no
\* default and no race with another process gets there.  And such a "y" is never
\* lost: the command it runs does not stop at a prompt nobody sees
\* (confirmDestructive, tui.go; confirm, root.go).
OnYes ==
  /\ Destroys => \/ key'.k = "y" /\ dlg.at \in FinalQuestions
                 \/ key'.k = "enter" /\ key'.line.yes
  /\ (key'.k = "y" /\ dlg.at \in FinalQuestions /\ pane' # pane)
       => pane'.cmd.yes /\ pane'.what # "declined"

DestroysOnYes == [][OnYes]_vars

\* Whether the session takes t for the snapshot s: as the list it shows has it, or
\* as the catalog has it where the line keeps expandSnapArgs out.
Means(c, t, s) ==
  IF c.form = "masked" THEN Resolve(t) = {s}
  ELSE s = t \/ (t \notin snaps /\ Match[t] \cap snaps = {s})

\* The snapshots that go are those the user named: checked in the list, the only one
\* of the list a typed token matches, or what repair found broken, whatever other
\* processes did since the list was read; and none goes if a name has become wrong
\* (expandSnapArgs, tui.go; deleteCmd, snapshot.go).
Named(c, lost) ==
  \/ c.name = "repair" /\ lost \subseteq broken
  \/ /\ c.name = "delete"
     /\ \A s \in lost : \E t \in c.toks : Means(c, t, s)
     /\ \A t \in c.toks : \E s \in Present : Means(c, t, s)

LosesTheNamed ==
  LET lost == Present \ Present'
      c    == IF dlg # NoDialog THEN dlg.cmd ELSE key'.line
  IN key'.k # "none" /\ lost # {} => Named(c, lost)

DeletesTheNamed == [][LosesTheNamed]_vars

\* "Name-trusting strategies always preview": when the menu asks whether to apply
\* one, the output shown is that of the dry run of exactly the command a "y" runs
\* (rollbackFinish, tui_rollback.go).
PreviewedIsApplied ==
  dlg.at = "apply" /\ dlg.cmd.strategy # "restore" =>
    pane.cmd = [dlg.cmd EXCEPT !.dry = TRUE]

\* What a dialog is, by where it is in its flow.  Every flow builds its command bit by
\* bit, and none but the offer to repair holds one that says --yes already.
Steps     == {r[1] : r \in Reading}
Questions == FinalQuestions \cup {"everything", "anyOfKind", "deep", "preview", "applyAfter"}
Scoping   == {"everything", "anyOfKind", "kindNames", "scope", "names", "strategy", "preview"}

Shaped(d) ==
  /\ DOMAIN d = DOMAIN NoDialog
  /\ d.at \in {"none", "delete", "rollback"} \cup Steps \cup Questions \cup Scoping
  /\ d.cmd \in Command /\ d.cmd.form = "plain" /\ (d.cmd.yes <=> d.at = "repair")
  /\ d.lists \in Lists /\ d.on \subseteq d.items /\ d.def \in BOOLEAN
  /\ d.at = "none" => d = NoDialog
  /\ d.at \in Steps => d.kind = KindOf(d.at) /\ d.items = Rows(d.at)
  /\ d.at \in Questions => d.kind = "bool"
  /\ d.at \in FinalQuestions => d.def = FALSE
  /\ d.at = "rollback" => d.kind = "pick"
  /\ d.at = "delete" => d.kind = "check" /\ d.items \subseteq Id
  /\ d.at = "scope" => d.kind = "list" /\ d.items = {All} \cup KindSet
  /\ d.at = "names" => d.kind = "check" /\ d.items \subseteq Thing
  /\ d.at = "kindNames" => d.kind = "names" /\ d.items \subseteq Thing
  /\ d.at \in {"anyOfKind", "kindNames"} => d.left \in Seq(KindSet) /\ d.left # <<>>
  /\ d.at = "strategy" => d.kind = "list" /\ d.items = {"restore", "current", "missing"}
  /\ d.at \in Scoping \cup {"apply"} => d.cmd.name = "rollback" /\ ~d.cmd.slot
  /\ d.at \in Scoping => d.cmd.strategy = "restore"

IInv == TypeOK /\ Shaped(dlg) /\ PreviewedIsApplied

\* A user who from some point on hits nothing but Esc gets out: no dialog comes back
\* forever, whatever flow it was reached by and whatever it restored the checks of.
EscLeaves == <>[][EscKey \/ Elsewhere]_vars => <>done
=============================================================================
