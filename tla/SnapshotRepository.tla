-------------------------- MODULE SnapshotRepository --------------------------
(***************************************************************************)
(* What the object store promises to its users, with no files, rows, lock  *)
(* or processes: a catalog of immutable snapshots, and the set of          *)
(* referenced objects that can still be read back.  Only the environment   *)
(* (a failing disk, a file removed by hand) makes an object of a snapshot  *)
(* unreadable; no command of the tool does.                                *)
(***************************************************************************)
CONSTANTS Hash,      \* content hashes
          Snap,      \* snapshot identifiers
          Absent     \* catalog[s] = Absent: no such snapshot

VARIABLES catalog,   \* the object set of every stored snapshot
          readable,  \* the referenced objects whose bytes are intact
          damaged    \* the objects the environment has destroyed

vars == <<catalog, readable, damaged>>

Referenced(c) == UNION {c[s] : s \in {t \in Snap : c[t] # Absent}}

Init ==
  /\ catalog = [s \in Snap |-> Absent]
  /\ readable = {}
  /\ damaged = {}

(* A snapshot appears at once and complete.  An object it references may be
   unreadable only if the environment had destroyed it before.              *)
Commit(s, H) ==
  /\ catalog[s] = Absent
  /\ catalog' = [catalog EXCEPT ![s] = H]
  /\ readable' \in SUBSET Referenced(catalog')
  /\ readable \subseteq readable'
  /\ H \ readable' \subseteq damaged
  /\ UNCHANGED damaged

(* A snapshot disappears; every object another snapshot needs stays.  What no
   snapshot references any more is out of the promise.                      *)
Remove(s) ==
  /\ catalog[s] # Absent
  /\ catalog' = [catalog EXCEPT ![s] = Absent]
  /\ readable' = readable \cap Referenced(catalog')
  /\ UNCHANGED damaged

(* The environment destroys one object. *)
Damage(h) ==
  /\ readable' = readable \ {h}
  /\ damaged' = damaged \cup {h}
  /\ UNCHANGED catalog

(* An object's bytes are written again: by a capture that meets the same
   content, or by importing an archive that holds it.                       *)
Rewrite(h) ==
  /\ readable' = readable \cup ({h} \cap Referenced(catalog))
  /\ damaged' = damaged \ {h}
  /\ UNCHANGED catalog

(* An unreferenced object is dropped. *)
Forget(h) ==
  /\ h \notin Referenced(catalog)
  /\ damaged' = damaged \ {h}
  /\ UNCHANGED <<catalog, readable>>

Next ==
  \/ \E s \in Snap, H \in SUBSET Hash : Commit(s, H)
  \/ \E s \in Snap : Remove(s)
  \/ \E h \in Hash : Damage(h) \/ Rewrite(h) \/ Forget(h)

Spec == Init /\ [][Next]_vars
===============================================================================
