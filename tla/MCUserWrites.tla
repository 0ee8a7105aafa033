---------------------------- MODULE MCUserWrites ----------------------------
(* A note and a legacy conflict copy of it.                                 *)
EXTENDS UserWrites

CONSTANTS note, twin, a, b

Copied == [p \in Path |-> IF p = note THEN {twin} ELSE {}]

Resolving == INSTANCE Resolution WITH
  Outcome <- Content, state <- StateOf(note),
  approved <- ApprovedOf(note), history <- HistoryOf(note)

(* A conflict ends only as Resolution says: by a result that was approved   *)
(* and that the history then names; nothing else moves the history of a     *)
(* file in conflict (src/sync/conflict-apply.ts, conflict-review.ts).       *)
ImplementsResolution == Resolving!ResolutionSpec

(* The two contents are interchangeable: what the note holds at first may   *)
(* be called a.                                                             *)
NoteIsA == Init /\ local[note] # b /\ (~Known(local[note]) => local[twin] # b)

AnyNote == NoteIsA /\ [][Next]_vars /\ Fairness
=============================================================================
