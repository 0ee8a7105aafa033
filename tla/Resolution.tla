----------------------------- MODULE Resolution -----------------------------
(***************************************************************************)
(* What a conflict review promises, without the steps it takes: a recorded *)
(* conflict freezes the history of its path and ends in one way only, by a *)
(* result that was approved for it and that the history then names.  An    *)
(* approval holds until it is carried out or the sides have moved, which   *)
(* opens the review anew.                                                  *)
(***************************************************************************)
CONSTANTS Outcome, None

VARIABLES
  state,     \* "none", "open" or "approved"
  approved,  \* the approved result; None is the approved deletion
  history    \* the content that the history names, or None

resolution == <<state, approved, history>>

ResolutionInit == state = "none" /\ approved = None /\ history \in Outcome \cup {None}

(* Outside of reviews the history follows what is synced. *)
Synced ==
  /\ state = "none"
  /\ history' \in Outcome \cup {None}
  /\ UNCHANGED <<state, approved>>

Open ==
  /\ state = "none"
  /\ state' = "open"
  /\ UNCHANGED <<approved, history>>

Approval(r) ==
  /\ state = "open"
  /\ state' = "approved" /\ approved' = r
  /\ UNCHANGED history

Reopen ==
  /\ state = "approved"
  /\ state' = "open" /\ approved' = None
  /\ UNCHANGED history

Recorded ==
  /\ state = "approved"
  /\ history' = approved
  /\ UNCHANGED <<state, approved>>

Resolved ==
  /\ state = "approved" /\ history = approved
  /\ state' = "none" /\ approved' = None
  /\ UNCHANGED history

ResolutionNext ==
  \/ Synced \/ Open \/ Reopen \/ Recorded \/ Resolved
  \/ \E r \in Outcome \cup {None} : Approval(r)

ResolutionSpec == ResolutionInit /\ [][ResolutionNext]_resolution
=============================================================================
