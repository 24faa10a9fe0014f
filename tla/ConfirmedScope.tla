--------------------------- MODULE ConfirmedScope ---------------------------
(***************************************************************************)
(* What a confirmation promises about one table: the operator is shown a   *)
(* destructive scope - whether the table may be truncated, and which row   *)
(* groups may be deleted and written again - and until the run ends only   *)
(* what is inside it happens.                                              *)
(***************************************************************************)
CONSTANT Groups

VARIABLES
  confirmed,   \* the operator has confirmed the run's plan
  full,        \* it showed a TRUNCATE
  groups,      \* the groups it showed as rewritten
  truncated, rewritten

vars == <<confirmed, full, groups, truncated, rewritten>>

Idle == confirmed = FALSE /\ full = FALSE /\ groups = {} /\ truncated = FALSE /\ rewritten = {}

Init == Idle

Confirm ==
  /\ ~confirmed /\ confirmed' = TRUE
  /\ full' \in BOOLEAN /\ groups' \in SUBSET Groups
  /\ UNCHANGED <<truncated, rewritten>>

Truncate ==
  /\ confirmed /\ full
  /\ truncated' = TRUE
  /\ UNCHANGED <<confirmed, full, groups, rewritten>>

Rewrite ==
  /\ confirmed
  /\ \E g \in groups : rewritten' = rewritten \cup {g}
  /\ UNCHANGED <<confirmed, full, groups, truncated>>

EndRun == confirmed /\ Idle'

Next == Confirm \/ Truncate \/ Rewrite \/ EndRun

Spec == Init /\ [][Next]_vars
=============================================================================
