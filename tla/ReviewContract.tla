--------------------------- MODULE ReviewContract ---------------------------
(***************************************************************************)
(* What the review of one event promises to the worker that runs it,       *)
(* without agents, check runs or answers of GitHub: it posts at most once; *)
(* it posts findings only if a model was asked; no model is asked once the *)
(* review is superseded; and it may end at any point.  A superseded review *)
(* may still post: nothing is promised about that.                         *)
(***************************************************************************)

VARIABLES
  superseded,   (* the cancel event is set                                   *)
  phase,        (* opening, reviewing, posting, closing, over                *)
  asked,        (* a model has been called                                   *)
  draft,        (* what is being posted                                      *)
  says          (* what has been posted                                      *)

contractVars == <<superseded, phase, asked, draft, says>>

Init ==
  /\ superseded = FALSE
  /\ phase = "opening"
  /\ asked = FALSE
  /\ draft = "none"
  /\ says = "nothing"

Supersede == superseded' = TRUE /\ UNCHANGED <<phase, asked, draft, says>>

(* The review goes on to its agents, at once to its post, or gives up.     *)
Open ==
  /\ phase = "opening"
  /\ phase' \in {"reviewing", "posting", "closing", "over"}
  /\ asked' \in {FALSE, phase' = "reviewing" /\ ~superseded}
  /\ UNCHANGED <<superseded, draft, says>>

(* An agent, which may be one left behind, calls its model.                *)
Ask ==
  /\ phase # "opening"
  /\ ~superseded
  /\ asked' = TRUE
  /\ UNCHANGED <<superseded, phase, draft, says>>

Answer ==
  /\ phase = "reviewing"
  /\ \/ phase' = "posting" /\ draft' \in {"none"} \cup (IF asked THEN {"findings"} ELSE {})
     \/ phase' \in {"closing", "over"} /\ UNCHANGED draft
  /\ UNCHANGED <<superseded, asked, says>>

Post ==
  /\ phase = "posting"
  /\ says' \in {says, draft}
  /\ phase' \in {"closing", "over"}
  /\ draft' = "none"
  /\ UNCHANGED <<superseded, asked>>

Close ==
  /\ phase \in {"opening", "reviewing", "closing"}
  /\ phase' = "over"
  /\ UNCHANGED <<superseded, asked, draft, says>>

Next == Supersede \/ Open \/ Ask \/ Answer \/ Post \/ Close

Spec == Init /\ [][Next]_contractVars
=============================================================================
