------------------------------ MODULE JobBoard ------------------------------
(***************************************************************************)
(* What the worker pool promises, without queue, workers or tokens: jobs   *)
(* are accepted while the pool is open and at most Capacity wait, they are *)
(* handed out once each, in the order they were accepted, at most Width at *)
(* a time; a job handed out is finished once, or dropped by a closing pool;*)
(* a pool that closes without giving up has finished everything.           *)
(***************************************************************************)
EXTENDS Integers, FiniteSets

CONSTANTS Capacity, Width

VARIABLES
  open,       (* the pool accepts jobs                                       *)
  gaveUp,     (* the pool stopped waiting for work to finish                 *)
  accepted,   (* jobs 1..accepted have been accepted                         *)
  handedOut,  (* jobs 1..handedOut have been handed out                      *)
  inHand,     (* handed out and not yet ended                                *)
  done        (* finished                                                    *)

boardVars == <<open, gaveUp, accepted, handedOut, inHand, done>>

Init ==
  /\ open = FALSE
  /\ gaveUp = FALSE
  /\ accepted = 0
  /\ handedOut = 0
  /\ inHand = {}
  /\ done = {}

Open ==
  /\ accepted = 0
  /\ open' = TRUE
  /\ UNCHANGED <<gaveUp, accepted, handedOut, inHand, done>>

Accept ==
  /\ open
  /\ accepted - handedOut < Capacity
  /\ accepted' = accepted + 1
  /\ UNCHANGED <<open, gaveUp, handedOut, inHand, done>>

HandOut ==
  /\ ~gaveUp
  /\ handedOut < accepted
  /\ Cardinality(inHand) < Width
  /\ handedOut' = handedOut + 1
  /\ inHand' = inHand \cup {handedOut + 1}
  /\ UNCHANGED <<open, gaveUp, accepted, done>>

Finish(j) ==
  /\ j \in inHand
  /\ ~gaveUp
  /\ inHand' = inHand \ {j}
  /\ done' = done \cup {j}
  /\ UNCHANGED <<open, gaveUp, accepted, handedOut>>

Close ==
  /\ open
  /\ open' = FALSE
  /\ UNCHANGED <<gaveUp, accepted, handedOut, inHand, done>>

GiveUp ==
  /\ ~open
  /\ gaveUp' = TRUE
  /\ UNCHANGED <<open, accepted, handedOut, inHand, done>>

Drop(j) ==
  /\ gaveUp
  /\ j \in inHand
  /\ inHand' = inHand \ {j}
  /\ UNCHANGED <<open, gaveUp, accepted, handedOut, done>>

Next ==
  \/ Open \/ Accept \/ HandOut \/ Close \/ GiveUp
  \/ \E j \in inHand : Finish(j) \/ Drop(j)

Spec == Init /\ [][Next]_boardVars
=============================================================================
