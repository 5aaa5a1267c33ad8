------------------------ MODULE CancellationRegistry ------------------------
(***************************************************************************)
(* The registry of cancellation tokens (src/reviewer/queue/cancel.py).     *)
(*                                                                         *)
(* A token is an asyncio.Event.  Each review registers once and gets a     *)
(* fresh one, so a token is named by the number of the job it was made     *)
(* for; the set cancelled holds the tokens that have been set.  No method  *)
(* awaits: every call is one step.                                         *)
(***************************************************************************)
EXTENDS Integers

CONSTANTS
  PullRequest,   (* the keys owner/repo#number                               *)
  NoToken        (* absence of an entry                                      *)

ASSUME RegistryAssumption == NoToken \notin Nat

VARIABLES
  active,        (* _active: the token registered for each pull request      *)
  cancelled      (* the tokens whose event is set                            *)

registryVars == <<active, cancelled>>

RegistryInit ==
  /\ active = [pr \in PullRequest |-> NoToken]
  /\ cancelled = {}

(* A faulty register: the new review is the one that is cancelled.         *)
RegisterCancelsNew(pr, token) ==
  /\ cancelled' = IF active[pr] = NoToken THEN cancelled ELSE cancelled \cup {token}
  /\ active' = [active EXCEPT ![pr] = token]

(* register: cancel the review registered for pr, if any, and take its     *)
(* place with a token of one's own.                                        *)
Register(pr, token) ==
  /\ cancelled' = IF active[pr] = NoToken THEN cancelled ELSE cancelled \cup {active[pr]}
  /\ active' = [active EXCEPT ![pr] = token]

(* A faulty complete: leaves the entry behind.                             *)
CompleteLeaks(pr) == UNCHANGED registryVars

(* complete: drop the entry of pr, whoever's token it holds.               *)
Complete(pr) ==
  /\ active' = [active EXCEPT ![pr] = NoToken]
  /\ UNCHANGED cancelled

(* cancel_all: set every registered token and empty the registry.          *)
CancelAll ==
  /\ cancelled' = cancelled \cup {active[pr] : pr \in {p \in PullRequest : active[p] # NoToken}}
  /\ active' = [pr \in PullRequest |-> NoToken]

RegistryTypeOK ==
  /\ active \in [PullRequest -> (Nat \ {0}) \cup {NoToken}]
  /\ cancelled \subseteq Nat \ {0}
=============================================================================
