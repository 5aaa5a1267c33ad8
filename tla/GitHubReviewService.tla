------------------------ MODULE GitHubReviewService ------------------------
(***************************************************************************)
(* The client of GitHub (src/reviewer/providers/github/review.py) and what *)
(* its calls leave behind there.  A call c may be carried out or not       *)
(* (c.done), and ends in an answer the client can use, a ProviderError, an *)
(* exception of another class, or, when the task that waits for it is      *)
(* cancelled, in CancelledError.  An error does not tell whether the call  *)
(* was carried out.                                                        *)
(***************************************************************************)

VARIABLES
  checkRun,     (* GitHub: the check run of the review                       *)
  posted,       (* GitHub: the findings of the posted review                 *)
  lost,         (* history: a post or update was carried out and not answered*)
  refused       (* history: the conclusions GitHub did not accept            *)

serviceVars == <<checkRun, posted, lost, refused>>

Conclusions == {"success", "action_required", "failure"}
Errors == {"ProviderError", "Exception"}

(* How a call can end by itself (_request): an answer means it was done.   *)
Calls == {c \in [done : BOOLEAN, answer : Errors \cup {"ok"}] : c.answer = "ok" => c.done}

(* How a call can end whose task is cancelled.                             *)
CutOff == [done : BOOLEAN, answer : {"cancelled"}]

ServiceInit ==
  /\ checkRun = "absent"
  /\ posted = "nothing"
  /\ lost = FALSE
  /\ refused = {}

(* create_check_run                                                        *)
CreateRun(c) ==
  /\ checkRun' = IF c.done THEN "in_progress" ELSE checkRun
  /\ UNCHANGED <<posted, lost, refused>>

(* post_review, with findings or without.                                  *)
PostFindings(c, findings) ==
  /\ posted' = IF c.done THEN findings ELSE posted
  /\ lost' = (lost \/ (c.done /\ c.answer \in Errors))
  /\ UNCHANGED <<checkRun, refused>>

(* update_check_run to "completed".                                        *)
UpdateRun(c, conclusion) ==
  /\ checkRun' = IF c.done THEN conclusion ELSE checkRun
  /\ lost' = (lost \/ (c.done /\ c.answer \in Errors))
  /\ refused' = IF ~c.done /\ c.answer \in Errors THEN refused \cup {conclusion} ELSE refused
  /\ UNCHANGED posted

(* get_repo_config: what the pipeline learns from the .reviewer.yaml it    *)
(* finds.  A missing file, one that is no YAML or no mapping stands for    *)
(* the defaults; values of the wrong type raise, as any other error does.  *)
ConfigFile == {"missing", "noYaml", "noMapping", "enabling", "disabling", "mistyped", "unreachable"}
RepoConfig(file) ==
  CASE file = "disabling"                   -> "disabled"
    [] file \in {"mistyped", "unreachable"} -> "error"
    [] OTHER                                -> "enabled"

ServiceTypeOK ==
  /\ checkRun \in {"absent", "in_progress"} \cup Conclusions
  /\ posted \in {"nothing", "none", "findings"}
  /\ lost \in BOOLEAN
  /\ refused \subseteq Conclusions
=============================================================================
