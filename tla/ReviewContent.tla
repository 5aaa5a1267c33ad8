--------------------------- MODULE ReviewContent ---------------------------
(***************************************************************************)
(* What a review says, from the files it is about to the comments that are *)
(* posted: the data of _execute_review (src/reviewer/reviewer/pipeline.py),*)
(* run_orchestrated_review (orchestrator.py), build_review_from_agent_     *)
(* result (agent.py) and post_review (providers/github/review.py).  When   *)
(* and whether these steps happen is the matter of ReviewPipeline; here    *)
(* every call succeeds, except that the synthesis may fail.                *)
(***************************************************************************)
EXTENDS ChangedFiles, Findings

CONSTANTS
  MultiThreshold,   (* MULTI_AGENT_FILE_THRESHOLD                            *)
  MaxAnswer         (* bound of the model on the findings of one answer      *)

ASSUME ContentAssumption == MultiThreshold \in Nat \ {0} /\ MaxAnswer \in Nat

VARIABLES
  stage,      (* how far _execute_review and post_review have got            *)
  mode,       (* who the findings of review_data are from                    *)
  answered,   (* the findings of review_data                                 *)
  comments,   (* the findings posted as comments                             *)
  event       (* the event of the posted review                              *)

contentVars == <<stage, mode, answered, comments, event>>
vars == <<fileVars, findingVars, contentVars>>

Init ==
  /\ FilesInit
  /\ FindingsInit
  /\ stage = "listing" /\ mode = "none" /\ answered = <<>>
  /\ comments = {} /\ event = "none"

ListFiles ==
  /\ stage = "listing"
  /\ ReadPage
  /\ stage' = IF LastPage THEN "listed" ELSE "listing"
  /\ UNCHANGED <<findingVars, mode, answered, comments, event>>

Push ==
  /\ stage = "listing" /\ page > 1
  /\ Relist
  /\ UNCHANGED <<findingVars, contentVars>>

SelectFiles ==
  /\ stage = "listed"
  /\ Select
  /\ stage' = "selected"
  /\ UNCHANGED <<findingVars, mode, answered, comments, event>>

(* From here on the files are only text in the prompts, and the model      *)
(* forgets them.                                                           *)
FilesForgotten ==
  /\ listing' = {} /\ shifted' = FALSE /\ page' = 1 /\ files' = <<>>
  /\ limit' = 0 /\ ignored' = {} /\ selected' = {}

Answers == UNION {[1..n -> Finding] : n \in 0..MaxAnswer}

(* No file is left: the review has no findings.                            *)
NothingToReview ==
  /\ stage = "selected" /\ selected = {}
  /\ FilesForgotten
  /\ stage' = "answered"
  /\ UNCHANGED <<findingVars, mode, answered, comments, event>>

(* Few files: a single agent.                                              *)
ReviewAlone ==
  /\ stage = "selected" /\ selected # {} /\ Cardinality(selected) < MultiThreshold
  /\ FilesForgotten
  /\ answered' \in Answers
  /\ mode' = "solo" /\ stage' = "answered"
  /\ UNCHANGED <<findingVars, comments, event>>

(* Many files: a reviewer for each role.                                   *)
ReviewTogether ==
  /\ stage = "selected" /\ Cardinality(selected) >= MultiThreshold
  /\ FilesForgotten
  /\ stage' = "merging"
  /\ UNCHANGED <<findingVars, mode, answered, comments, event>>

(* The next finding of _collect_worker_findings: they come by reviewer, in *)
(* the order in which the reviewers ended.                                 *)
MergeFinding ==
  /\ stage = "merging" /\ Len(given) < MaxFindings
  /\ \E f \in Finding : Merge(f)
  /\ UNCHANGED <<fileVars, contentVars>>

(* The synthesis answers what it likes; what it was given is forgotten.    *)
SynthesisAnswers ==
  /\ stage = "merging"
  /\ answered' \in Answers
  /\ mode' = "synthesized" /\ stage' = "answered"
  /\ given' = <<>> /\ kept' = <<>> /\ moved' = {}
  /\ UNCHANGED <<fileVars, comments, event>>

(* The synthesis fails, and the merged findings stand in.                  *)
SynthesisFails ==
  /\ stage = "merging"
  /\ answered' = kept
  /\ mode' = "fallback" /\ stage' = "answered"
  /\ UNCHANGED <<fileVars, findingVars, comments, event>>

(* build_review_from_agent_result and post_review.  The verdict of         *)
(* review_data plays no part in the event.                                 *)
Post ==
  /\ stage = "answered"
  /\ comments' = Parsed(answered)
  /\ event' = ReviewEvent(Parsed(answered))
  /\ stage' = "posted"
  /\ UNCHANGED <<fileVars, findingVars, mode, answered>>

Next ==
  \/ ListFiles \/ Push \/ SelectFiles
  \/ NothingToReview \/ ReviewAlone \/ ReviewTogether
  \/ MergeFinding \/ SynthesisAnswers \/ SynthesisFails \/ Post

Spec == Init /\ [][Next]_vars

-----------------------------------------------------------------------------
TypeOK ==
  /\ FindingsTypeOK
  /\ listing \subseteq 1..FileCount
  /\ shifted \in BOOLEAN
  /\ page \in Nat \ {0}
  /\ files \in Seq(1..FileCount)
  /\ limit \in Int
  /\ ignored \subseteq 1..FileCount
  /\ selected \subseteq DOMAIN files
  /\ stage \in {"listing", "listed", "selected", "merging", "answered", "posted"}
  /\ mode \in {"none", "solo", "synthesized", "fallback"}
  /\ answered \in Seq(Finding)
  /\ comments \subseteq Finding
  /\ event \in {"none", "COMMENT", "REQUEST_CHANGES"}

(* Whatever the number of pages, the files reviewed are the first ones of  *)
(* the pull request up to the limit (counted from the end if a repository  *)
(* configures a negative one) that are not ignored, each once and in       *)
(* order, unless the pull request changed between two pages (get_diff,     *)
(* _execute_review).                                                       *)
Room == IF limit < 0 THEN Cardinality(listing) + limit ELSE limit

SelectionIsExact ==
  (stage = "selected" /\ ~shifted) =>
    /\ {files[i] : i \in selected} = {f \in listing \ ignored : Cardinality(Before(f)) < Room}
    /\ \A i, j \in selected : i < j => files[i] < files[j]

(* When the synthesis has failed, a well-formed critical finding of any    *)
(* reviewer makes the posted review request changes, unless a critical     *)
(* finding that the models refuse was kept in its place, and is then       *)
(* dropped (_deduplicate_findings, _parse_findings, _determine_review_     *)
(* event).                                                                 *)
Hidden(g) ==
  \E k \in DOMAIN given :
    /\ given[k].severity = "critical" /\ ~WellFormed(given[k])
    /\ Overlap(given[k], g)

CriticalIsHeardOrHidden ==
  (stage = "posted" /\ mode = "fallback") =>
    \A n \in DOMAIN given :
      (given[n].severity = "critical" /\ WellFormed(given[n])) =>
        event = "REQUEST_CHANGES" \/ Hidden(given[n])

-----------------------------------------------------------------------------
(* What the documentation says and the code does not do.                   *)

(* prompts.py: the answer names the severity of a finding critical,        *)
(* warning, suggestion or praise, and its category security, bugs,         *)
(* performance or maintainability; so a finding that follows the schema is *)
(* among the comments of the review.                                       *)
FollowsSchema(f) ==
  f.path # NoPath /\ f.severity \in PromptSeverity /\ f.category \in PromptCategory

SchemaFindingsAreComments ==
  stage = "posted" =>
    \A n \in DOMAIN answered : FollowsSchema(answered[n]) => answered[n] \in comments
=============================================================================
