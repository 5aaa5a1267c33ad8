------------------------------ MODULE Findings ------------------------------
(***************************************************************************)
(* What becomes of the findings of agents: how those of several reviewers  *)
(* are merged (src/reviewer/reviewer/orchestrator.py), which of them make  *)
(* a review (src/reviewer/reviewer/agent.py), and what is posted of it     *)
(* (src/reviewer/providers/github/review.py).                              *)
(*                                                                         *)
(* The loop of _deduplicate_findings is a step per finding, in the order   *)
(* in which the reviewers happened to end.  A finding is a dict whose keys *)
(* the model may leave out: an absent severity or category is "missing".   *)
(***************************************************************************)
EXTENDS Integers, Sequences

CONSTANTS
  Path, NoPath,   (* file paths; the key left out                            *)
  Line,           (* line numbers; 0 stands in for one left out              *)
  Severity,       (* severities an agent may write                           *)
  Category,       (* categories an agent may write                           *)
  Proximity,      (* LINE_PROXIMITY_THRESHOLD                                *)
  MaxFindings     (* bound of the model on findings to merge                 *)

(* What the prompts ask for (_OUTPUT_SCHEMA) and what the models of a      *)
(* finding accept (Severity and Category of models.py).                    *)
PromptSeverity == {"critical", "warning", "suggestion", "praise"}
PromptCategory == {"security", "bugs", "performance", "maintainability"}
ModelSeverity == {"critical", "high", "medium", "low", "info"}
ModelCategory ==
  {"security", "bug", "performance", "style", "documentation", "testing", "maintainability"}

ASSUME FindingsAssumption ==
  /\ NoPath \notin Path
  /\ Line \subseteq Int
  /\ Severity \subseteq PromptSeverity \cup ModelSeverity \cup {"missing"}
  /\ Proximity \in Nat
  /\ MaxFindings \in Nat

Finding == [path : Path \cup {NoPath}, line : Line, severity : Severity, category : Category]

VARIABLES
  given,   (* history: the findings merged so far                            *)
  kept,    (* deduped                                                        *)
  moved    (* history: the positions of kept where one replaced another      *)

findingVars == <<given, kept, moved>>

FindingsInit == given = <<>> /\ kept = <<>> /\ moved = {}

(* severity_rank, 0 for every other word.                                  *)
Rank(severity) ==
  CASE severity = "critical" -> 4
    [] severity = "warning" -> 3
    [] severity = "suggestion" -> 2
    [] severity = "praise" -> 1
    [] OTHER -> 0

(* A finding without a severity counts as a suggestion when it comes, and  *)
(* as less than praise when the next one is compared with it.              *)
RankAsNew(f) == Rank(IF f.severity = "missing" THEN "suggestion" ELSE f.severity)
RankAsKept(f) == Rank(f.severity)

Near(a, b) == a - b <= Proximity /\ b - a <= Proximity
Overlap(e, f) == e.path = f.path /\ e.path # NoPath /\ Near(e.line, f.line)

Rivals(f) == {i \in DOMAIN kept : Overlap(kept[i], f)}
IsFirst(i, S) == \A j \in S : i <= j

Replace(i, f) ==
  /\ kept' = [kept EXCEPT ![i] = f]
  /\ moved' = moved \cup {i}

(* Faulty merges: the lower severity wins; the later of two equals wins.   *)
MergeKeepsLower(f) ==
  /\ given' = Append(given, f)
  /\ \/ Rivals(f) = {} /\ kept' = Append(kept, f) /\ UNCHANGED moved
     \/ \E i \in Rivals(f) :
          /\ IsFirst(i, Rivals(f))
          /\ IF RankAsNew(f) < RankAsKept(kept[i]) THEN Replace(i, f) ELSE UNCHANGED <<kept, moved>>

MergeKeepsLater(f) ==
  /\ given' = Append(given, f)
  /\ \/ Rivals(f) = {} /\ kept' = Append(kept, f) /\ UNCHANGED moved
     \/ \E i \in Rivals(f) :
          /\ IsFirst(i, Rivals(f))
          /\ IF RankAsNew(f) >= RankAsKept(kept[i]) THEN Replace(i, f) ELSE UNCHANGED <<kept, moved>>

(* One round of _deduplicate_findings: a finding that overlaps none is     *)
(* kept; else the first one it overlaps decides, and gives way only to a   *)
(* higher severity.                                                        *)
Merge(f) ==
  /\ given' = Append(given, f)
  /\ \/ Rivals(f) = {} /\ kept' = Append(kept, f) /\ UNCHANGED moved
     \/ \E i \in Rivals(f) :
          /\ IsFirst(i, Rivals(f))
          /\ IF RankAsNew(f) > RankAsKept(kept[i]) THEN Replace(i, f) ELSE UNCHANGED <<kept, moved>>

Severities(fs) == {fs[i].severity : i \in DOMAIN fs}

(* _compute_verdict.                                                       *)
Verdict(fs) ==
  IF "critical" \in Severities(fs) THEN "request_changes"
  ELSE IF "warning" \in Severities(fs) THEN "comment"
  ELSE "approve"

(* _parse_findings: a finding that does not fit the models is skipped; one *)
(* without a severity is "info", one without a category "maintainability". *)
(* The order of the others is left out.                                    *)
WellFormed(f) ==
  /\ f.path # NoPath
  /\ f.severity \in ModelSeverity \cup {"missing"}
  /\ f.category \in ModelCategory \cup {"missing"}

Parsed(fs) == {f \in {fs[i] : i \in DOMAIN fs} : WellFormed(f)}

(* A faulty choice: every finding has to be severe.                        *)
EventIfAll(fs) ==
  IF fs # {} /\ \A f \in fs : f.severity \in {"critical", "high"}
  THEN "REQUEST_CHANGES" ELSE "COMMENT"

(* _determine_review_event.                                                *)
ReviewEvent(fs) ==
  IF \E f \in fs : f.severity \in {"critical", "high"}
  THEN "REQUEST_CHANGES" ELSE "COMMENT"

FindingsTypeOK ==
  /\ given \in Seq(Finding)
  /\ kept \in Seq(Finding)
  /\ moved \subseteq DOMAIN kept
  /\ Len(kept) <= Len(given)

-----------------------------------------------------------------------------
(* Merging loses no verdict: what is kept calls for the same verdict as    *)
(* all that was given, in whatever order it came (_deduplicate_findings,   *)
(* _compute_verdict).                                                      *)
VerdictSurvives == Verdict(kept) = Verdict(given)

(* Nothing is dropped but for something at least as severe nearby: every   *)
(* finding given is spoken for by one kept in the same file, within the    *)
(* proximity, and a proximity further for each step by which that one is   *)
(* more severe, because a winner moves the place that the next one is      *)
(* compared with.  (Findings without a severity void this: see RankAsNew.) *)
SpeaksFor(g, f) ==
  LET lead == RankAsKept(g) - RankAsKept(f)
  IN  /\ g.path = f.path
      /\ lead >= 0
      /\ g.line - f.line <= Proximity * (1 + lead)
      /\ f.line - g.line <= Proximity * (1 + lead)

EveryFindingIsSpokenFor ==
  "missing" \notin Severities(given) =>
    \A n \in DOMAIN given : \E i \in DOMAIN kept : SpeaksFor(kept[i], given[n])

(* Two findings kept overlap only because one of them has replaced another *)
(* that did not.                                                           *)
OverlapsComeFromReplacement ==
  \A i, j \in DOMAIN kept : (i # j /\ Overlap(kept[i], kept[j])) => i \in moved \/ j \in moved
=============================================================================
