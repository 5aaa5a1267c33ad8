---------------------------- MODULE ChangedFiles ----------------------------
(***************************************************************************)
(* Which of the changed files of a pull request are reviewed: the paging   *)
(* of get_diff (src/reviewer/providers/github/review.py) and the selection *)
(* of _execute_review (src/reviewer/reviewer/pipeline.py).                 *)
(*                                                                         *)
(* Files are numbered in the order in which GitHub lists them.  Each page  *)
(* is a request of its own, and a push between two of them changes what    *)
(* the later ones show.                                                    *)
(***************************************************************************)
EXTENDS Integers, Sequences, FiniteSets

CONSTANTS
  FileCount,   (* files 1..FileCount may be changed                          *)
  PageSize,    (* per_page                                                   *)
  MaxFiles,    (* max_files of the settings                                  *)
  ConfigMax    (* values of max_files in .reviewer.yaml, of any sign         *)

ASSUME FilesAssumption ==
  /\ FileCount \in Nat /\ PageSize \in Nat \ {0} /\ MaxFiles \in Nat \ {0}
  /\ ConfigMax \subseteq Int

VARIABLES
  listing,    (* the files GitHub lists at this moment                       *)
  shifted,    (* history: the listing has changed since the first page       *)
  page,       (* the page to be asked for                                    *)
  files,      (* the files collected                                         *)
  limit,      (* effective_max                                               *)
  ignored,    (* the files that ignore_paths matches                         *)
  selected    (* diffs at the end, as positions in files                     *)

fileVars == <<listing, shifted, page, files, limit, ignored, selected>>

NothingRead ==
  /\ shifted = FALSE /\ page = 1 /\ files = <<>>
  /\ limit = 0 /\ ignored = {} /\ selected = {}

FilesInit == listing \in SUBSET (1..FileCount) /\ NothingRead

(* GitHub's list: the file at each place, and what a page shows of it.     *)
Before(f) == {g \in listing : g < f}
FileAt(k) == CHOOSE f \in listing : Cardinality(Before(f)) = k - 1

Shown == LET end == page * PageSize
         IN  IF end < Cardinality(listing) THEN end ELSE Cardinality(listing)

PageContent ==
  LET start == (page - 1) * PageSize
  IN  [k \in 1..(Shown - start) |-> FileAt(start + k)]

(* A faulty test: a page that is exactly full is taken for the last one.   *)
LastPageIfFull == Len(PageContent) <= PageSize

(* The loop of get_diff ends with a page that is not full.                 *)
LastPage == Len(PageContent) < PageSize

(* One request of get_diff.                                                *)
ReadPage ==
  /\ files' = files \o PageContent
  /\ page' = IF LastPage THEN page ELSE page + 1
  /\ UNCHANGED <<listing, shifted, limit, ignored, selected>>

(* A push changes the pull request between two requests.                   *)
Relist ==
  /\ listing' \in SUBSET (1..FileCount) \ {listing}
  /\ shifted' = TRUE
  /\ UNCHANGED <<page, files, limit, ignored, selected>>

(* diffs[:n] of Python, where a negative n counts from the end: the       *)
(* positions that are left.                                                *)
Slice(s, n) == {i \in DOMAIN s : i <= IF n >= 0 THEN n ELSE Len(s) + n}

Truncated(s, most) == IF Len(s) > most THEN Slice(s, most) ELSE DOMAIN s

(* Truncation comes first, so files that are ignored use up the limit.     *)
Select ==
  /\ \E n \in ConfigMax, skip \in SUBSET (1..FileCount) :
       LET most == IF n < MaxFiles THEN n ELSE MaxFiles
       IN  /\ limit' = most
           /\ ignored' = skip
           /\ selected' = {i \in Truncated(files, most) : files[i] \notin skip}
  /\ UNCHANGED <<listing, shifted, page, files>>
=============================================================================
