--------------------------- MODULE MCReviewContent ---------------------------
(* Up to four files in pages of two, one path, and lines far enough apart   *)
(* for a finding that replaces another to move away from a third.           *)
EXTENDS ReviewContent
CONSTANTS p, none
MCConfigMax == {-1, 0, 1, 2, 4}
MCLine == 0..3
MCSeverity == {"critical", "warning", "high", "missing"}
MCCategory == {"security", "bugs"}
=============================================================================
