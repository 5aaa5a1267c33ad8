--------------------------- MODULE ContentProofs ---------------------------
(***************************************************************************)
(* Proofs about the content of a review, for every number of files, every  *)
(* size of a page and limit, and for every set of paths, lines and         *)
(* categories, every proximity and every bound on the findings.            *)
(*                                                                         *)
(* One invariant is about the merge: the stages around it only set its     *)
(* lists back or read them.  One round of the merge is one of three things *)
(* (RoundOf): the finding is added, takes the place of a rival of lower    *)
(* rank, or is dropped for a rival of at least its rank; each part of the  *)
(* invariant is kept by each of the three.                                 *)
(*                                                                         *)
(* The other is about the files: the places of GitHub's list enumerate it, *)
(* what has been read is the beginning of it as long as nobody pushes, and *)
(* a page that is not full is where it ends.                               *)
(***************************************************************************)
EXTENDS ReviewContent, FiniteSetTheorems, TLAPS

(* The merge keeps something of whatever it is given.                      *)
SomethingIsKept == given # <<>> => kept # <<>>

KeptWereGiven == \A i \in DOMAIN kept : \E n \in DOMAIN given : kept[i] = given[n]

CriticalsKept ==
  \A n \in DOMAIN given :
    given[n].severity = "critical" =>
      \E i \in DOMAIN kept :
        /\ kept[i].severity = "critical"
        /\ kept[i] = given[n] \/ Overlap(kept[i], given[n])

MergeInv ==
  /\ FindingsTypeOK
  /\ VerdictSurvives
  /\ EveryFindingIsSpokenFor
  /\ OverlapsComeFromReplacement
  /\ KeptWereGiven
  /\ CriticalsKept
  /\ SomethingIsKept

(* The three things a round can be.                                        *)
Adds(f) ==
  /\ \A j \in DOMAIN kept : ~Overlap(kept[j], f)
  /\ kept' = Append(kept, f) /\ moved' = moved

Displaces(f, i) ==
  /\ Overlap(kept[i], f) /\ RankAsNew(f) > RankAsKept(kept[i])
  /\ kept' = [kept EXCEPT ![i] = f] /\ moved' = moved \cup {i}

Drops(f, i) ==
  /\ Overlap(kept[i], f) /\ RankAsNew(f) <= RankAsKept(kept[i])
  /\ kept' = kept /\ moved' = moved

-----------------------------------------------------------------------------
LEMMA RankRange == ASSUME NEW s PROVE Rank(s) \in 0..4
  BY DEF Rank

LEMMA FindingFields ==
  ASSUME NEW f \in Finding
  PROVE  /\ f.line \in Int
         /\ RankAsNew(f) \in 0..4 /\ RankAsKept(f) \in 0..4
         /\ f.severity # "missing" => RankAsNew(f) = RankAsKept(f)
<1>1. f.line \in Int
  BY FindingsAssumption DEF Finding
<1> QED
  BY <1>1, RankRange DEF RankAsNew, RankAsKept

LEMMA RoundOf ==
  ASSUME NEW f \in Finding, FindingsTypeOK, Merge(f)
  PROVE  /\ given' = Append(given, f)
         /\ Adds(f) \/ \E i \in DOMAIN kept : Displaces(f, i) \/ Drops(f, i)
<1>1. given' = Append(given, f)
  BY DEF Merge
<1>2. CASE Rivals(f) = {} /\ kept' = Append(kept, f) /\ UNCHANGED moved
  BY <1>1, <1>2 DEF Rivals, Adds
<1>3. ASSUME NEW i \in Rivals(f),
             IF RankAsNew(f) > RankAsKept(kept[i]) THEN Replace(i, f) ELSE UNCHANGED <<kept, moved>>
      PROVE  Displaces(f, i) \/ Drops(f, i)
  <2>1. i \in DOMAIN kept /\ Overlap(kept[i], f)
    BY DEF Rivals
  <2>2. kept[i] \in Finding
    BY <2>1 DEF FindingsTypeOK
  <2>3. RankAsNew(f) \in 0..4 /\ RankAsKept(kept[i]) \in 0..4
    BY <2>2, FindingFields
  <2> QED
    BY <1>3, <2>1, <2>3 DEF Displaces, Drops, Replace
<1>4. Rivals(f) \subseteq DOMAIN kept
  BY DEF Rivals
<1> QED
  BY <1>1, <1>2, <1>3, <1>4 DEF Merge

LEMMA Appended ==
  ASSUME NEW S, NEW s \in Seq(S), NEW x \in S
  PROVE  /\ Append(s, x) \in Seq(S)
         /\ Len(Append(s, x)) = Len(s) + 1
         /\ DOMAIN Append(s, x) = DOMAIN s \cup {Len(s) + 1}
         /\ \A n \in DOMAIN s : Append(s, x)[n] = s[n]
         /\ Append(s, x)[Len(s) + 1] = x
         /\ Len(s) + 1 \notin DOMAIN s
  OBVIOUS

LEMMA Displaced ==
  ASSUME NEW S, NEW s \in Seq(S), NEW x \in S, NEW i \in DOMAIN s
  PROVE  /\ [s EXCEPT ![i] = x] \in Seq(S)
         /\ Len([s EXCEPT ![i] = x]) = Len(s)
         /\ DOMAIN [s EXCEPT ![i] = x] = DOMAIN s
         /\ \A n \in DOMAIN s : [s EXCEPT ![i] = x][n] = IF n = i THEN x ELSE s[n]
  OBVIOUS

LEMMA AppendedSeverity ==
  ASSUME NEW s \in Seq(Finding), NEW x \in Finding
  PROVE  Severities(Append(s, x)) = Severities(s) \cup {x.severity}
<1> DEFINE t == Append(s, x)
<1>1. DOMAIN t = DOMAIN s \cup {Len(s) + 1} /\ Len(s) + 1 \notin DOMAIN s
  BY Appended
<1>2. (\A n \in DOMAIN s : t[n] = s[n]) /\ t[Len(s) + 1] = x
  BY Appended
<1> HIDE DEF t
<1>3. Severities(t) = Severities(s) \cup {x.severity}
  BY <1>1, <1>2 DEF Severities
<1> QED
  BY <1>3 DEF t

LEMMA DisplacedSeverity ==
  ASSUME NEW s \in Seq(Finding), NEW x \in Finding, NEW i \in DOMAIN s
  PROVE  LET t == [s EXCEPT ![i] = x]
         IN  /\ x.severity \in Severities(t)
             /\ Severities(t) \subseteq Severities(s) \cup {x.severity}
             /\ Severities(s) \subseteq Severities(t) \cup {s[i].severity}
<1> DEFINE t == [s EXCEPT ![i] = x]
<1>1. DOMAIN t = DOMAIN s /\ \A n \in DOMAIN s : t[n] = IF n = i THEN x ELSE s[n]
  BY Displaced
<1> HIDE DEF t
<1>2. /\ x.severity \in Severities(t)
      /\ Severities(t) \subseteq Severities(s) \cup {x.severity}
      /\ Severities(s) \subseteq Severities(t) \cup {s[i].severity}
  BY <1>1 DEF Severities
<1> QED
  BY <1>2 DEF t

LEMMA Symmetric ==
  ASSUME NEW e, NEW f, e.line \in Int, f.line \in Int
  PROVE  Overlap(e, f) <=> Overlap(f, e)
  BY FindingsAssumption DEF Overlap, Near

-----------------------------------------------------------------------------
LEMMA GivenRound ==
  ASSUME NEW f \in Finding, FindingsTypeOK, Merge(f)
  PROVE  /\ DOMAIN given' = DOMAIN given \cup {Len(given) + 1}
         /\ \A n \in DOMAIN given : given'[n] = given[n]
         /\ given'[Len(given) + 1] = f
<1>1. given' = Append(given, f) /\ given \in Seq(Finding)
  BY RoundOf DEF FindingsTypeOK
<1> QED
  BY <1>1, Appended

(* One round keeps the types, whichever of the three it is.                *)
LEMMA TypeRound ==
  ASSUME NEW f \in Finding, FindingsTypeOK, Merge(f)
  PROVE  FindingsTypeOK'
<1>1. given' \in Seq(Finding) /\ Len(given') = Len(given) + 1
  BY RoundOf, Appended DEF FindingsTypeOK
<1>2. CASE Adds(f)
  BY <1>1, <1>2, Appended DEF FindingsTypeOK, Adds
<1>3. CASE \E i \in DOMAIN kept : Displaces(f, i)
  BY <1>1, <1>3, Displaced DEF FindingsTypeOK, Displaces
<1>4. CASE \E i \in DOMAIN kept : Drops(f, i)
  BY <1>1, <1>4 DEF FindingsTypeOK, Drops
<1> QED
  BY <1>2, <1>3, <1>4, RoundOf

(* The severities after a round, as far as verdicts need them.             *)
LEMMA SeveritiesRound ==
  ASSUME NEW f \in Finding, FindingsTypeOK, Merge(f)
  PROVE  /\ Severities(given') = Severities(given) \cup {f.severity}
         /\ \/ Severities(kept') = Severities(kept) \cup {f.severity}
            \/ \E e \in Finding :
                 /\ e.severity \in Severities(kept)
                 /\ RankAsNew(f) > RankAsKept(e)
                 /\ f.severity \in Severities(kept')
                 /\ Severities(kept') \subseteq Severities(kept) \cup {f.severity}
                 /\ Severities(kept) \subseteq Severities(kept') \cup {e.severity}
            \/ \E e \in Finding :
                 /\ e.severity \in Severities(kept)
                 /\ RankAsNew(f) <= RankAsKept(e)
                 /\ Severities(kept') = Severities(kept)
<1>1. Severities(given') = Severities(given) \cup {f.severity}
  BY RoundOf, AppendedSeverity DEF FindingsTypeOK
<1>2. CASE Adds(f)
  BY <1>1, <1>2, AppendedSeverity DEF FindingsTypeOK, Adds
<1>3. ASSUME NEW i \in DOMAIN kept, Displaces(f, i) \/ Drops(f, i)
      PROVE  kept[i] \in Finding /\ kept[i].severity \in Severities(kept)
  BY DEF FindingsTypeOK, Severities
<1>4. ASSUME NEW i \in DOMAIN kept, Displaces(f, i)
      PROVE  /\ f.severity \in Severities(kept')
             /\ Severities(kept') \subseteq Severities(kept) \cup {f.severity}
             /\ Severities(kept) \subseteq Severities(kept') \cup {kept[i].severity}
  BY <1>4, DisplacedSeverity DEF FindingsTypeOK, Displaces
<1> QED
  BY <1>1, <1>2, <1>3, <1>4, RoundOf DEF Displaces, Drops

LEMMA VerdictRound ==
  ASSUME NEW f \in Finding, FindingsTypeOK, VerdictSurvives, Merge(f)
  PROVE  VerdictSurvives'
<1> DEFINE G == Severities(given)
           K == Severities(kept)
           L == Severities(kept')
           Agree == /\ "critical" \in G \cup {f.severity} <=> "critical" \in L
                    /\ "critical" \notin G \cup {f.severity} =>
                         ("warning" \in G \cup {f.severity} <=> "warning" \in L)
<1>1. Severities(given') = G \cup {f.severity}
  BY SeveritiesRound
<1>2. "critical" \in G <=> "critical" \in K
  BY DEF VerdictSurvives, Verdict
<1>3. "critical" \notin G => ("warning" \in G <=> "warning" \in K)
  BY DEF VerdictSurvives, Verdict
<1>4. SUFFICES Agree
  BY <1>1 DEF VerdictSurvives, Verdict
<1>5. CASE L = K \cup {f.severity}
  BY <1>2, <1>3, <1>5
<1>6. ASSUME NEW e \in Finding,
             e.severity \in K,
             RankAsNew(f) > RankAsKept(e),
             f.severity \in L,
             L \subseteq K \cup {f.severity},
             K \subseteq L \cup {e.severity}
      PROVE  Agree
  <2>1. e.severity # "critical"
    BY <1>6, FindingFields, RankRange DEF RankAsKept, Rank
  <2>2. e.severity = "warning" => f.severity = "critical"
    BY <1>6 DEF RankAsKept, RankAsNew, Rank
  <2> QED
    BY <1>2, <1>3, <1>6, <2>1, <2>2
<1>7. ASSUME NEW e \in Finding, e.severity \in K, RankAsNew(f) <= RankAsKept(e), L = K
      PROVE  Agree
  <2>1. f.severity = "critical" => e.severity = "critical"
    BY <1>7 DEF RankAsKept, RankAsNew, Rank
  <2>2. f.severity = "warning" => e.severity \in {"critical", "warning"}
    BY <1>7 DEF RankAsKept, RankAsNew, Rank
  <2> QED
    BY <1>2, <1>3, <1>7, <2>1, <2>2
<1> QED
  BY <1>5, <1>6, <1>7, SeveritiesRound

-----------------------------------------------------------------------------
(* A proximity more for each step of severity.                             *)
LEMMA Farther ==
  ASSUME NEW a \in Nat, NEW b \in Nat, a < b
  PROVE  Proximity * (1 + a) + Proximity <= Proximity * (1 + b)
<1> DEFINE d == b - a - 1
<1>1. d \in Nat /\ Proximity \in Nat
  BY FindingsAssumption
<1>2. Proximity * d \in Nat
  BY <1>1
<1>3. Proximity * (1 + b) = Proximity * (1 + a) + Proximity + Proximity * d
  BY <1>1
<1> QED
  BY <1>1, <1>2, <1>3

LEMMA AtLeastOnce ==
  ASSUME NEW a \in Nat
  PROVE  Proximity * (1 + a) \in Nat /\ Proximity <= Proximity * (1 + a)
<1>1. Proximity \in Nat /\ Proximity * a \in Nat
  BY FindingsAssumption
<1>2. Proximity * (1 + a) = Proximity + Proximity * a
  BY FindingsAssumption
<1> QED
  BY <1>1, <1>2

(* A rival at least as severe speaks for a finding, and one that displaces *)
(* a spokesman speaks for all that the displaced one spoke for.            *)
LEMMA RivalSpeaks ==
  ASSUME NEW e \in Finding, NEW f \in Finding,
         Overlap(e, f), RankAsKept(f) <= RankAsKept(e)
  PROVE  SpeaksFor(e, f)
<1> DEFINE lead == RankAsKept(e) - RankAsKept(f)
<1>1. lead \in Nat /\ e.line \in Int /\ f.line \in Int
  BY FindingFields
<1>2. Proximity * (1 + lead) \in Nat /\ Proximity <= Proximity * (1 + lead)
  BY <1>1, AtLeastOnce
<1>3. e.line - f.line <= Proximity /\ f.line - e.line <= Proximity /\ Proximity \in Nat
  BY FindingsAssumption DEF Overlap, Near
<1>4. e.line - f.line <= Proximity * (1 + lead) /\ f.line - e.line <= Proximity * (1 + lead)
  BY <1>1, <1>2, <1>3
<1> QED
  BY <1>1, <1>4 DEF SpeaksFor, Overlap

LEMMA SpeaksForItself ==
  ASSUME NEW f \in Finding
  PROVE  SpeaksFor(f, f)
<1>1. RankAsKept(f) - RankAsKept(f) = 0 /\ f.line - f.line = 0
  BY FindingFields
<1>2. 0 \in Nat /\ 0 <= Proximity * (1 + 0)
  BY FindingsAssumption
<1> QED
  BY <1>1, <1>2 DEF SpeaksFor

LEMMA DisplacerSpeaks ==
  ASSUME NEW e \in Finding, NEW f \in Finding, NEW g \in Finding,
         Overlap(e, f), RankAsKept(f) > RankAsKept(e), SpeaksFor(e, g)
  PROVE  SpeaksFor(f, g)
<1> DEFINE a == RankAsKept(e) - RankAsKept(g)
           b == RankAsKept(f) - RankAsKept(g)
<1>1. a \in Nat /\ b \in Nat /\ a < b
  BY FindingFields DEF SpeaksFor
<1>2. e.line \in Int /\ f.line \in Int /\ g.line \in Int /\ Proximity \in Nat
  BY FindingFields, FindingsAssumption
<1>3. Proximity * (1 + a) + Proximity <= Proximity * (1 + b)
  BY <1>1, Farther
<1>4. Proximity * (1 + a) \in Nat /\ Proximity * (1 + b) \in Nat
  BY <1>1, AtLeastOnce
<1>5. e.line - g.line <= Proximity * (1 + a) /\ g.line - e.line <= Proximity * (1 + a)
  BY DEF SpeaksFor
<1>6. e.line - f.line <= Proximity /\ f.line - e.line <= Proximity
  BY DEF Overlap, Near
<1>7. f.line - g.line <= Proximity * (1 + b) /\ g.line - f.line <= Proximity * (1 + b)
  BY <1>2, <1>3, <1>4, <1>5, <1>6
<1>8. f.path = g.path
  BY DEF SpeaksFor, Overlap
<1> QED
  BY <1>1, <1>7, <1>8 DEF SpeaksFor

LEMMA SpokenForRound ==
  ASSUME NEW f \in Finding, FindingsTypeOK, EveryFindingIsSpokenFor, Merge(f)
  PROVE  EveryFindingIsSpokenFor'
<1> DEFINE Spoken ==
             /\ \E i \in DOMAIN kept' : SpeaksFor(kept'[i], f)
             /\ \A i \in DOMAIN kept : \A n \in DOMAIN given :
                  SpeaksFor(kept[i], given[n]) => \E j \in DOMAIN kept' : SpeaksFor(kept'[j], given[n])
<1> SUFFICES ASSUME "missing" \notin Severities(given')
             PROVE  \A n \in DOMAIN given' : \E i \in DOMAIN kept' : SpeaksFor(kept'[i], given'[n])
  BY DEF EveryFindingIsSpokenFor
<1>1. "missing" \notin Severities(given) /\ f.severity # "missing"
  BY SeveritiesRound
<1>2. RankAsNew(f) = RankAsKept(f)
  BY <1>1, FindingFields
<1>3. \A n \in DOMAIN given : \E i \in DOMAIN kept : SpeaksFor(kept[i], given[n])
  BY <1>1 DEF EveryFindingIsSpokenFor
<1>4. /\ DOMAIN given' = DOMAIN given \cup {Len(given) + 1}
      /\ \A n \in DOMAIN given : given'[n] = given[n]
      /\ given'[Len(given) + 1] = f
  BY GivenRound
<1>4a. /\ \A n \in DOMAIN given : given[n] \in Finding
      /\ \A i \in DOMAIN kept : kept[i] \in Finding
  BY DEF FindingsTypeOK
<1>5. SUFFICES Spoken
  BY <1>3, <1>4
<1>6. CASE Adds(f)
  <2>1. /\ DOMAIN kept' = DOMAIN kept \cup {Len(kept) + 1}
        /\ \A i \in DOMAIN kept : kept'[i] = kept[i]
        /\ kept'[Len(kept) + 1] = f
    BY <1>6, Appended DEF FindingsTypeOK, Adds
  <2> QED
    BY <2>1, SpeaksForItself
<1>7. ASSUME NEW i \in DOMAIN kept, Displaces(f, i)
      PROVE  Spoken
  <2>1. DOMAIN kept' = DOMAIN kept /\ \A j \in DOMAIN kept : kept'[j] = IF j = i THEN f ELSE kept[j]
    BY <1>7, Displaced DEF FindingsTypeOK, Displaces
  <2>2. \A n \in DOMAIN given : SpeaksFor(kept[i], given[n]) => SpeaksFor(f, given[n])
    BY <1>2, <1>4a, <1>7, DisplacerSpeaks DEF Displaces
  <2> QED
    BY <2>1, <2>2, SpeaksForItself
<1>8. ASSUME NEW i \in DOMAIN kept, Drops(f, i)
      PROVE  Spoken
  <2>1. SpeaksFor(kept[i], f)
    BY <1>2, <1>4a, <1>8, RivalSpeaks DEF Drops
  <2> QED
    BY <2>1, <1>8 DEF Drops
<1> QED
  BY <1>6, <1>7, <1>8, RoundOf

LEMMA OverlapsRound ==
  ASSUME NEW f \in Finding, FindingsTypeOK, OverlapsComeFromReplacement, Merge(f)
  PROVE  OverlapsComeFromReplacement'
<1>1. \A i \in DOMAIN kept : kept[i].line \in Int /\ f.line \in Int
  BY FindingFields DEF FindingsTypeOK
<1>2. CASE Adds(f)
  <2>1. /\ DOMAIN kept' = DOMAIN kept \cup {Len(kept) + 1}
        /\ \A i \in DOMAIN kept : kept'[i] = kept[i]
        /\ kept'[Len(kept) + 1] = f
        /\ moved' = moved
    BY <1>2, Appended DEF FindingsTypeOK, Adds
  <2>2. \A i \in DOMAIN kept : ~Overlap(kept[i], f) /\ ~Overlap(f, kept[i])
    BY <1>1, <1>2, Symmetric DEF Adds
  <2> QED
    BY <2>1, <2>2 DEF OverlapsComeFromReplacement
<1>3. ASSUME NEW i \in DOMAIN kept, Displaces(f, i)
      PROVE  OverlapsComeFromReplacement'
  <2>1. DOMAIN kept' = DOMAIN kept /\ \A j \in DOMAIN kept : kept'[j] = IF j = i THEN f ELSE kept[j]
    BY <1>3, Displaced DEF FindingsTypeOK, Displaces
  <2> QED
    BY <1>3, <2>1 DEF OverlapsComeFromReplacement, Displaces
<1>4. ASSUME NEW i \in DOMAIN kept, Drops(f, i)
      PROVE  OverlapsComeFromReplacement'
  BY <1>4 DEF OverlapsComeFromReplacement, Drops
<1> QED
  BY <1>2, <1>3, <1>4, RoundOf

LEMMA OriginRound ==
  ASSUME NEW f \in Finding, FindingsTypeOK, KeptWereGiven, CriticalsKept, Merge(f)
  PROVE  KeptWereGiven' /\ CriticalsKept'
<1>1. /\ DOMAIN given' = DOMAIN given \cup {Len(given) + 1}
      /\ \A n \in DOMAIN given : given'[n] = given[n]
      /\ given'[Len(given) + 1] = f
  BY GivenRound
<1>2. CASE Adds(f)
  <2>1. /\ DOMAIN kept' = DOMAIN kept \cup {Len(kept) + 1}
        /\ \A i \in DOMAIN kept : kept'[i] = kept[i]
        /\ kept'[Len(kept) + 1] = f
    BY <1>2, Appended DEF FindingsTypeOK, Adds
  <2> QED
    BY <1>1, <2>1 DEF KeptWereGiven, CriticalsKept
<1>3. ASSUME NEW i \in DOMAIN kept, Displaces(f, i)
      PROVE  KeptWereGiven' /\ CriticalsKept'
  <2>1. DOMAIN kept' = DOMAIN kept /\ \A j \in DOMAIN kept : kept'[j] = IF j = i THEN f ELSE kept[j]
    BY <1>3, Displaced DEF FindingsTypeOK, Displaces
  <2>2. kept[i] \in Finding
    BY DEF FindingsTypeOK
  <2>3. RankAsNew(f) \in 0..4 /\ RankAsNew(f) > RankAsKept(kept[i])
    BY <1>3, FindingFields DEF Displaces
  <2>4. kept[i].severity # "critical"
    BY <2>3 DEF RankAsKept, Rank
  <2>5. \A j \in DOMAIN kept : kept[j].severity = "critical" => kept'[j] = kept[j]
    BY <2>1, <2>4
  <2>6. CriticalsKept'
    BY <1>1, <2>1, <2>5 DEF CriticalsKept
  <2> QED
    BY <1>1, <2>1, <2>6 DEF KeptWereGiven
<1>4. ASSUME NEW i \in DOMAIN kept, Drops(f, i)
      PROVE  KeptWereGiven' /\ CriticalsKept'
  <2>1. f.severity = "critical" => kept[i].severity = "critical"
    BY <1>4 DEF Drops, RankAsNew, RankAsKept, Rank
  <2> QED
    BY <1>1, <1>4, <2>1 DEF Drops, KeptWereGiven, CriticalsKept
<1> QED
  BY <1>2, <1>3, <1>4, RoundOf

LEMMA KeepingRound ==
  ASSUME NEW f \in Finding, FindingsTypeOK, Merge(f)
  PROVE  kept' # <<>>
<1>1. CASE Adds(f)
  <2>1. Append(kept, f) \in Seq(Finding) /\ Len(Append(kept, f)) = Len(kept) + 1 /\ Len(kept) \in Nat
    BY Appended DEF FindingsTypeOK
  <2> QED
    BY <1>1, <2>1 DEF Adds
<1>2. ASSUME NEW i \in DOMAIN kept, Displaces(f, i) \/ Drops(f, i)
      PROVE  kept' # <<>>
  <2>1. DOMAIN kept' = DOMAIN kept
    BY <1>2, Displaced DEF FindingsTypeOK, Displaces, Drops
  <2> QED
    BY <2>1
<1> QED
  BY <1>1, <1>2, RoundOf

-----------------------------------------------------------------------------
(* The steps of the review: they merge a finding, begin the merge anew, or *)
(* leave it alone.                                                         *)
StageInv ==
  /\ mode = "fallback" => stage \in {"answered", "posted"} /\ answered = kept
  /\ stage = "posted" => event = ReviewEvent(Parsed(answered))

IInv == MergeInv /\ StageInv

LEMMA EmptyMerge ==
  ASSUME given = <<>>, kept = <<>>, moved = {}
  PROVE  MergeInv
<1>1. FindingsTypeOK
  BY DEF FindingsTypeOK
<1>2. VerdictSurvives
  BY DEF VerdictSurvives
<1>3. DOMAIN given = {} /\ DOMAIN kept = {}
  OBVIOUS
<1> QED
  BY <1>1, <1>2, <1>3
     DEF MergeInv, EveryFindingIsSpokenFor, OverlapsComeFromReplacement, KeptWereGiven, CriticalsKept,
         SomethingIsKept

LEMMA InitInv == Init => IInv
  BY EmptyMerge DEF Init, FindingsInit, IInv, StageInv

LEMMA StepMerge == IInv /\ [Next]_vars => MergeInv'
<1> SUFFICES ASSUME IInv, [Next]_vars PROVE MergeInv'
  OBVIOUS
<1>1. CASE MergeFinding
  <2>1. PICK f \in Finding : Merge(f)
    BY <1>1 DEF MergeFinding
  <2> QED
    BY <2>1, TypeRound, VerdictRound, SpokenForRound, OverlapsRound, OriginRound, KeepingRound
       DEF IInv, MergeInv, SomethingIsKept
<1>2. CASE SynthesisAnswers
  <2>1. given' = <<>> /\ kept' = <<>> /\ moved' = {}
    BY <1>2 DEF SynthesisAnswers
  <2>2. FindingsTypeOK'
    BY <2>1 DEF FindingsTypeOK
  <2>3. VerdictSurvives'
    BY <2>1 DEF VerdictSurvives
  <2>4. DOMAIN given' = {} /\ DOMAIN kept' = {}
    BY <2>1
  <2> QED
    BY <2>1, <2>2, <2>3, <2>4
       DEF MergeInv, EveryFindingIsSpokenFor, OverlapsComeFromReplacement, KeptWereGiven, CriticalsKept,
           SomethingIsKept
<1>3. CASE UNCHANGED findingVars
  BY <1>3 DEF IInv, MergeInv, FindingsTypeOK, VerdictSurvives, EveryFindingIsSpokenFor,
              OverlapsComeFromReplacement, KeptWereGiven, CriticalsKept, SomethingIsKept, findingVars
<1>4. MergeFinding \/ SynthesisAnswers \/ UNCHANGED findingVars
  BY DEF Next, vars, ListFiles, Push, SelectFiles, NothingToReview, ReviewAlone, ReviewTogether,
         SynthesisFails, Post
<1> QED
  BY <1>1, <1>2, <1>3, <1>4

LEMMA StepStage == IInv /\ [Next]_vars => StageInv'
<1> SUFFICES ASSUME StageInv, [Next]_vars PROVE StageInv'
  BY DEF IInv
<1>1. CASE ListFiles \/ Push \/ SelectFiles \/ NothingToReview \/ ReviewTogether \/ MergeFinding
  BY <1>1 DEF StageInv, ListFiles, Push, SelectFiles, NothingToReview, ReviewTogether, MergeFinding,
              contentVars
<1>2. CASE ReviewAlone \/ SynthesisAnswers
  BY <1>2 DEF StageInv, ReviewAlone, SynthesisAnswers
<1>3. CASE SynthesisFails
  BY <1>3 DEF StageInv, SynthesisFails, findingVars
<1>4. CASE Post
  BY <1>4 DEF StageInv, Post, findingVars
<1>5. CASE UNCHANGED vars
  BY <1>5 DEF StageInv, vars, contentVars, findingVars
<1> QED
  BY <1>1, <1>2, <1>3, <1>4, <1>5 DEF Next

(* The merge and the stages keep the invariant of this module.             *)
THEOREM Invariance == Spec => []IInv
<1>1. IInv /\ [Next]_vars => IInv'
  BY StepMerge, StepStage DEF IInv
<1> QED
  BY InitInv, <1>1, PTL DEF Spec

(* Whatever the reviewers find and in whatever order they end, the merge   *)
(* does not change the verdict (_deduplicate_findings).                    *)
THEOREM MergeKeepsVerdict == Spec => []VerdictSurvives
<1>1. IInv => VerdictSurvives
  BY DEF IInv, MergeInv
<1> QED
  BY Invariance, <1>1, PTL

(* Every finding dropped has one at least as severe in its place, at a     *)
(* distance that the severities bound (_deduplicate_findings).             *)
THEOREM NothingIsLost == Spec => []EveryFindingIsSpokenFor
<1>1. IInv => EveryFindingIsSpokenFor
  BY DEF IInv, MergeInv
<1> QED
  BY Invariance, <1>1, PTL

(* Findings that overlap after the merge come from a displacement          *)
(* (_deduplicate_findings).                                                *)
THEOREM OverlapsAreDisplaced == Spec => []OverlapsComeFromReplacement
<1>1. IInv => OverlapsComeFromReplacement
  BY DEF IInv, MergeInv
<1> QED
  BY Invariance, <1>1, PTL

(* The kind of list that findings make up, as the agents of the review     *)
(* have it (Agents!Kind), and the kinds that the findings of the reviewers *)
(* may be merged to, as the orchestrator has it (Orchestrator!Merged).     *)
KindOf(fs) ==
  IF fs = <<>> THEN "clean"
  ELSE IF \E n \in DOMAIN fs : WellFormed(fs[n]) THEN "valid" ELSE "malformed"

KindsMergedFrom(fs) == IF KindOf(fs) = "clean" THEN {"clean"} ELSE {KindOf(fs), "malformed"}

(* The orchestrator knows of the merge no more than the kinds of what went *)
(* in and of what came out, and it leaves nothing out: whatever findings   *)
(* are merged, the kind of those kept is one it reckons with, and a merge  *)
(* of malformed ones never yields a valid one (_deduplicate_findings).     *)
THEOREM MergedKinds == Spec => [](KindOf(kept) \in KindsMergedFrom(given))
<1>1. ASSUME MergeInv
      PROVE  KindOf(kept) \in KindsMergedFrom(given)
  <2>1. given = <<>> => kept = <<>>
    BY <1>1 DEF MergeInv, FindingsTypeOK
  <2>2. kept = <<>> => given = <<>>
    BY <1>1 DEF MergeInv, SomethingIsKept
  <2>3. (\E i \in DOMAIN kept : WellFormed(kept[i])) => \E n \in DOMAIN given : WellFormed(given[n])
    BY <1>1 DEF MergeInv, KeptWereGiven
  <2> QED
    BY <2>1, <2>2, <2>3 DEF KindOf, KindsMergedFrom
<1>2. IInv => KindOf(kept) \in KindsMergedFrom(given)
  BY <1>1 DEF IInv
<1> QED
  BY Invariance, <1>2, PTL

(* When the synthesis fails, a well-formed critical finding requests       *)
(* changes or is hidden by a malformed one (run_orchestrated_review,       *)
(* _parse_findings, _determine_review_event).                              *)
THEOREM CriticalSurvivesFallback == Spec => []CriticalIsHeardOrHidden
<1>1. IInv => CriticalIsHeardOrHidden
  <2> SUFFICES ASSUME IInv, stage = "posted", mode = "fallback",
                      NEW n \in DOMAIN given,
                      given[n].severity = "critical", WellFormed(given[n])
               PROVE  event = "REQUEST_CHANGES" \/ Hidden(given[n])
    BY DEF CriticalIsHeardOrHidden
  <2>1. PICK i \in DOMAIN kept : /\ kept[i].severity = "critical"
                                 /\ kept[i] = given[n] \/ Overlap(kept[i], given[n])
    BY DEF IInv, MergeInv, CriticalsKept
  <2>2. PICK k \in DOMAIN given : kept[i] = given[k]
    BY DEF IInv, MergeInv, KeptWereGiven
  <2>3. CASE WellFormed(kept[i])
    <3>1. kept[i] \in Parsed(kept)
      BY <2>3 DEF Parsed
    <3> QED
      BY <2>1, <3>1 DEF IInv, StageInv, ReviewEvent
  <2>4. CASE ~WellFormed(kept[i])
    <3>1. Overlap(kept[i], given[n])
      BY <2>1, <2>4
    <3> QED
      BY <2>1, <2>2, <2>4, <3>1 DEF Hidden
  <2> QED
    BY <2>3, <2>4
<1> QED
  BY Invariance, <1>1, PTL

-----------------------------------------------------------------------------
(* The files: the places of GitHub's list enumerate it, in order.          *)
Count == Cardinality(listing)

LEMMA BeforeCounts ==
  ASSUME listing \subseteq 1..FileCount
  PROVE  /\ IsFiniteSet(listing) /\ Count \in Nat
         /\ \A f \in listing : /\ IsFiniteSet(Before(f)) /\ f \notin Before(f)
                               /\ Cardinality(Before(f)) \in 0..(Count - 1)
<1>1. IsFiniteSet(listing) /\ Count \in Nat
  <2>1. IsFiniteSet(1..FileCount)
    BY FilesAssumption, FS_Interval
  <2>2. IsFiniteSet(listing)
    BY <2>1, FS_Subset
  <2> QED
    BY <2>2, FS_CardinalityType DEF Count
<1>2. ASSUME NEW f \in listing
      PROVE  /\ IsFiniteSet(Before(f)) /\ f \notin Before(f)
             /\ Cardinality(Before(f)) \in 0..(Count - 1)
  <2>1. Before(f) \subseteq listing \ {f} /\ f \notin Before(f)
    BY FilesAssumption DEF Before
  <2>2. IsFiniteSet(listing \ {f}) /\ Cardinality(listing \ {f}) = Count - 1
    BY <1>1, FS_RemoveElement DEF Count
  <2>3. IsFiniteSet(Before(f)) /\ Cardinality(Before(f)) <= Count - 1
    BY <2>1, <2>2, FS_Subset
  <2>4. Cardinality(Before(f)) \in Nat
    BY <2>3, FS_CardinalityType
  <2> QED
    BY <1>1, <2>1, <2>3, <2>4
<1> QED
  BY <1>1, <1>2

LEMMA BeforeGrows ==
  ASSUME listing \subseteq 1..FileCount, NEW f \in listing, NEW g \in listing, f < g
  PROVE  Cardinality(Before(f)) < Cardinality(Before(g))
<1>1. f \in Int /\ g \in Int
  BY FilesAssumption
<1>2. Before(f) \cup {f} \subseteq Before(g)
  <2>1. ASSUME NEW h \in Before(f)
        PROVE  h \in Before(g)
    <3>1. h \in listing /\ h < f /\ h \in Int
      BY FilesAssumption DEF Before
    <3>2. h < g
      BY <1>1, <3>1
    <3> QED
      BY <3>1, <3>2 DEF Before
  <2>2. f \in Before(g)
    BY DEF Before
  <2> QED
    BY <2>1, <2>2
<1>3. IsFiniteSet(Before(f) \cup {f}) /\ Cardinality(Before(f) \cup {f}) = Cardinality(Before(f)) + 1
  BY BeforeCounts, FS_AddElement
<1>4. Cardinality(Before(f) \cup {f}) <= Cardinality(Before(g))
  BY <1>2, BeforeCounts, FS_Subset
<1> QED
  BY <1>3, <1>4, BeforeCounts

LEMMA PlacesEnumerate ==
  ASSUME listing \subseteq 1..FileCount
  PROVE  /\ \A k \in 1..Count : FileAt(k) \in listing /\ Cardinality(Before(FileAt(k))) = k - 1
         /\ \A f \in listing : /\ Cardinality(Before(f)) + 1 \in 1..Count
                               /\ FileAt(Cardinality(Before(f)) + 1) = f
         /\ \A k, l \in 1..Count : k < l => FileAt(k) < FileAt(l)
<1> DEFINE place == [f \in listing |-> Cardinality(Before(f)) + 1]
<1>1. Count \in Nat /\ \A f \in listing : Cardinality(Before(f)) \in 0..(Count - 1) /\ f \in Int
  BY BeforeCounts, FilesAssumption
<1>2. \A f, g \in listing : Cardinality(Before(f)) = Cardinality(Before(g)) => f = g
  BY <1>1, BeforeGrows
<1>3. place \in Injection(listing, 1..Count)
  <2>1. place \in [listing -> 1..Count]
    BY <1>1
  <2>2. \A f, g \in listing : place[f] = place[g] => f = g
    BY <1>1, <1>2
  <2> QED
    BY <2>1, <2>2 DEF Injection, IsInjective
<1>4. IsFiniteSet(1..Count) /\ Cardinality(1..Count) = Cardinality(listing)
  BY <1>1, FS_Interval DEF Count
<1>5. place \in Surjection(listing, 1..Count)
  BY <1>3, <1>4, FS_Injection
<1>6. \A k \in 1..Count : \E f \in listing : Cardinality(Before(f)) = k - 1
  <2> SUFFICES ASSUME NEW k \in 1..Count
               PROVE  \E f \in listing : Cardinality(Before(f)) = k - 1
    OBVIOUS
  <2>1. PICK f \in listing : place[f] = k
    BY <1>5 DEF Surjection
  <2>2. Cardinality(Before(f)) + 1 = k
    BY <2>1
  <2>3. Cardinality(Before(f)) = k - 1
    BY <1>1, <2>2
  <2> QED
    BY <2>3
<1>7. \A k \in 1..Count : FileAt(k) \in listing /\ Cardinality(Before(FileAt(k))) = k - 1
  BY <1>6 DEF FileAt
<1>8. ASSUME NEW f \in listing
      PROVE  /\ Cardinality(Before(f)) + 1 \in 1..Count
             /\ FileAt(Cardinality(Before(f)) + 1) = f
  <2> DEFINE k == Cardinality(Before(f)) + 1
  <2>1. k \in 1..Count /\ k - 1 = Cardinality(Before(f))
    BY <1>1
  <2>2. FileAt(k) \in listing /\ Cardinality(Before(FileAt(k))) = Cardinality(Before(f))
    BY <1>7, <2>1
  <2>3. FileAt(k) = f
    BY <1>2, <2>2
  <2> QED
    BY <2>1, <2>3
<1>9. ASSUME NEW k \in 1..Count, NEW l \in 1..Count, k < l
      PROVE  FileAt(k) < FileAt(l)
  <2>1. /\ FileAt(k) \in listing /\ FileAt(k) \in Int /\ Cardinality(Before(FileAt(k))) = k - 1
        /\ FileAt(l) \in listing /\ FileAt(l) \in Int /\ Cardinality(Before(FileAt(l))) = l - 1
    BY <1>1, <1>7
  <2>2. k \in Int /\ l \in Int /\ k - 1 < l - 1
    BY <1>1, <1>9
  <2>3. FileAt(k) # FileAt(l)
    BY <2>1, <2>2
  <2>4. ~(FileAt(l) < FileAt(k))
    BY <2>1, <2>2, BeforeGrows
  <2> QED
    BY <2>1, <2>3, <2>4
<1> QED
  BY <1>7, <1>8, <1>9

LEMMA PageArithmetic ==
  ASSUME page \in Nat \ {0}
  PROVE  /\ (page - 1) * PageSize \in Nat /\ page * PageSize \in Nat
         /\ page * PageSize = (page - 1) * PageSize + PageSize
  BY FilesAssumption

LEMMA PageShows ==
  ASSUME listing \subseteq 1..FileCount, page \in Nat \ {0}
  PROVE  LET start == (page - 1) * PageSize IN
         /\ PageContent \in Seq(listing)
         /\ start <= Count => start + Len(PageContent) <= Count
         /\ (start <= Count /\ LastPage) => start + Len(PageContent) = Count
         /\ (start <= Count /\ ~LastPage) => start + Len(PageContent) = page * PageSize
         /\ \A k \in DOMAIN PageContent : PageContent[k] = FileAt(start + k)
<1> DEFINE start == (page - 1) * PageSize
<1>1. /\ start \in Nat /\ page * PageSize = start + PageSize
      /\ PageSize \in Nat \ {0} /\ Count \in Nat
  BY PageArithmetic, BeforeCounts, FilesAssumption
<1>2. Shown = IF start + PageSize < Count THEN start + PageSize ELSE Count
  BY <1>1 DEF Shown, Count
<1>3. PageContent = [k \in 1..(Shown - start) |-> FileAt(start + k)]
  BY DEF PageContent
<1> HIDE DEF start
<1>4. Shown - start \in Int /\ Shown <= Count
  BY <1>1, <1>2
<1>5. \A k \in 1..(Shown - start) : start + k \in 1..Count /\ FileAt(start + k) \in listing
  BY <1>1, <1>2, <1>4, PlacesEnumerate
<1>6. /\ PageContent \in Seq(listing)
      /\ Len(PageContent) = IF Shown - start < 0 THEN 0 ELSE Shown - start
      /\ DOMAIN PageContent = 1..(Shown - start)
  <2>1. CASE Shown - start < 0
    <3>1. 1..(Shown - start) = {} /\ 1..(Shown - start) = 1..0
      BY <1>4, <2>1
    <3>2. PageContent = <<>>
      BY <1>3, <3>1
    <3> QED
      BY <2>1, <3>1, <3>2
  <2>2. CASE Shown - start >= 0
    <3>1. PageContent \in [1..(Shown - start) -> listing] /\ Shown - start \in Nat
      BY <1>3, <1>4, <1>5, <2>2
    <3> QED
      BY <2>2, <3>1
  <2> QED
    BY <1>4, <2>1, <2>2
<1>7. \A k \in DOMAIN PageContent : PageContent[k] = FileAt(start + k)
  BY <1>3, <1>6
<1>8. LastPage <=> Len(PageContent) < PageSize
  BY DEF LastPage
<1> QED
  BY <1>1, <1>2, <1>4, <1>6, <1>7, <1>8 DEF start

(* What has been read is the beginning of the list, and all of it once     *)
(* a page was not full.                                                    *)
ReadInOrder == Len(files) <= Count /\ \A k \in DOMAIN files : files[k] = FileAt(k)

FilesInv ==
  /\ (stage = "listing" /\ ~shifted) => ReadInOrder /\ Len(files) = (page - 1) * PageSize
  /\ (stage \in {"listed", "selected"} /\ ~shifted) => ReadInOrder /\ Len(files) = Count
  /\ stage = "selected" => selected = {i \in Truncated(files, limit) : files[i] \notin ignored}

LEMMA WiderSeq ==
  ASSUME NEW S, NEW T, S \subseteq T, NEW s \in Seq(S)
  PROVE  s \in Seq(T)
<1>1. /\ Len(s) \in Nat /\ s = [k \in 1..Len(s) |-> s[k]]
      /\ \A k \in 1..Len(s) : s[k] \in T
  OBVIOUS
<1>2. s \in [1..Len(s) -> T]
  BY <1>1
<1> QED
  BY <1>1, <1>2

LEMMA ReadingInOrder ==
  ASSUME TypeOK, FilesInv, ListFiles
  PROVE  /\ files' \in Seq(1..FileCount) /\ page' \in Nat \ {0}
         /\ ~shifted => /\ Len(files') <= Count /\ \A k \in DOMAIN files' : files'[k] = FileAt(k)
                        /\ stage' = "listing" => Len(files') = (page' - 1) * PageSize
                        /\ stage' = "listed" => Len(files') = Count
<1>1. /\ listing \subseteq 1..FileCount /\ page \in Nat \ {0} /\ files \in Seq(1..FileCount)
      /\ stage = "listing" /\ files' = files \o PageContent
      /\ page' = IF LastPage THEN page ELSE page + 1
      /\ stage' = IF LastPage THEN "listed" ELSE "listing"
  BY DEF ListFiles, ReadPage, TypeOK
<1>2. PageContent \in Seq(listing)
  BY <1>1, PageShows
<1>3. PageContent \in Seq(1..FileCount)
  BY <1>1, <1>2, WiderSeq
<1>4. /\ files' \in Seq(1..FileCount) /\ Len(files') = Len(files) + Len(PageContent)
      /\ Len(files) \in Nat /\ Len(PageContent) \in Nat
      /\ DOMAIN files = 1..Len(files) /\ DOMAIN PageContent = 1..Len(PageContent)
      /\ \A k \in DOMAIN files' :
           IF k <= Len(files) THEN k \in DOMAIN files /\ files'[k] = files[k]
           ELSE k - Len(files) \in DOMAIN PageContent /\ files'[k] = PageContent[k - Len(files)]
  BY <1>1, <1>3
<1>5. ASSUME ~shifted
      PROVE  /\ Len(files') <= Count /\ \A k \in DOMAIN files' : files'[k] = FileAt(k)
             /\ stage' = "listing" => Len(files') = (page' - 1) * PageSize
             /\ stage' = "listed" => Len(files') = Count
  <2> DEFINE start == (page - 1) * PageSize
  <2>1. /\ Len(files) = start /\ start <= Count
        /\ \A k \in DOMAIN files : files[k] = FileAt(k)
    BY <1>1, <1>5 DEF FilesInv, ReadInOrder
  <2>2. /\ start + Len(PageContent) <= Count
        /\ LastPage => start + Len(PageContent) = Count
        /\ ~LastPage => start + Len(PageContent) = page * PageSize
        /\ \A k \in DOMAIN PageContent : PageContent[k] = FileAt(start + k)
    BY <1>1, <2>1, PageShows
  <2>3. \A k \in DOMAIN files' : files'[k] = FileAt(k)
    <3> SUFFICES ASSUME NEW k \in DOMAIN files' PROVE files'[k] = FileAt(k)
      OBVIOUS
    <3>1. CASE k <= Len(files)
      BY <1>4, <2>1, <3>1
    <3>2. CASE ~(k <= Len(files))
      <4>1. k \in Int /\ start + (k - Len(files)) = k
        BY <1>4, <2>1
      <4> QED
        BY <1>4, <2>2, <3>2, <4>1
    <3> QED
      BY <3>1, <3>2
  <2>4. ~LastPage => (page' - 1) * PageSize = page * PageSize
    <3>1. ~LastPage => page' - 1 = page
      BY <1>1
    <3> QED
      BY <3>1
  <2> HIDE DEF start
  <2> QED
    BY <1>1, <1>4, <2>1, <2>2, <2>3, <2>4
<1> QED
  BY <1>1, <1>4, <1>5

LEMMA FilesInitially == Init => TypeOK /\ FilesInv
<1> SUFFICES ASSUME Init PROVE TypeOK /\ FilesInv
  OBVIOUS
<1>1. /\ listing \subseteq 1..FileCount /\ shifted = FALSE /\ page = 1 /\ files = <<>> /\ limit = 0
      /\ ignored = {} /\ selected = {} /\ stage = "listing"
  BY DEF Init, FilesInit, NothingRead
<1>2. FindingsTypeOK
  BY DEF Init, FindingsInit, FindingsTypeOK
<1>3. TypeOK
  <2>1. mode = "none" /\ answered = <<>> /\ comments = {} /\ event = "none"
    BY DEF Init
  <2>2. files \in Seq(1..FileCount) /\ selected \subseteq DOMAIN files
    BY <1>1
  <2>3. answered \in Seq(Finding)
    BY <2>1
  <2>4. page \in Nat \ {0} /\ limit \in Int
    BY <1>1
  <2>5. shifted \in BOOLEAN /\ ignored \subseteq 1..FileCount /\ comments \subseteq Finding
    BY <1>1, <2>1, Zenon
  <2>6. /\ stage \in {"listing", "listed", "selected", "merging", "answered", "posted"}
        /\ mode \in {"none", "solo", "synthesized", "fallback"}
        /\ event \in {"none", "COMMENT", "REQUEST_CHANGES"}
    BY <1>1, <2>1
  <2> QED
    BY <1>1, <1>2, <2>2, <2>3, <2>4, <2>5, <2>6, Zenon DEF TypeOK
<1>4. (page - 1) * PageSize = 0
  BY <1>1, FilesAssumption
<1>5. FilesInv
  BY <1>1, <1>4, BeforeCounts DEF FilesInv, ReadInOrder
<1> QED
  BY <1>3, <1>5

LEMMA AnswersAreFindings ==
  ASSUME NEW a \in Answers
  PROVE  a \in Seq(Finding)
  BY ContentAssumption DEF Answers

LEMMA ForgettingTypes ==
  ASSUME FilesForgotten
  PROVE  /\ listing' \subseteq 1..FileCount /\ shifted' \in BOOLEAN /\ page' \in Nat \ {0}
         /\ files' \in Seq(1..FileCount) /\ limit' \in Int
         /\ ignored' \subseteq 1..FileCount /\ selected' \subseteq DOMAIN files'
<1>1. /\ listing' = {} /\ shifted' = FALSE /\ page' = 1 /\ files' = <<>>
      /\ limit' = 0 /\ ignored' = {} /\ selected' = {}
  BY DEF FilesForgotten
<1>2. files' \in Seq(1..FileCount) /\ page' \in Nat \ {0} /\ limit' \in Int
  BY <1>1
<1>3. shifted' \in BOOLEAN
  BY <1>1, Zenon
<1>4. listing' \subseteq 1..FileCount /\ ignored' \subseteq 1..FileCount /\ selected' \subseteq DOMAIN files'
  BY <1>1, Zenon
<1> QED
  BY <1>2, <1>3, <1>4

LEMMA TypeStep ==
  ASSUME TypeOK, FilesInv, FindingsTypeOK', [Next]_vars
  PROVE  TypeOK'
<1>1. CASE ListFiles
  <2>1. files' \in Seq(1..FileCount) /\ page' \in Nat \ {0}
    BY <1>1, ReadingInOrder
  <2>2. selected' \subseteq DOMAIN files'
    <3>1. selected = selected' /\ files' = files \o PageContent
      BY <1>1 DEF ListFiles, ReadPage
    <3>2. PageContent \in Seq(listing) /\ files \in Seq(1..FileCount) /\ selected \subseteq DOMAIN files
      BY PageShows DEF TypeOK
    <3> QED
      BY <3>1, <3>2
  <2> QED
    BY <1>1, <2>1, <2>2 DEF ListFiles, ReadPage, TypeOK, findingVars
<1>2. CASE Push
  BY <1>2 DEF Push, Relist, TypeOK, contentVars
<1>3. CASE SelectFiles
  <2>1. PICK n \in ConfigMax, skip \in SUBSET (1..FileCount) :
          LET most == IF n < MaxFiles THEN n ELSE MaxFiles
          IN  /\ limit' = most
              /\ ignored' = skip
              /\ selected' = {i \in Truncated(files, most) : files[i] \notin skip}
    BY <1>3 DEF SelectFiles, Select
  <2>2. limit' \in Int /\ ignored' \subseteq 1..FileCount
    BY <2>1, FilesAssumption
  <2>3. selected' \subseteq DOMAIN files
    BY <2>1 DEF Truncated, Slice
  <2> QED
    BY <1>3, <2>2, <2>3 DEF SelectFiles, Select, TypeOK, findingVars
<1>4. CASE NothingToReview \/ ReviewTogether
  <2>1. FilesForgotten
    BY <1>4 DEF NothingToReview, ReviewTogether
  <2> QED
    BY <1>4, <2>1, ForgettingTypes DEF NothingToReview, ReviewTogether, TypeOK
<1>5. CASE ReviewAlone
  <2>1. FilesForgotten /\ answered' \in Seq(Finding)
    BY <1>5, AnswersAreFindings DEF ReviewAlone
  <2> QED
    BY <1>5, <2>1, ForgettingTypes DEF ReviewAlone, TypeOK
<1>6. CASE MergeFinding
  BY <1>6 DEF MergeFinding, TypeOK, fileVars, contentVars
<1>7. CASE SynthesisAnswers
  BY <1>7, AnswersAreFindings DEF SynthesisAnswers, TypeOK, fileVars
<1>8. CASE SynthesisFails
  BY <1>8 DEF SynthesisFails, TypeOK, FindingsTypeOK, fileVars, findingVars
<1>9. CASE Post
  <2>1. Parsed(answered) \subseteq Finding
    BY DEF Parsed, TypeOK
  <2> QED
    BY <1>9, <2>1 DEF Post, ReviewEvent, TypeOK, fileVars, findingVars
<1>10. CASE UNCHANGED vars
  BY <1>10 DEF vars, fileVars, contentVars, TypeOK
<1> QED
  BY <1>1, <1>2, <1>3, <1>4, <1>5, <1>6, <1>7, <1>8, <1>9, <1>10 DEF Next

LEMMA FilesStep ==
  ASSUME TypeOK, FilesInv, [Next]_vars
  PROVE  FilesInv'
<1>1. CASE ListFiles
  <2>1. UNCHANGED <<listing, shifted>> /\ stage' \in {"listing", "listed"}
    BY <1>1 DEF ListFiles, ReadPage
  <2>2. Count' = Count /\ \A k : FileAt(k)' = FileAt(k)
    BY <2>1 DEF Count, FileAt, Before
  <2> QED
    BY <1>1, <2>1, <2>2, ReadingInOrder DEF FilesInv, ReadInOrder
<1>2. CASE Push
  BY <1>2 DEF Push, Relist, contentVars, FilesInv
<1>3. CASE SelectFiles
  <2>1. /\ UNCHANGED <<listing, shifted, files>> /\ stage = "listed" /\ stage' = "selected"
        /\ selected' = {i \in Truncated(files, limit') : files[i] \notin ignored'}
    BY <1>3 DEF SelectFiles, Select
  <2>2. Count' = Count /\ \A k : FileAt(k)' = FileAt(k)
    BY <2>1 DEF Count, FileAt, Before
  <2> QED
    BY <2>1, <2>2 DEF FilesInv, ReadInOrder, Truncated, Slice
<1>4. CASE NothingToReview \/ ReviewTogether \/ ReviewAlone \/ MergeFinding \/ SynthesisAnswers
           \/ SynthesisFails \/ Post
  <2>1. stage' \in {"answered", "merging", "posted"}
    BY <1>4 DEF NothingToReview, ReviewTogether, ReviewAlone, MergeFinding, SynthesisAnswers,
                SynthesisFails, Post, contentVars
  <2> QED
    BY <2>1 DEF FilesInv
<1>5. CASE UNCHANGED vars
  BY <1>5 DEF vars, fileVars, contentVars, FilesInv, ReadInOrder, Count, FileAt, Before, Truncated, Slice
<1> QED
  BY <1>1, <1>2, <1>3, <1>4, <1>5 DEF Next

(* Whatever the pages show and the reviewers answer, the variables keep    *)
(* their types; the positions that were selected exist (get_diff,          *)
(* _execute_review).                                                       *)
FilesAreTyped == TypeOK /\ FilesInv

LEMMA FilesInvariance == Spec => []FilesAreTyped
<1>1. Init => FilesAreTyped
  BY FilesInitially DEF FilesAreTyped
<1>2. IInv' => FindingsTypeOK'
  BY DEF IInv, MergeInv
<1>3. FilesAreTyped /\ IInv' /\ [Next]_vars => FilesAreTyped'
  BY <1>2, TypeStep, FilesStep DEF FilesAreTyped
<1> QED
  BY Invariance, <1>1, <1>3, PTL DEF Spec

(* The variables keep their types (ReviewContent).                         *)
THEOREM TypeCorrect == Spec => []TypeOK
<1>1. FilesAreTyped => TypeOK
  BY DEF FilesAreTyped
<1> QED
  BY FilesInvariance, <1>1, PTL

(* A cut list is left with the files up to Room, whatever the sign of the  *)
(* limit.                                                                  *)
LEMMA CutIsRoom ==
  ASSUME listing \subseteq 1..FileCount, limit \in Int, files \in Seq(1..FileCount),
         Len(files) = Count
  PROVE  Truncated(files, limit) = {i \in DOMAIN files : i <= Room}
<1>1. Count \in Nat /\ DOMAIN files = 1..Len(files) /\ Len(files) \in Nat
  BY BeforeCounts
<1>2. Room = IF limit < 0 THEN Count + limit ELSE limit
  BY DEF Room, Count
<1>3. CASE Len(files) > limit
  <2>1. Truncated(files, limit) = Slice(files, limit)
    BY <1>3 DEF Truncated
  <2>2. (IF limit >= 0 THEN limit ELSE Len(files) + limit) = Room
    BY <1>1, <1>2
  <2> QED
    BY <2>1, <2>2 DEF Slice
<1>4. CASE ~(Len(files) > limit)
  <2>1. Truncated(files, limit) = DOMAIN files
    BY <1>4 DEF Truncated
  <2>2. \A i \in DOMAIN files : i <= Room
    BY <1>1, <1>2, <1>4
  <2> QED
    BY <2>1, <2>2
<1> QED
  BY <1>3, <1>4

(* The files reviewed are the first ones up to the limit that are not      *)
(* ignored, each once and in order, whatever the number of pages, as long  *)
(* as nobody pushes between two of them (get_diff, _execute_review).       *)
THEOREM SelectionHolds == Spec => []SelectionIsExact
<1>1. FilesAreTyped => SelectionIsExact
  <2> SUFFICES ASSUME TypeOK, FilesInv, stage = "selected", ~shifted
               PROVE  /\ {files[i] : i \in selected} =
                           {f \in listing \ ignored : Cardinality(Before(f)) < Room}
                      /\ \A i, j \in selected : i < j => files[i] < files[j]
    BY DEF FilesAreTyped, SelectionIsExact
  <2>1. listing \subseteq 1..FileCount /\ files \in Seq(1..FileCount) /\ limit \in Int
    BY DEF TypeOK
  <2>2. /\ Len(files) = Count /\ \A k \in DOMAIN files : files[k] = FileAt(k)
        /\ selected = {i \in Truncated(files, limit) : files[i] \notin ignored}
    BY DEF FilesInv, ReadInOrder
  <2>3. selected = {i \in 1..Count : i <= Room /\ FileAt(i) \notin ignored}
    BY <2>1, <2>2, CutIsRoom
  <2>4. \A i \in 1..Count : files[i] = FileAt(i)
    BY <2>1, <2>2
  <2>5. Count \in Nat /\ Room \in Int
    BY <2>1, BeforeCounts DEF Room, Count
  <2>6. ASSUME NEW i \in selected
        PROVE  files[i] \in {f \in listing \ ignored : Cardinality(Before(f)) < Room}
    <3>1. i \in 1..Count /\ i <= Room /\ FileAt(i) \notin ignored /\ files[i] = FileAt(i)
      BY <2>3, <2>4
    <3>2. FileAt(i) \in listing /\ Cardinality(Before(FileAt(i))) = i - 1
      BY <2>1, <3>1, PlacesEnumerate
    <3>3. i - 1 < Room
      BY <2>5, <3>1
    <3> QED
      BY <3>1, <3>2, <3>3
  <2>7. ASSUME NEW f \in listing \ ignored, Cardinality(Before(f)) < Room
        PROVE  \E i \in selected : files[i] = f
    <3> DEFINE i == Cardinality(Before(f)) + 1
    <3>1. i \in 1..Count /\ FileAt(i) = f
      BY <2>1, PlacesEnumerate
    <3>2. i <= Room
      BY <2>1, <2>5, <2>7, BeforeCounts
    <3>3. i \in selected /\ files[i] = f
      BY <2>3, <2>4, <3>1, <3>2
    <3> QED
      BY <3>3
  <2>8. \A i, j \in selected : i < j => files[i] < files[j]
    BY <2>1, <2>3, <2>4, PlacesEnumerate
  <2> QED
    BY <2>6, <2>7, <2>8
<1> QED
  BY FilesInvariance, <1>1, PTL
=============================================================================
