--------------------------- MODULE MCSurveyDraft ---------------------------
(***************************************************************************)
(* Instance of SurveyDraft: two devices and one file.  Sums of edits,      *)
(* visits, faults and ageings are bounded more tightly where the second    *)
(* device or the file takes part; where only AnswerKept says anything,     *)
(* what follows a mishap is left out.                                      *)
(***************************************************************************)
EXTENDS SurveyDraft

CONSTANTS d1, d2, f1

TwoDevices == {d1, d2}
OneFile == {f1}
Few == [edits |-> 2, puts |-> 2, faults |-> 1, ageings |-> 1, visits |-> 2]

Spent == used.faults + used.ageings + used.visits
Alone == form[d2] = Unopened /\ asking[d2]
NoFile == \A f \in Files : row[f] = "absent"
Saves == Cardinality(puts[d1]) + Cardinality(puts[d2])
Together ==
    \/ Alone /\ NoFile /\ mishaps = {} /\ typed + Spent =< 4
    \/ Alone /\ 2 * typed + Spent =< 3 /\ Saves =< 1
    \/ NoFile /\ mishaps = {} /\ used.faults = 0 /\ typed + Spent =< 3 /\ Saves =< 1
=============================================================================
