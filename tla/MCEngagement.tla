---------------------------- MODULE MCEngagement ----------------------------
(***************************************************************************)
(* Instances of Engagement: two tabs, two values for the slots and three   *)
(* for the notes.                                                          *)
(***************************************************************************)
EXTENDS Engagement

CONSTANTS t1, t2, s1, s2, blank, x1, x2

TwoTabs == {t1, t2}
TwoSlots == {s1, s2}
ThreeTexts == {blank, x1, x2}
InStep == ~behind
Few == [edits |-> 3, losses |-> 1, visits |-> 3, calls |-> 2]
=============================================================================
