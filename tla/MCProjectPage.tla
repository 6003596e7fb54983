--------------------------- MODULE MCProjectPage ---------------------------
(***************************************************************************)
(* Instances of ProjectPage: the pages of the second and of the third      *)
(* role, on a project with any number of sign-offs; the lead has two       *)
(* handlers, so that two saves of one page overlap.                        *)
(***************************************************************************)
EXTENDS ProjectPage

CONSTANTS gbi, pml, g1, p1, p2, e1

TwoUsers == {gbi, pml}
TheirRoles == [u \in TwoUsers |->
    IF u = gbi THEN "gbi_champion" ELSE "platform_migration_lead"]
ThreeHandlers == {g1, p1, p2}
TheirUsers == [h \in ThreeHandlers |-> IF h = g1 THEN gbi ELSE pml]
TheirTasks == [h \in ThreeHandlers |->
    CASE h = g1 -> {"approve"} [] h = p2 -> {"save", "complete"}
      [] OTHER -> {"approve", "block", "unblock", "retry"}]
OneEdit == {e1}
Few == [clicks |-> 3, upsets |-> 1, failures |-> 1]
=============================================================================
