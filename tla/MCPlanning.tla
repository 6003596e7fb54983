----------------------------- MODULE MCPlanning -----------------------------
(***************************************************************************)
(* Instances of Planning: two projects, one with two presets, two tabs, a  *)
(* file that replaces both plans and one with an entry it cannot read.     *)
(***************************************************************************)
EXTENDS Planning

CONSTANTS t1, t2, a1, b1, a2, c, u, w1

TwoTabs == {t1, t2}
ThreePresets == (1 :> {a1, b1}) @@ (2 :> {a2})
OneNamed == {c}
OneRandom == {u}
OneWave == {w1}

Plan1 == (a1 :> {}) @@ (b1 :> {a1})
Plan2 == a2 :> {b1}
OneStore == {<<[plan |-> Plan1, wave |-> Nothing], [plan |-> Plan2, wave |-> w1]>>}

Entry(p, ids, deps) == [project |-> p, ids |-> ids, deps |-> deps]
TwoFiles == {
    [named |-> {1, 2},
     entries |-> <<Entry(1, {a1, c}, << <<a1, a2>>, <<c, a1>> >>),
                   Entry(2, {a2}, << <<a2, c>>, <<a2, b1>> >>)>>],
    [named |-> {1, 2},
     entries |-> <<Entry(2, {a2, c}, << <<a2, c>>, <<c, a1>>, <<c, a2>> >>)>>]}
Few == [edits |-> 3, failures |-> 1, opens |-> 2]
Together == used.edits + used.failures + used.opens =< 4
Symmetric == Permutations(TwoTabs)
=============================================================================
