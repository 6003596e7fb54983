--------------------------- MODULE MCBlockEditor ---------------------------
(***************************************************************************)
(* Instance of BlockEditor: a document with a block of three columns and   *)
(* one of two, and one with two columns and tabs, up to three operations.  *)
(***************************************************************************)
EXTENDS BlockEditor

CONSTANTS a, b, t

TwoColumns == {a, b}
OneTabs == {t}
Few == [blocks |-> 8, done |-> 3, columns |-> 5, tabs |-> 3]
Open == [l \in Layouts |-> 1]
Documents ==
    {[list |-> <<1, a, b>>, active |-> Open,
      parts |-> [l \in Layouts |-> CASE l = a -> <<<<2>>, <<3>>, <<4>>>>
                                     [] l = b -> <<<<5>>, <<6>>>> [] OTHER -> <<>>]],
     [list |-> <<a, t>>, active |-> Open,
      parts |-> [l \in Layouts |-> CASE l = a -> <<<<1>>, <<2, 3>>>>
                                     [] l = t -> <<<<4>>, <<>>>> [] OTHER -> <<>>]]}
=============================================================================
