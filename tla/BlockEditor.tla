---------------------------- MODULE BlockEditor ----------------------------
(***************************************************************************)
(* The block editor of the notes (packages/notion-editor): a list of       *)
(* blocks in which a block of columns or of tabs holds lists of its own,   *)
(* each shown by a nested editor, and the drag that carries a block from   *)
(* one list to another through a state all editors share (drag-state.ts).  *)
(*                                                                         *)
(* doc is the list of the outermost editor, which is what its host saves:  *)
(* the order of the blocks and, for each layout block in it, its lists.    *)
(* shown is what the nested editors hold themselves (localBlocks).  A      *)
(* plain block is a number, the layout blocks are constants.               *)
(*                                                                         *)
(* An action is one event of the browser with all the state updates and    *)
(* effects that follow it.  Inside an event the code reads three copies of *)
(* the document: the state itself through functional updates (patchBlock,  *)
(* extractBlock), the copy of the last render through blocksRef and the    *)
(* columns of a closure.  The unprimed doc is the last two.                *)
(***************************************************************************)
EXTENDS Naturals, FiniteSets, SequencesExt

CONSTANTS
    Columns,    \* ids of blocks of columns
    Tabs,       \* ids of blocks of tabs
    Start,      \* documents the editor may be opened with
    Limit,      \* bounds: blocks ever made, operations of the user, columns, tabs
    Nobody      \* no drag

Layouts == Columns \cup Tabs
Plain == 1 .. Limit.blocks
Parts == Seq(Seq(Plain))
Top == <<>>     \* the outermost list; the list i of layout l is <<l, i>>

VARIABLES
    doc,        \* [list, parts, active]: blocks in order, the lists of each layout, the tab open
    shown,      \* [Layouts -> the lists as the nested editors hold them]
    drag,       \* the drag of drag-state.ts: block and the list it is taken from
    exits,      \* columns that fade out: timers of removeColumn
    made,       \* plain blocks 1 .. made exist or existed
    deleted,    \* plain blocks the user has deleted
    mishaps,    \* what has gone wrong that may lose or double a block
    done        \* operations of the user so far

vars == <<doc, shown, drag, exits, made, deleted, mishaps, done>>

TypeOK ==
    /\ doc.list \in Seq(Plain \cup Layouts) /\ doc.list # <<>>
    /\ \A l \in Layouts : /\ doc.parts[l] \in Parts
                          /\ l \notin Range(doc.list) => doc.parts[l] = <<>>
                          /\ Len(shown[l]) = Len(doc.parts[l])
    /\ \A c \in Columns \cap Range(doc.list) :
           Len(doc.parts[c]) >= 2 /\ <<>> \notin Range(doc.parts[c])
    /\ \A t \in Tabs \cap Range(doc.list) : doc.active[t] \in DOMAIN doc.parts[t]
    /\ drag = Nobody \/ drag.block \in Plain \cup Tabs
    /\ \A e \in exits : e.col \in DOMAIN e.cols
    /\ made =< Limit.blocks /\ deleted \subseteq 1 .. made

---------------------------------------------------------------------------
\* Lists.

PlaceOf(s, x) == CHOOSE n \in DOMAIN s : s[n] = x
After(s, n, x) == InsertAt(s, n + 1, x)
Without(s, x) == SelectSeq(s, LAMBDA y : y # x)
Least(a, b) == IF a =< b THEN a ELSE b

\* x put above or below the k-th block of s, wherever it was before; a block
\* that is dropped below itself passes its successor.
Dropped(s, k, x, where) ==
    LET gap == IF x \in Range(s) /\ PlaceOf(s, x) < k THEN 1 ELSE 0
        rest == Without(s, x)
        n == IF where = "below" THEN k - gap ELSE k - gap - 1
    IN After(rest, Least(n, Len(rest)), x)

\* Mutant of Taken: the emptied column stays.
TakenKeepsEmpty(cols, x) == [n \in DOMAIN cols |-> Without(cols[n], x)]

\* The columns without block x, and without the column it leaves empty.
Taken(cols, x) == SelectSeq([n \in DOMAIN cols |-> Without(cols[n], x)], LAMBDA c : c # <<>>)

\* x becomes a column of its own after n others.
AsColumn(cols, n, x) ==
    LET emptied == {m \in DOMAIN cols : cols[m] = <<x>>}
        at == IF \E m \in emptied : m =< n THEN n - 1 ELSE n
    IN After(Taken(cols, x), at, <<x>>)

\* Mutant of HomeOf: no move within the columns is recognised.
HomeUnknown(cols, x) == 0

\* The column x is in, 0 for none.
HomeOf(cols, x) == IF \E n \in DOMAIN cols : x \in Range(cols[n])
                   THEN CHOOSE n \in DOMAIN cols : x \in Range(cols[n]) ELSE 0

---------------------------------------------------------------------------
\* The document and its editors.

\* patchBlock with new lists for l: nothing where l is no longer in the list.
Patch(d, l, parts) == IF l \in Range(d.list) THEN [d EXCEPT !.parts[l] = parts] ELSE d

\* flattenBlock: the blocks bs take the place of l in document d.
Flatten(d, l, bs) ==
    IF l \notin Range(d.list) THEN d
    ELSE LET n == PlaceOf(d.list, l)
         IN [d EXCEPT !.list = SubSeq(@, 1, n - 1) \o bs \o SubSeq(@, n + 1, Len(@)),
                      !.parts[l] = <<>>]

\* extractBlock, removeBlock: the outermost list and the list of a tab are
\* never left empty, a column may be.
Filled(p, s) == IF s = <<>> /\ (p = Top \/ p[1] \in Tabs) THEN <<made + 1>> ELSE s

\* What the list bs, reported by the nested editor of list i of l, makes of
\* document d.  base is what blocksRef holds.
Report(d, base, l, i, bs) ==
    LET lists == doc.parts[l]
    IN IF l \in Columns /\ bs = <<>>
       THEN IF Len(lists) = 2 THEN Flatten(base, l, lists[3 - i]) ELSE d
       ELSE Patch(d, l, ReplaceAt(lists, i, bs))

\* The timers after that report: an emptied column of three or more fades out.
Fading(l, i, bs) ==
    IF l \in Columns /\ bs = <<>> /\ Len(doc.parts[l]) > 2
    THEN exits \cup {[layout |-> l, col |-> i, cols |-> doc.parts[l]]} ELSE exits

\* Mutant of Synced: an editor that is there already never takes new blocks.
SyncedOnce(d, own) ==
    [l \in Layouts |-> [i \in DOMAIN d.parts[l] |->
        IF i \in DOMAIN doc.parts[l] THEN own[l][i] ELSE d.parts[l][i]]]

\* The nested editors hold what they set themselves until their blocks change.
Synced(d, own) ==
    [l \in Layouts |-> [i \in DOMAIN d.parts[l] |->
        IF i \in DOMAIN doc.parts[l] /\ d.parts[l][i] = doc.parts[l][i]
           /\ d.active[l] = doc.active[l]
        THEN own[l][i] ELSE d.parts[l][i]]]

\* A layout that changes, or loses another column, while a column fades out.
Overlap(d, es, ts) ==
    IF \E e \in es : \/ d.parts[e.layout] # doc.parts[e.layout]
                     \/ \E f \in ts \ es : f.layout = e.layout
    THEN {"changed while fading"} ELSE {}

\* One event: the new document, what the nested editors set, the timers.
Commit(d, own, ts, why) ==
    /\ doc' = d
    /\ shown' = Synced(d, own)
    /\ exits' = ts
    /\ mishaps' = mishaps \cup why \cup Overlap(d, exits, ts)

\* The editors on the screen, and the list each of them holds.
Editors ==
    {Top} \cup UNION {{<<c, i>> : i \in DOMAIN doc.parts[c]} : c \in Columns}
          \cup {<<t, doc.active[t]>> : t \in {u \in Tabs : doc.parts[u] # <<>>}}
Held(p) == IF p = Top THEN doc.list ELSE shown[p[1]][p[2]]
Own(own, p, bs) == IF p = Top THEN own ELSE [own EXCEPT ![p[1]][p[2]] = bs]

Made(bs) == IF made + 1 \in Range(bs) THEN made + 1 ELSE made
Count == done < Limit.done /\ done' = done + 1

\* An editor sets its list to bs: the outermost at once, a nested one through
\* the block it is in.
SetList(p, bs) ==
    /\ made' = Made(bs)
    /\ IF p = Top
       THEN Commit([doc EXCEPT !.list = bs], shown, exits, {})
       ELSE Commit(Report(doc, doc, p[1], p[2], bs), Own(shown, p, bs), Fading(p[1], p[2], bs), {})

---------------------------------------------------------------------------
Init ==
    /\ doc \in Start
    /\ shown = doc.parts
    /\ made = Cardinality({x \in Plain : x \in Range(doc.list)}
                           \cup UNION {Range(FlattenSeq(doc.parts[l])) : l \in Layouts})
    /\ drag = Nobody /\ exits = {} /\ deleted = {} /\ mishaps = {} /\ done = 0

---------------------------------------------------------------------------
\* Typing and the menu of a block.

\* Enter, or "duplicate" in the menu: a new block below the k-th.
InsertBelow(p, k) ==
    /\ drag = Nobody /\ Count /\ made < Limit.blocks
    /\ SetList(p, After(Held(p), k, made + 1))
    /\ UNCHANGED <<drag, deleted>>

\* Backspace in an empty block, or "delete" in the menu; columns have no menu.
DeleteBlock(p, x) ==
    LET rest == Filled(p, Without(Held(p), x))
    IN /\ drag = Nobody /\ Count /\ x \in Plain /\ made < Limit.blocks
       /\ deleted' = deleted \cup {x}
       /\ SetList(p, rest)
       /\ UNCHANGED drag

DeleteTabs(t) ==
    LET rest == Filled(Top, Without(doc.list, t))
    IN /\ drag = Nobody /\ Count /\ made < Limit.blocks
       /\ deleted' = deleted \cup Range(FlattenSeq(doc.parts[t]))
       /\ made' = Made(rest)
       /\ Commit([doc EXCEPT !.list = rest, !.parts[t] = <<>>], shown, exits, {})
       /\ UNCHANGED drag

\* The slash menu below a block that is not empty.
InsertColumns(k, c) ==
    /\ drag = Nobody /\ Count /\ made + 1 < Limit.blocks
    /\ c \notin Range(doc.list) /\ \A e \in exits : e.layout # c
    /\ made' = made + 2
    /\ Commit([doc EXCEPT !.list = After(@, k, c), !.parts[c] = <<<<made + 1>>, <<made + 2>>>>],
              shown, exits, {})
    /\ UNCHANGED <<drag, deleted>>

\* removeColumn's timer: the columns are stored as they were when it started.
FadeOut(e) ==
    /\ Commit(Patch(doc, e.layout, RemoveAt(e.cols, e.col)), shown, exits \ {e}, {})
    /\ UNCHANGED <<drag, made, deleted, done>>

---------------------------------------------------------------------------
\* Tabs.

ClickTab(t, i) ==
    /\ drag = Nobody /\ i # doc.active[t]
    /\ Commit([doc EXCEPT !.active[t] = i], shown, exits, {})
    /\ UNCHANGED <<drag, made, deleted, done>>

AddTab(t) ==
    /\ drag = Nobody /\ Count /\ Len(doc.parts[t]) < Limit.tabs
    /\ Commit([doc EXCEPT !.parts[t] = Append(@, <<>>), !.active[t] = Len(doc.parts[t]) + 1],
              shown, exits, {})
    /\ UNCHANGED <<drag, made, deleted>>

RemoveTab(t, i) ==
    /\ drag = Nobody /\ Count /\ Len(doc.parts[t]) > 1
    /\ deleted' = deleted \cup Range(doc.parts[t][i])
    /\ Commit([doc EXCEPT !.parts[t] = RemoveAt(@, i),
                          !.active[t] = Least(@, Len(doc.parts[t]) - 1)], shown, exits, {})
    /\ UNCHANGED <<drag, made>>

\* A click on the text of an empty tab.
FillTab(t) ==
    /\ drag = Nobody /\ Count /\ made < Limit.blocks
    /\ doc.parts[t][doc.active[t]] = <<>>
    /\ SetList(<<t, doc.active[t]>>, <<made + 1>>)
    /\ UNCHANGED <<drag, deleted>>

---------------------------------------------------------------------------
\* The drag.

StartDrag(p, x) ==
    /\ drag = Nobody /\ done < Limit.done
    /\ x \notin Columns
    /\ p # Top => \A e \in exits : e.layout # p[1]
    /\ drag' = [block |-> x, from |-> p]
    /\ UNCHANGED <<doc, shown, exits, made, deleted, mishaps, done>>

CancelDrag ==
    /\ drag # Nobody /\ drag' = Nobody
    /\ UNCHANGED <<doc, shown, exits, made, deleted, mishaps, done>>

\* finishDrag after the target has made document d: removeFromSource takes the
\* block out of the list it came from.
Finish(d, base, own) ==
    LET p == drag.from
        rest == Filled(p, Without(IF p = Top THEN d.list ELSE Held(p), drag.block))
    IN /\ made' = Made(rest)
       /\ IF p = Top THEN Commit([d EXCEPT !.list = rest], own, exits, {})
          ELSE Commit(Report(d, base, p[1], p[2], rest), Own(own, p, rest), Fading(p[1], p[2], rest),
                      IF base # d /\ rest = <<>> /\ Len(doc.parts[p[1]]) = 2
                      THEN {"flattened a copy without the block"} ELSE {})

\* The drag is over; done counts it.
Drops == drag # Nobody /\ drag' = Nobody /\ Count /\ made < Limit.blocks /\ UNCHANGED deleted

\* Onto a row of the outermost editor.
DropOnRow(k, where) ==
    LET d == [doc EXCEPT !.list = Dropped(@, k, drag.block, where)]
    IN /\ Drops
       /\ where = "above" => doc.list[k] \in Columns
       /\ IF drag.from = Top THEN Commit(d, shown, exits, {}) /\ UNCHANGED made
          ELSE Finish(d, d, shown)

\* Beside a plain row: the two become columns.
DropBeside(k, left, c) ==
    LET x == drag.block
        y == doc.list[k]
        d == [doc EXCEPT !.list = Without([@ EXCEPT ![k] = c], x),
                         !.parts[c] = IF left THEN <<<<x>>, <<y>>>> ELSE <<<<y>>, <<x>>>>]
    IN /\ Drops /\ x \in Plain /\ y \in Plain /\ y # x
       /\ c \notin Range(doc.list) /\ \A e \in exits : e.layout # c
       /\ IF drag.from = Top THEN Commit(d, shown, exits, {}) /\ UNCHANGED made
          ELSE Finish(d, d, shown)

\* Into the n-th gap of columns: by the row, which sets blocksRef, or by the
\* handle between two columns, which does not.
DropAsColumn(c, n, byRow) ==
    LET cols == doc.parts[c]
        x == drag.block
        d == Patch(doc, c, After(cols, n, <<x>>))
    IN /\ Drops /\ x \in Plain
       /\ Len(cols) < Limit.columns
       /\ IF byRow THEN Len(cols) < 4 \/ n \in {0, Len(cols)} ELSE Len(cols) < 5 /\ n \in 1 .. Len(cols) - 1
       /\ IF HomeOf(cols, x) # 0
          THEN Commit(Patch(doc, c, AsColumn(cols, n, x)), shown, exits, {}) /\ UNCHANGED made
          ELSE Finish(d, IF byRow THEN d ELSE doc, shown)

\* Onto a row of a nested editor.  A move between two columns of one block is
\* made as one change, and the drag is cancelled before it takes the block
\* from its source.
DropInside(p, k) ==
    LET l == p[1]
        i == p[2]
        cols == doc.parts[l]
        x == drag.block
        bs == Dropped(Held(p), k, x, "below")
        moved == SelectSeq([j \in DOMAIN cols |-> IF j = i THEN bs ELSE Without(cols[j], x)],
                           LAMBDA c : c # <<>>)
        own == Own(shown, p, bs)
    IN /\ Drops /\ x \in Plain
       /\ IF l \in Columns /\ HomeOf(cols, x) \notin {0, i}
          THEN /\ Commit(IF Len(moved) = 1 THEN Flatten(doc, l, moved[1]) ELSE Patch(doc, l, moved),
                         own, exits, {})
               /\ UNCHANGED made
          ELSE IF x \in Range(Held(p))
          THEN SetList(p, bs)
          ELSE Finish(Report(doc, doc, l, i, bs), doc, own)

\* Onto the text of an empty tab.
DropInEmptyTab(t) ==
    LET i == doc.active[t]
    IN /\ Drops /\ drag.block \in Plain /\ doc.parts[t][i] = <<>>
       /\ Finish(Report(doc, doc, t, i, <<drag.block>>), doc, shown)

\* A block of tabs onto its own inside: it is put there, then taken out of the
\* list it was in, and everything in it goes with it.
DropInItself(t) ==
    /\ Drops /\ drag.block = t
    /\ LET rest == Filled(Top, Without(doc.list, t))
       IN /\ made' = Made(rest)
          /\ Commit([doc EXCEPT !.list = rest, !.parts[t] = <<>>], shown, exits,
                    {"dropped into itself"})

---------------------------------------------------------------------------
Present(S) == S \cap Range(doc.list)

Next ==
    \/ \E p \in Editors, k \in 1 .. Limit.blocks : k \in DOMAIN Held(p) /\
           (InsertBelow(p, k) \/ DeleteBlock(p, Held(p)[k]) \/ StartDrag(p, Held(p)[k])
            \/ (p # Top /\ DropInside(p, k)))
    \/ \E t \in Present(Tabs) :
           \/ DeleteTabs(t) \/ AddTab(t) \/ FillTab(t) \/ DropInEmptyTab(t) \/ DropInItself(t)
           \/ \E i \in DOMAIN doc.parts[t] : ClickTab(t, i) \/ RemoveTab(t, i)
    \/ \E k \in DOMAIN doc.list :
           \/ \E where \in {"above", "below"} : DropOnRow(k, where)
           \/ \E c \in Columns : InsertColumns(k, c) \/ \E left \in BOOLEAN : DropBeside(k, left, c)
    \/ \E c \in Present(Columns), byRow \in BOOLEAN : \E n \in 0 .. Len(doc.parts[c]) :
           DropAsColumn(c, n, byRow)
    \/ \E e \in exits : FadeOut(e)
    \/ CancelDrag

Spec == Init /\ [][Next]_vars

---------------------------------------------------------------------------
Everything == SelectSeq(doc.list, LAMBDA x : x \in Plain)
              \o FlattenSeq(FlattenSeq([n \in DOMAIN doc.list |->
                    IF doc.list[n] \in Layouts THEN doc.parts[doc.list[n]] ELSE <<>>]))
Copies(x) == Cardinality({n \in DOMAIN Everything : Everything[n] = x})

\* However blocks are dragged between the lists, each one the user has not
\* deleted is in the document exactly once, and a deleted one is not, not
\* counting columns that fade out, short of a named mishap.
BlocksKept ==
    mishaps = {} =>
        \A x \in 1 .. made :
            Copies(x) = (IF x \in deleted THEN 0 ELSE 1)
                        + Cardinality({e \in exits : e.cols[e.col] = <<x>>})

\* Once no column fades out the nested editors show what the document holds,
\* so that what is saved is what the user sees, short of a named mishap.
ScreenIsDocument == mishaps = {} /\ exits = {} => shown = doc.parts
=============================================================================
