----------------------------- MODULE Engagement -----------------------------
(***************************************************************************)
(* The engagement of one project and the browser tabs that edit it: the    *)
(* calendar with its drawer (EngagementCalendarPage, EngagementDrawer,     *)
(* MonthCalendar), the notes editor that saves by itself                   *)
(* (EngagementNotesEditPage) and the notes page with its export            *)
(* (EngagementNotesPage, ConfluenceExportDialog).  Every save sends the    *)
(* whole engagement, and _replace_engagement writes every field of it.     *)
(*                                                                         *)
(* A tab keeps a copy of the engagement from its last GET.  Requests are   *)
(* messages: the backend may serve them in any order and answers may be    *)
(* lost.  The slots of the engagement are one value, its notes another;    *)
(* Blank stands for no notes and for the two default blocks.               *)
(***************************************************************************)
EXTENDS Naturals

CONSTANTS
    Tabs,       \* browser tabs of platform migration leads
    Slots,      \* values of plannedSlots and the other drawer fields
    FirstSlot,  \* the value an engagement starts with
    Unplanned,  \* an engagement that has no slots yet
    Texts,      \* values of the notes
    Blank,      \* no notes
    Limit,      \* bounds: edits, losses, visits, calls of Zoom and Confluence
    Nothing

ASSUME EngagementAssumption ==
    /\ FirstSlot \in Slots /\ Blank \in Texts
    /\ Nothing \notin Slots \cup Texts \cup Nat /\ Unplanned \notin Slots \cup {Nothing}
    /\ Limit \in [edits : Nat, losses : Nat, visits : Nat, calls : Nat]

VARIABLES
    row,      \* the row of engagements
    latest,   \* what the users last gave each field
    tab,      \* [Tabs -> the page in the tab]
    net,      \* requests and answers under way
    meetings, \* meetings made at Zoom
    pages,    \* pages that exist in Confluence
    behind,   \* a copy in use may be behind the row
    used      \* counters against Limit

vars == <<row, latest, tab, net, meetings, pages, behind, used>>

---------------------------------------------------------------------------
(* Data *)

Calls == 0 .. Limit.calls
Row == [slots : Slots \cup {Unplanned, Nothing}, notes : Texts,
        zoom : Calls \cup {Nothing}, page : Calls \cup {Nothing}]
Fields == {"slots", "notes", "zoom", "page"}
ASSUME NothingIsNoRow == Nothing \notin Row

Pages == {"calendar", "notes", "view"}
Loads == {"list", "project"}
Patches == {"persist", "save", "drag"}
Remote == {"zoom", "export", "unexport"}

Closed == [at |-> "closed", copy |-> Nothing, draft |-> Nothing, edits |-> {},
           blocks |-> Nothing, saved |-> Nothing, pending |-> Nothing,
           status |-> "idle", odd |-> FALSE]

Tab == [at : Pages \cup {"closed"}, copy : Row \cup {Nothing}, draft : Row \cup {Nothing},
        edits : SUBSET Fields, blocks : Texts \cup {Nothing}, saved : Texts \cup {Nothing},
        pending : Texts \cup {Nothing}, status : {"idle", "saving", "saved", "error"},
        odd : BOOLEAN]
Messages(kinds, bodies) ==
    [tab : Tabs, kind : kinds, body : bodies, edits : SUBSET Fields,
     at : {"sent", "called", "served"}, gone : BOOLEAN]

Request(t, kind, body, edits) ==
    [tab |-> t, kind |-> kind, body |-> body, edits |-> edits, at |-> "sent", gone |-> FALSE]
Under(t, kind) == {q \in net : q.tab = t /\ q.kind = kind /\ ~q.gone}
Others(t) == \E u \in Tabs \ {t} : tab[u].at # "closed"

At(t, page) == tab[t].at = page
Ready(t, page) == At(t, page) /\ tab[t].copy # Nothing
Drawn(t) == Ready(t, "calendar") /\ tab[t].draft # Nothing
Count(c) == used[c] < Limit[c] /\ used' = [used EXCEPT ![c] = @ + 1]

---------------------------------------------------------------------------
(* Requests *)

\* The three pages read the project from two addresses.
Address(page) == IF page = "calendar" THEN "list" ELSE "project"

\* apiClient.get joins a GET of the address that is in flight.
Loading(t, page, rest) ==
    LET mine == {q \in rest : q.tab = t /\ q.kind = Address(page)} IN
    IF mine # {} THEN rest ELSE rest \cup {Request(t, Address(page), Nothing, {})}

\* Something is sent, or a drawer opened, while something else is under way or
\* another tab has a copy: from here on a copy in use may be behind the row.
Notice(t, rest) == behind' = (behind \/ rest # {} \/ Others(t))

Send(t, kind, body, edits) ==
    /\ net' = net \cup {Request(t, kind, body, edits)}
    /\ Notice(t, net)

\* What is under way for a page that is left: nobody takes its answer.
Left(t) == {IF q.tab = t /\ q.kind \notin Loads
            THEN [q EXCEPT !.gone = TRUE] ELSE q :
               q \in {p \in net : p.tab = t /\ p.at = "served"
                                  => p.kind \in Loads}}

\* The engagement of the page with other notes, which makes one if need be.
Noted(t, x) == [tab[t].copy EXCEPT !.notes = x,
                                   !.slots = IF @ = Nothing THEN Unplanned ELSE @]
NoteFields(t) == IF tab[t].copy.slots = Nothing THEN {"notes", "slots"} ELSE {"notes"}

\* The flush of the notes editor, on leaving it or on unload.
Flush(t) == IF At(t, "notes") /\ tab[t].pending \notin {Nothing, tab[t].saved}
            THEN {[Request(t, "persist", Noted(t, tab[t].pending), NoteFields(t))
                      EXCEPT !.gone = TRUE]}
            ELSE {}

---------------------------------------------------------------------------
(* The browser *)

\* Navigation: the page is unmounted, the next one is mounted and reads.
Go(t, page) == LET rest == Left(t) \cup Flush(t) IN
    /\ Count("visits")
    /\ tab' = [tab EXCEPT ![t] = [Closed EXCEPT !.at = page]]
    /\ net' = Loading(t, page, rest)
    /\ Notice(t, rest)
    /\ UNCHANGED <<row, latest, meetings, pages>>

\* handleBeforeUnload; what is in flight without keepalive may be aborted.
CloseTab(t) ==
    /\ ~At(t, "closed")
    /\ tab' = [tab EXCEPT ![t] = Closed]
    /\ \E aborted \in SUBSET {q \in net : q.tab = t /\ q.at = "sent" /\ ~q.gone} :
        net' = {q \in (Left(t) \cup Flush(t)) \ {[a EXCEPT !.gone = TRUE] : a \in aborted} :
                    q.kind \notin Loads \/ q.tab # t}
    /\ behind' = (behind \/ (Flush(t) # {} /\ (net # {} \/ Others(t))))
    /\ UNCHANGED <<row, latest, meetings, pages, used>>

\* The effect on [blocks]: what equals the last save cancels the timer.
Type(t, x) ==
    LET same == x = tab[t].saved
        saving == \E q \in net : q.tab = t /\ q.kind = "persist" IN
    /\ Ready(t, "notes") /\ x # tab[t].blocks /\ Count("edits")
    /\ tab' = [tab EXCEPT ![t].blocks = x,
                          ![t].pending = IF same THEN Nothing ELSE x,
                          ![t].status = IF same THEN "idle" ELSE "saving",
                          ![t].odd = @ \/ (same /\ saving)]
    /\ UNCHANGED <<row, latest, net, meetings, pages, behind>>

\* Mutant of TimerFires: one save at a time, what comes meanwhile is forgotten.
TimerSkips(t) ==
    LET x == tab[t].pending IN
    /\ Ready(t, "notes") /\ x # Nothing
    /\ tab' = [tab EXCEPT ![t].pending = Nothing]
    /\ IF x = tab[t].saved \/ Under(t, "persist") # {} THEN UNCHANGED <<net, behind>>
       ELSE Send(t, "persist", Noted(t, x), NoteFields(t))
    /\ UNCHANGED <<row, latest, meetings, pages, used>>

\* The debounce timer runs while there is something pending; persist.
TimerFires(t) ==
    LET x == tab[t].pending IN
    /\ Ready(t, "notes") /\ x # Nothing
    /\ tab' = [tab EXCEPT ![t].pending = Nothing]
    /\ IF x = tab[t].saved THEN UNCHANGED <<net, behind>>
       ELSE Send(t, "persist", Noted(t, x), NoteFields(t))
    /\ UNCHANGED <<row, latest, meetings, pages, used>>

\* handleVisibilityChange sends what is pending and leaves it pending.
Hide(t) ==
    /\ Flush(t) # {} /\ ~(Flush(t) \subseteq net)
    /\ net' = net \cup Flush(t)
    /\ Notice(t, net)
    /\ tab' = [tab EXCEPT ![t].odd = TRUE]
    /\ UNCHANGED <<row, latest, meetings, pages, used>>

---------------------------------------------------------------------------
(* The calendar and its drawer *)

\* handleSelectProject, handleEditEngagement: the drawer takes the copy.
OpenDrawer(t) ==
    /\ Ready(t, "calendar") /\ ~Drawn(t) /\ tab[t].copy.slots # Nothing
    /\ tab' = [tab EXCEPT ![t].draft = tab[t].copy, ![t].edits = {}]
    /\ Notice(t, net)
    /\ UNCHANGED <<row, latest, net, meetings, pages, used>>

\* Mutant of Create: an engagement whose notes are null.
CreateWithoutNotes(t, s) ==
    /\ Ready(t, "calendar") /\ ~Drawn(t) /\ tab[t].copy.slots = Nothing
    /\ Count("edits")
    /\ tab' = [tab EXCEPT ![t].draft = [slots |-> s, notes |-> Nothing,
                                        zoom |-> Nothing, page |-> Nothing],
                          ![t].edits = {"slots"}]
    /\ Notice(t, net)
    /\ UNCHANGED <<row, latest, net, meetings, pages>>

\* handleCreateEngagement, for a project without one.
Create(t, s) ==
    /\ Ready(t, "calendar") /\ ~Drawn(t) /\ tab[t].copy.slots = Nothing
    /\ Count("edits")
    /\ tab' = [tab EXCEPT ![t].draft = [slots |-> s, notes |-> Blank,
                                        zoom |-> Nothing, page |-> Nothing],
                          ![t].edits = {"slots"}]
    /\ Notice(t, net)
    /\ UNCHANGED <<row, latest, net, meetings, pages>>

EditDrawer(t, s) ==
    /\ Drawn(t) /\ tab[t].draft.slots # s /\ Count("edits")
    /\ tab' = [tab EXCEPT ![t].draft.slots = s, ![t].edits = @ \cup {"slots"}]
    /\ UNCHANGED <<row, latest, net, meetings, pages, behind>>

\* A meeting made from a drawer that is then closed is not in the calendar.
CancelDrawer(t) ==
    /\ Drawn(t)
    /\ tab' = [tab EXCEPT ![t].draft = Nothing, ![t].edits = {}]
    /\ behind' = (behind \/ "zoom" \in tab[t].edits)
    /\ UNCHANGED <<row, latest, net, meetings, pages, used>>

SaveDrawer(t) ==
    /\ Drawn(t) /\ tab[t].draft.slots \in Slots /\ Under(t, "save") = {}
    /\ Send(t, "save", tab[t].draft, tab[t].edits)
    /\ UNCHANGED <<row, latest, tab, meetings, pages, used>>

\* onUp of an event of the week view: handleUpdateEngagement.
Drag(t, s) ==
    /\ Ready(t, "calendar") /\ ~Drawn(t)
    /\ tab[t].copy.slots \in Slots \ {s} /\ Count("edits")
    /\ Send(t, "drag", [tab[t].copy EXCEPT !.slots = s], {"slots"})
    /\ UNCHANGED <<row, latest, tab, meetings, pages>>

\* The button of the drawer, disabled while zoomLoading.
Schedule(t) ==
    /\ Drawn(t) /\ tab[t].draft.slots \in Slots /\ tab[t].draft.zoom = Nothing
    /\ Under(t, "zoom") = {}
    /\ Count("calls")
    /\ Send(t, "zoom", used'.calls, {"zoom"})
    /\ UNCHANGED <<row, latest, tab, meetings, pages>>

---------------------------------------------------------------------------
(* The notes page *)

\* handleExport, handleDelete of ConfluenceExportDialog.
Export(t) ==
    /\ Ready(t, "view") /\ tab[t].copy.notes # Blank
    /\ Under(t, "export") \cup Under(t, "unexport") = {}
    /\ Count("calls")
    /\ Send(t, "export", used'.calls, {"page"})
    /\ UNCHANGED <<row, latest, tab, meetings, pages>>

Unexport(t) ==
    /\ Ready(t, "view") /\ tab[t].copy.page # Nothing
    /\ Under(t, "export") \cup Under(t, "unexport") = {}
    /\ Count("calls")
    /\ Send(t, "unexport", Nothing, {"page"})
    /\ UNCHANGED <<row, latest, tab, meetings, pages>>

---------------------------------------------------------------------------
(* The backend *)

Becomes(q, p) == net' = (net \ {q}) \cup {p}
Served(q, body) == IF q.gone THEN net' = net \ {q}
                   ELSE Becomes(q, [q EXCEPT !.at = "served", !.body = body])
Given(q, fields) == latest' = [f \in Fields |-> IF f \in q.edits THEN fields[f] ELSE latest[f]]

ServeLoad(q) ==
    /\ q.kind \in Loads /\ q.at = "sent"
    /\ Served(q, row)
    /\ UNCHANGED <<row, latest, tab, meetings, pages, behind, used>>

\* _replace_engagement: every field of the value.
ServePatch(q) ==
    /\ q.kind \in Patches /\ q.at = "sent"
    /\ row' = q.body
    /\ Given(q, q.body)
    /\ Served(q, q.body)
    /\ UNCHANGED <<tab, meetings, pages, behind, used>>

\* schedule_engagement_zoom: the meeting is made, then its number is stored.  A
\* meeting has the number of the request that made it, and so has a page.
CallZoom(q) ==
    /\ q.kind = "zoom" /\ q.at = "sent" /\ row.slots \in Slots
    /\ meetings' = meetings \cup {q.body}
    /\ Becomes(q, [q EXCEPT !.at = "called"])
    /\ UNCHANGED <<row, latest, tab, pages, behind, used>>

StoreZoom(q) ==
    /\ q.kind = "zoom" /\ q.at = "called"
    /\ row' = [row EXCEPT !.zoom = q.body]
    /\ Given(q, row')
    /\ Served(q, q.body)
    /\ UNCHANGED <<tab, meetings, pages, behind, used>>

\* export_engagement_notes: a page that is known is updated, if it is there.
CallConfluence(q) ==
    /\ q.kind = "export" /\ q.at = "sent"
    /\ \/ /\ row.page = Nothing
          /\ pages' = pages \cup {q.body}
          /\ Becomes(q, [q EXCEPT !.at = "called"])
       \/ /\ row.page \in pages
          /\ Becomes(q, [q EXCEPT !.at = "called", !.body = row.page])
          /\ UNCHANGED pages
    /\ UNCHANGED <<row, latest, tab, meetings, behind, used>>

\* delete_engagement_confluence_page: a page that is not there counts as gone.
DeletePage(q) ==
    /\ q.kind = "unexport" /\ q.at = "sent" /\ row.page # Nothing
    /\ pages' = pages \ {row.page}
    /\ Becomes(q, [q EXCEPT !.at = "called"])
    /\ UNCHANGED <<row, latest, tab, meetings, behind, used>>

StorePage(q) ==
    /\ q.kind \in {"export", "unexport"} /\ q.at = "called"
    /\ row' = [row EXCEPT !.page = q.body]
    /\ Given(q, row')
    /\ Served(q, q.body)
    /\ UNCHANGED <<tab, meetings, pages, behind, used>>

Serve(q) == \/ ServeLoad(q) \/ ServePatch(q) \/ CallZoom(q) \/ StoreZoom(q)
            \/ CallConfluence(q) \/ DeletePage(q) \/ StorePage(q)

---------------------------------------------------------------------------
(* Answers *)

\* A request that the backend refuses, or that is lost, or whose answer is.
\* A tab that does not hear of a write that took place has an old copy.
Fail(q) ==
    LET t == q.tab IN
    /\ \/ Count("losses")
       \/ /\ UNCHANGED used /\ q.at = "sent"
          /\ \/ q.kind = "zoom" /\ row.slots \notin Slots
             \/ q.kind = "unexport" /\ row.page = Nothing
             \/ q.kind = "export" /\ row.page \notin pages \cup {Nothing}
    /\ q.at # "sent" => ~q.gone
    /\ net' = net \ {q}
    /\ behind' = (behind \/ (q.at # "sent" /\ q.kind \notin Loads))
    /\ tab' = IF q.gone THEN tab
              ELSE CASE q.kind = "persist" -> [tab EXCEPT ![t].status = "error"]
                     [] q.kind = "list" /\ At(t, "calendar") -> [tab EXCEPT ![t].copy = Nothing]
                     [] OTHER -> tab
    /\ UNCHANGED <<row, latest, meetings, pages>>

\* A GET is answered: the calendar shows it, an open drawer stays as it is;
\* the notes editor starts from it.
LoadReply(q) ==
    LET t == q.tab IN
    /\ q.kind \in Loads /\ q.at = "served"
    /\ net' = net \ {q}
    /\ tab' = CASE At(t, "notes") /\ q.kind = "project" ->
                     [tab EXCEPT ![t].copy = q.body, ![t].blocks = q.body.notes,
                                 ![t].saved = q.body.notes]
                [] \/ At(t, "calendar") /\ q.kind = "list"
                   \/ At(t, "view") /\ q.kind = "project" -> [tab EXCEPT ![t].copy = q.body]
                [] OTHER -> tab
    /\ UNCHANGED <<row, latest, meetings, pages, behind, used>>

\* Mutant of PersistReply: what is shown counts as saved, not what was sent.
PersistReplyShown(q) ==
    LET t == q.tab IN
    /\ q.kind = "persist" /\ q.at = "served"
    /\ net' = net \ {q}
    /\ tab' = [tab EXCEPT ![t].saved = tab[t].blocks, ![t].status = "saved"]
    /\ UNCHANGED <<row, latest, meetings, pages, behind, used>>

\* persist, after its await.
PersistReply(q) ==
    LET t == q.tab  x == q.body.notes IN
    /\ q.kind = "persist" /\ q.at = "served"
    /\ net' = net \ {q}
    /\ tab' = [tab EXCEPT ![t].saved = x, ![t].status = "saved",
                          ![t].odd = @ /\ tab[t].blocks # x]
    /\ UNCHANGED <<row, latest, meetings, pages, behind, used>>

\* Mutant of CalendarReply: the calendar is not read again.
CalendarReplyStays(q) ==
    /\ q.kind \in {"save", "drag"} /\ q.at = "served"
    /\ tab' = IF q.kind = "drag" THEN tab
              ELSE [tab EXCEPT ![q.tab].draft = Nothing, ![q.tab].edits = {}]
    /\ net' = net \ {q}
    /\ UNCHANGED <<row, latest, meetings, pages, behind, used>>

\* handleSave closes the drawer, handleUpdateEngagement does not; both refresh.
CalendarReply(q) ==
    LET t == q.tab IN
    /\ q.kind \in {"save", "drag"} /\ q.at = "served"
    /\ tab' = IF q.kind = "drag" THEN tab
              ELSE [tab EXCEPT ![t].draft = Nothing, ![t].edits = {}]
    /\ net' = Loading(t, "calendar", net \ {q})
    /\ Notice(t, net \ {q})
    /\ UNCHANGED <<row, latest, meetings, pages, used>>

\* Mutant of ZoomReply: the draft does not hear of the meeting.
ZoomReplyDropped(q) ==
    /\ q.kind = "zoom" /\ q.at = "served"
    /\ net' = net \ {q}
    /\ UNCHANGED <<row, latest, tab, meetings, pages, behind, used>>

ZoomReply(q) ==
    LET t == q.tab IN
    /\ q.kind = "zoom" /\ q.at = "served"
    /\ net' = net \ {q}
    /\ IF tab[t].draft # Nothing
       THEN /\ tab' = [tab EXCEPT ![t].draft.zoom = q.body, ![t].edits = @ \cup {"zoom"}]
            /\ UNCHANGED behind
       ELSE behind' = TRUE /\ UNCHANGED tab
    /\ UNCHANGED <<row, latest, meetings, pages, used>>

PageReply(q) ==
    /\ q.kind \in {"export", "unexport"} /\ q.at = "served"
    /\ net' = net \ {q}
    /\ tab' = [tab EXCEPT ![q.tab].copy.page = q.body]
    /\ UNCHANGED <<row, latest, meetings, pages, behind, used>>

Reply(q) == \/ LoadReply(q) \/ PersistReply(q) \/ CalendarReply(q)
            \/ ZoomReply(q) \/ PageReply(q)

---------------------------------------------------------------------------

Init ==
    /\ row \in {[slots |-> s, notes |-> Blank, zoom |-> Nothing, page |-> Nothing] :
                    s \in {Nothing, FirstSlot}}
    /\ latest = row
    /\ tab = [t \in Tabs |-> Closed]
    /\ net = {} /\ meetings = {} /\ pages = {} /\ behind = FALSE
    /\ used = [edits |-> 0, losses |-> 0, visits |-> 0, calls |-> 0]

Browse(t) == (\E p \in Pages : Go(t, p)) \/ CloseTab(t)
Write(t) == (\E x \in Texts : Type(t, x)) \/ TimerFires(t) \/ Hide(t)
Plan(t) == \/ OpenDrawer(t) \/ CancelDrawer(t) \/ SaveDrawer(t) \/ Schedule(t)
           \/ \E s \in Slots : Create(t, s) \/ EditDrawer(t, s) \/ Drag(t, s)
Publish(t) == Export(t) \/ Unexport(t)

Next == \/ \E t \in Tabs : Browse(t) \/ Write(t) \/ Plan(t) \/ Publish(t)
        \/ \E q \in net : Serve(q) \/ Reply(q) \/ Fail(q)

Spec == Init /\ [][Next]_vars

\* Timers fire, the backend works through its requests, answers are handled.
Progress == (\E t \in Tabs : TimerFires(t)) \/ (\E q \in net : Serve(q) \/ Reply(q))
FairSpec == Spec /\ WF_vars(Progress)

---------------------------------------------------------------------------
(* Properties *)

TypeOK ==
    /\ row \in Row /\ latest \in Row
    /\ tab \in [Tabs -> Tab]
    /\ \A q \in net :
        /\ q \in IF q.kind \in Remote THEN Messages(Remote, Calls \cup {Nothing})
                                      ELSE Messages(Loads \cup Patches, Row \cup {Nothing})
        /\ q.kind \in Patches \/ (q.kind \in Loads /\ q.at = "served") => q.body \in Row
        /\ q.kind \in {"zoom", "export"} => q.body \in Calls
    /\ meetings \subseteq Calls /\ pages \subseteq Calls /\ behind \in BOOLEAN
    /\ used \in [DOMAIN Limit -> Nat] /\ \A c \in DOMAIN Limit : used[c] <= Limit[c]

\* No save takes back what was saved before it, in whichever field, although
\* every save writes all of them: unless a copy in use was behind.
NothingTakenBack == ~behind => row = latest

\* An editor that says that all is saved, or says nothing, and has nothing
\* pending or under way, shows the notes of the database, unless the user went
\* back to the old text during a save, or hid the tab with something pending.
SavedMeansSaved ==
    \A t \in Tabs :
        /\ Ready(t, "notes") /\ tab[t].status \in {"idle", "saved"}
        /\ tab[t].pending = Nothing
        /\ ~tab[t].odd /\ ~behind
        /\ ~\E q \in net : q.tab = t /\ q.kind = "persist"
        => row.notes = tab[t].blocks

\* A meeting on the engagement is not replaced or forgotten, and a second one
\* is not made, unless a copy in use was behind.
MeetingKept == [][row.zoom # Nothing /\ row'.zoom # row.zoom => behind]_vars

\* What is typed reaches the database, or the editor says that it did not.
EditsArrive ==
    \A t \in Tabs : \A x \in Texts :
        (Ready(t, "notes") /\ tab[t].pending = x) ~>
            (\/ row.notes = x \/ ~At(t, "notes") \/ tab[t].blocks # x
             \/ tab[t].status = "error" \/ tab[t].odd \/ behind)
---------------------------------------------------------------------------
(* What makes the properties inductive *)

\* Whose answer a page awaits, it still shows; an editor that types has loaded,
\* and does not load again.
Awaited(q) ==
    /\ q.kind \in Loads => ~q.gone
    /\ q.kind \in Loads \cup Patches => q.at # "called"
    /\ q.gone => q.at # "served"
    /\ ~q.gone =>
        /\ q.kind = "persist" => Ready(q.tab, "notes")
        /\ q.kind \in {"export", "unexport"} => Ready(q.tab, "view")
        /\ q.kind \in {"save", "drag", "zoom"} => At(q.tab, "calendar")
    /\ q.kind = "project" => ~Ready(q.tab, "notes")

\* No address is read twice at once by a tab.
Single == \A q, r \in net : q.kind \in Loads /\ r.kind = q.kind /\ r.tab = q.tab => q = r

Placed ==
    /\ Single
    /\ \A q \in net : Awaited(q)
    /\ \A t \in Tabs :
        /\ tab[t].pending # Nothing => Ready(t, "notes") /\ tab[t].pending = tab[t].blocks
        /\ tab[t].draft # Nothing => At(t, "calendar")

\* The page has not heard yet of what the row may say.
Unheard == \E q \in net : q.kind \in Loads \/ q.at = "served"

\* While no copy in use is behind, one page is open and it awaits one answer.
Alone ==
    /\ \A t, u \in Tabs : ~At(t, "closed") /\ ~At(u, "closed") => t = u
    /\ \A q, r \in net : q = r

\* The row and what is sent for it: no request changes what its page did not mean
\* to change.
Sent(q) ==
    LET me == tab[q.tab] IN
    /\ q.gone => \/ \A t \in Tabs : At(t, "closed")
                 \/ q.kind = "persist" /\ Ready(q.tab, "notes") /\ me.odd
    /\ q.kind \in Loads =>
        /\ q.at = "served" => q.body = row
        /\ ~At(q.tab, "closed")
        /\ q.kind = "list" => At(q.tab, "calendar") /\ me.draft = Nothing
        /\ q.kind = "project" => ~At(q.tab, "calendar") /\ me.copy = Nothing
    /\ q.kind \in Patches =>
        /\ \A f \in Fields \ q.edits : q.body[f] = row[f]
        /\ q.body.zoom = row.zoom
        /\ q.body.slots # Nothing
        /\ q.at = "served" => q.body = row
    /\ q.kind = "drag" => me.draft = Nothing
    /\ q.kind = "persist" /\ ~At(q.tab, "closed") =>
        /\ me.copy.slots = Nothing => q.body.slots = Unplanned
        /\ q.edits = {"notes"} \/ (q.edits = {"notes", "slots"} /\ me.copy.slots = Nothing)
        /\ ~me.odd => /\ q.at = "sent" => me.saved = row.notes
                      /\ me.pending # me.saved
                      /\ me.pending = Nothing => me.blocks = q.body.notes
    /\ q.kind = "zoom" =>
        /\ "zoom" \in q.edits
        /\ row.zoom = IF q.at = "served" THEN q.body ELSE Nothing
        /\ q.at # "sent" => row.slots \in Slots
        /\ q.at = "served" /\ me.draft # Nothing =>
              \A f \in Fields \ (me.edits \cup {"zoom"}) : me.draft[f] = row[f]
    /\ q.kind \in {"export", "unexport"} =>
        /\ "page" \in q.edits /\ row.slots # Nothing
        /\ q.at = "served" => /\ row.page = q.body
                              /\ \A f \in Fields \ {"page"} : me.copy[f] = row[f]

\* The copy of a page is the row, but for what the user is changing in it.
Fresh(t) ==
    LET me == tab[t] IN
    /\ Ready(t, "calendar") /\ ~Unheard =>
        /\ me.draft = Nothing \/ "zoom" \notin me.edits => me.copy = row
        /\ me.draft # Nothing => /\ \A f \in Fields \ me.edits : me.draft[f] = row[f]
                                 /\ me.draft.zoom = row.zoom
    /\ me.draft # Nothing => me.copy # Nothing /\ me.draft.slots # Nothing
    /\ Ready(t, "view") /\ ~Unheard => me.copy = row
    /\ Ready(t, "notes") =>
        /\ me.copy.zoom = row.zoom /\ me.copy.page = row.page
        /\ IF me.copy.slots = Nothing THEN row.slots \in {Nothing, Unplanned}
           ELSE row.slots = me.copy.slots
        /\ ~me.odd /\ ~(\E q \in net : q.tab = t /\ q.kind = "persist") =>
              /\ me.saved = row.notes
              /\ me.pending = Nothing /\ me.status \in {"idle", "saved"}
                    => me.blocks = me.saved
    /\ At(t, "notes") /\ me.copy = Nothing => me.status = "idle" /\ ~me.odd

Steady ==
    ~behind =>
        /\ row = latest
        /\ row.slots = Nothing => row.notes = Blank /\ row.zoom = Nothing /\ row.page = Nothing
        /\ Alone
        /\ \A q \in net : Sent(q)
        /\ \A t \in Tabs : Fresh(t)
=============================================================================
