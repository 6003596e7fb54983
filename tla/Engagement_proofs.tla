-------------------------- MODULE Engagement_proofs --------------------------
(* Theorems about the engagement and the tabs that edit it, for every set of  *)
(* tabs, every value of the slots and the notes, and every bound.             *)
EXTENDS Engagement, TLAPS

-----------------------------------------------------------------------------
(* Records.                                                                  *)

\* A row, and what an update of one of its fields leaves.
LEMMA RowFields ==
    ASSUME NEW p \in Row
    PROVE  /\ p # Nothing /\ p.slots \in Slots \cup {Unplanned, Nothing} /\ p.notes \in Texts
           /\ p.zoom \in Calls \cup {Nothing} /\ p.page \in Calls \cup {Nothing}
           /\ \A s \in Slots \cup {Unplanned, Nothing} : LET q == [p EXCEPT !.slots = s] IN
                 q \in Row /\ q.slots = s /\ \A f \in Fields \ {"slots"} : q[f] = p[f]
           /\ \A c \in Calls \cup {Nothing} : LET q == [p EXCEPT !.zoom = c] IN
                 q \in Row /\ q.zoom = c /\ \A f \in Fields \ {"zoom"} : q[f] = p[f]
           /\ \A c \in Calls \cup {Nothing} : LET q == [p EXCEPT !.page = c] IN
                 q \in Row /\ q.page = c /\ \A f \in Fields \ {"page"} : q[f] = p[f]
           /\ p["slots"] = p.slots /\ p["notes"] = p.notes
           /\ p["zoom"] = p.zoom /\ p["page"] = p.page
<1>1. p # Nothing
  BY NothingIsNoRow
<1>2. QED
  BY <1>1 DEF Row, Fields

\* Rows are equal when their fields are.
LEMMA SameRow ==
    ASSUME NEW p \in Row, NEW q \in Row, \A f \in Fields : p[f] = q[f]
    PROVE  p = q
BY DEF Row, Fields

\* A message of the type that its kind has.
Fits(q) ==
    /\ q \in IF q.kind \in Remote THEN Messages(Remote, Calls \cup {Nothing})
                                  ELSE Messages(Loads \cup Patches, Row \cup {Nothing})
    /\ q.kind \in Patches \/ (q.kind \in Loads /\ q.at = "served") => q.body \in Row
    /\ q.kind \in {"zoom", "export"} => q.body \in Calls

\* The kinds of messages.
LEMMA Kinds ==
    /\ Loads = {"list", "project"} /\ Patches = {"persist", "save", "drag"}
    /\ Remote = {"zoom", "export", "unexport"}
    /\ \A page : Address(page) \in Loads
BY DEF Loads, Patches, Remote, Address

\* What a message is made of.
LEMMA MessageFields ==
    ASSUME NEW q, Fits(q)
    PROVE  /\ q.tab \in Tabs /\ q.kind \in Loads \cup Patches \cup Remote
           /\ q.edits \in SUBSET Fields /\ q.at \in {"sent", "called", "served"}
           /\ q.gone \in BOOLEAN
           /\ q.kind \in Remote => q.body \in Calls \cup {Nothing}
           /\ q.kind \notin Remote => q.body \in Row \cup {Nothing}
           /\ q.kind \in Patches => q.body \in Row
           /\ q.kind \in Loads /\ q.at = "served" => q.body \in Row
           /\ q.kind \in {"zoom", "export"} => q.body \in Calls
           /\ q = [tab |-> q.tab, kind |-> q.kind, body |-> q.body, edits |-> q.edits,
                   at |-> q.at, gone |-> q.gone]
BY DEF Fits, Messages, Loads, Patches, Remote

\* A message with other values for its fields.
LEMMA MessageFits ==
    ASSUME NEW t \in Tabs, NEW kind \in Loads \cup Patches \cup Remote, NEW body,
           NEW edits \in SUBSET Fields, NEW at \in {"sent", "called", "served"},
           NEW gone \in BOOLEAN,
           kind \in Remote => body \in Calls \cup {Nothing},
           kind \notin Remote => body \in Row \cup {Nothing},
           kind \in Patches \/ (kind \in Loads /\ at = "served") => body \in Row,
           kind \in {"zoom", "export"} => body \in Calls
    PROVE  Fits([tab |-> t, kind |-> kind, body |-> body, edits |-> edits,
                 at |-> at, gone |-> gone])
BY DEF Fits, Messages, Loads, Patches, Remote

\* A message that nobody waits for.
LEMMA Gone ==
    ASSUME NEW q, Fits(q)
    PROVE  LET p == [q EXCEPT !.gone = TRUE] IN
           /\ Fits(p) /\ p.at = q.at /\ p.body = q.body /\ p.tab = q.tab /\ p.kind = q.kind
           /\ p.edits = q.edits /\ p.gone
<1>1. CASE q.kind \in Remote
  BY <1>1, Kinds DEF Fits, Messages
<1>2. CASE q.kind \notin Remote
  BY <1>2, Kinds DEF Fits, Messages
<1>3. QED
  BY <1>1, <1>2

\* A message that is called keeps its body.
LEMMA Called ==
    ASSUME NEW q, Fits(q), q.kind \in Remote
    PROVE  LET p == [q EXCEPT !.at = "called"] IN
           /\ Fits(p) /\ p.at = "called" /\ p.body = q.body /\ p.tab = q.tab
           /\ p.kind = q.kind /\ p.edits = q.edits /\ (p.gone <=> q.gone)
BY Kinds DEF Fits, Messages

-----------------------------------------------------------------------------
(* Tabs.                                                                     *)

\* What a tab is made of.
LEMMA TabFields ==
    ASSUME NEW c \in Tab
    PROVE  /\ c.at \in Pages \cup {"closed"} /\ c.copy \in Row \cup {Nothing}
           /\ c.draft \in Row \cup {Nothing} /\ c.edits \in SUBSET Fields
           /\ c.blocks \in Texts \cup {Nothing} /\ c.saved \in Texts \cup {Nothing}
           /\ c.pending \in Texts \cup {Nothing}
           /\ c.status \in {"idle", "saving", "saved", "error"} /\ c.odd \in BOOLEAN
BY DEF Tab

\* All fields but those of a set are as they were.
Same(c, d, but) ==
    \A f \in {"at", "copy", "draft", "edits", "blocks", "saved", "pending", "status", "odd"}
             \ but : c[f] = d[f]

\* A tab whose timer has fired, or that was hidden, or whose save has failed.
LEMMA MarkedTab ==
    ASSUME NEW c \in Tab
    PROVE  /\ LET d == [c EXCEPT !.pending = Nothing] IN
                 d \in Tab /\ d.pending = Nothing /\ Same(c, d, {"pending"})
           /\ LET d == [c EXCEPT !.odd = TRUE] IN
                 d \in Tab /\ d.odd /\ Same(c, d, {"odd"})
           /\ LET d == [c EXCEPT !.status = "error"] IN
                 d \in Tab /\ d.status = "error" /\ Same(c, d, {"status"})
BY DEF Tab, Same

\* A tab with another draft in its drawer.
LEMMA DraftTab ==
    ASSUME NEW c \in Tab, NEW p \in Row \cup {Nothing}, NEW e \in SUBSET Fields
    PROVE  LET d == [c EXCEPT !.draft = p, !.edits = e] IN
           /\ d \in Tab /\ d.draft = p /\ d.edits = e
           /\ Same(c, d, {"draft", "edits"})
BY DEF Tab, Same

\* A tab with another copy of the engagement.
LEMMA CopyTab ==
    ASSUME NEW c \in Tab, NEW p \in Row \cup {Nothing}
    PROVE  LET d == [c EXCEPT !.copy = p] IN
           d \in Tab /\ d.copy = p /\ Same(c, d, {"copy"})
BY DEF Tab, Same

\* An editor that has loaded the notes.
LEMMA LoadedTab ==
    ASSUME NEW c \in Tab, NEW p \in Row, NEW x \in Texts
    PROVE  LET d == [c EXCEPT !.copy = p, !.blocks = x, !.saved = x] IN
           /\ d \in Tab /\ d.copy = p /\ d.blocks = x /\ d.saved = x
           /\ Same(c, d, {"copy", "blocks", "saved"})
BY DEF Tab, Same

\* An editor that hears that its notes are saved.
LEMMA SavedTab ==
    ASSUME NEW c \in Tab, NEW x \in Texts, NEW b \in BOOLEAN
    PROVE  LET d == [c EXCEPT !.saved = x, !.status = "saved", !.odd = b] IN
           /\ d \in Tab /\ d.saved = x /\ d.status = "saved" /\ (d.odd <=> b)
           /\ Same(c, d, {"saved", "status", "odd"})
BY DEF Tab, Same

\* A page that has just been mounted.
LEMMA Mounted ==
    ASSUME NEW page \in Pages \cup {"closed"}
    PROVE  LET d == [Closed EXCEPT !.at = page] IN
           /\ d \in Tab /\ d.at = page /\ Same(d, Closed, {"at"})
           /\ Closed \in Tab /\ d.copy = Nothing /\ d.draft = Nothing /\ d.edits = {}
           /\ d.pending = Nothing /\ d.status = "idle" /\ ~d.odd
<1>1. Closed \in Tab
  BY DEF Tab, Closed
<1>2. /\ Closed.copy = Nothing /\ Closed.draft = Nothing /\ Closed.edits = {}
      /\ Closed.pending = Nothing /\ Closed.status = "idle" /\ ~Closed.odd
  BY DEF Closed
<1>3. QED
  BY <1>1, <1>2 DEF Tab, Same

-----------------------------------------------------------------------------
(* TypeOK and Placed, taken apart.                                           *)

Sound == TypeOK /\ Placed

\* A page types only what it shows, and a drawer is open only in the calendar.
Fitting(c) ==
    /\ c \in Tab
    /\ c.pending # Nothing => c.at = "notes" /\ c.copy # Nothing /\ c.pending = c.blocks
    /\ c.draft # Nothing => c.at = "calendar"

TabsFit == tab = [t \in Tabs |-> tab[t]] /\ \A t \in Tabs : Fitting(tab[t])
MailFits == Single /\ \A q \in net : Fits(q) /\ Awaited(q)
RestFits ==
    /\ row \in Row /\ latest \in Row
    /\ meetings \subseteq Calls /\ pages \subseteq Calls /\ behind \in BOOLEAN
CountersFit == used \in [DOMAIN Limit -> Nat] /\ \A c \in DOMAIN Limit : used[c] <= Limit[c]

LEMMA SoundParts == Sound <=> TabsFit /\ MailFits /\ RestFits /\ CountersFit
<1>1. TypeOK <=> /\ tab \in [Tabs -> Tab] /\ RestFits /\ CountersFit
                 /\ \A q \in net : Fits(q)
  BY DEF TypeOK, RestFits, CountersFit, Fits
<1>2. Placed <=> /\ Single
                 /\ \A q \in net : Awaited(q)
                 /\ \A t \in Tabs :
                     /\ tab[t].pending # Nothing =>
                           /\ tab[t].at = "notes" /\ tab[t].copy # Nothing
                           /\ tab[t].pending = tab[t].blocks
                     /\ tab[t].draft # Nothing => tab[t].at = "calendar"
  BY DEF Placed, Ready, At
<1>3. QED
  BY <1>1, <1>2 DEF Sound, TabsFit, MailFits, Fitting

\* The same of the next state.
LEMMA SoundNext == Sound' <=> TabsFit' /\ MailFits' /\ RestFits' /\ CountersFit'
<1>1. TypeOK' <=> /\ tab' \in [Tabs -> Tab] /\ RestFits' /\ CountersFit'
                  /\ \A q \in net' : Fits(q)
  BY DEF TypeOK, RestFits, CountersFit, Fits
<1>2. Placed' <=> /\ Single'
                  /\ \A q \in net' : Awaited(q)'
                  /\ \A t \in Tabs :
                     /\ tab'[t].pending # Nothing =>
                           /\ tab'[t].at = "notes" /\ tab'[t].copy # Nothing
                           /\ tab'[t].pending = tab'[t].blocks
                     /\ tab'[t].draft # Nothing => tab'[t].at = "calendar"
  BY DEF Placed, Ready, At
<1>3. QED
  BY <1>1, <1>2 DEF Sound, TabsFit, MailFits, Fitting

\* One tab changes.
LEMMA OneTab ==
    ASSUME TabsFit, NEW t \in Tabs, NEW d, tab' = [tab EXCEPT ![t] = d]
    PROVE  /\ tab'[t] = d /\ \A u \in Tabs \ {t} : tab'[u] = tab[u]
           /\ Fitting(d) => TabsFit'
<1>1. tab'[t] = d /\ (\A u \in Tabs \ {t} : tab'[u] = tab[u]) /\ tab' = [u \in Tabs |-> tab'[u]]
  BY DEF TabsFit
<1>2. QED
  BY <1>1 DEF TabsFit, Fitting

\* An answer that is awaited stays so while the pages stay, with or without a copy.
LEMMA StillAwaited ==
    ASSUME NEW q, Awaited(q),
           tab'[q.tab].at = tab[q.tab].at,
           tab[q.tab].copy = Nothing <=> tab'[q.tab].copy = Nothing
    PROVE  Awaited(q)'
BY DEF Awaited, Ready, At

\* No step but the mount of a page, a refresh and the service of a GET brings a GET.
LEMMA SingleKept ==
    ASSUME Single, \A q \in net' : q.kind \in Loads => q \in net
    PROVE  Single'
BY DEF Single

\* What is counted stays below its limit.
LEMMA Counted ==
    ASSUME CountersFit, NEW c \in {"edits", "losses", "visits", "calls"}, Count(c)
    PROVE  /\ CountersFit'
           /\ c = "calls" => used'.calls \in Calls /\ used'.calls # Nothing
<1>1. Limit \in [edits : Nat, losses : Nat, visits : Nat, calls : Nat] /\ Nothing \notin Nat
  BY EngagementAssumption
<1>2. c \in DOMAIN Limit /\ Limit[c] \in Nat /\ used[c] \in Nat
  BY <1>1 DEF CountersFit
<1>3. /\ used' = [used EXCEPT ![c] = used[c] + 1] /\ used[c] + 1 <= Limit[c]
  BY <1>2 DEF Count
<1>4. used' \in [DOMAIN Limit -> Nat] /\ used'[c] = used[c] + 1
      /\ \A d \in DOMAIN Limit : d # c => used'[d] = used[d]
  BY <1>2, <1>3 DEF CountersFit
<1>5. CountersFit'
  BY <1>2, <1>3, <1>4 DEF CountersFit
<1>6. ASSUME c = "calls" PROVE used'.calls \in Calls /\ used'.calls # Nothing
  <2>1. used'["calls"] \in 0 .. Limit["calls"]
    BY <1>2, <1>3, <1>4, <1>6
  <2>2. QED
    BY <2>1, <1>1 DEF Calls
<1>7. QED
  BY <1>5, <1>6

\* The counters that stay.
LEMMA Uncounted ==
    ASSUME CountersFit, UNCHANGED used
    PROVE  CountersFit'
BY DEF CountersFit

-----------------------------------------------------------------------------
(* What is sent, and what is left behind.                                    *)

\* The sets of fields, as one value to the provers.
FieldSets == SUBSET Fields

\* A GET.
LEMMA NewLoad ==
    ASSUME NEW t \in Tabs, NEW kind \in Loads
    PROVE  LET r == Request(t, kind, Nothing, {}) IN
           /\ Fits(r) /\ r.tab = t /\ r.kind = kind /\ r.body = Nothing /\ r.edits = {}
           /\ r.at = "sent" /\ ~r.gone
<1>1. kind \in Loads \cup Patches \cup Remote /\ kind \notin Remote /\ kind \notin Patches
      /\ kind \notin {"zoom", "export"}
  BY Kinds
<1>2. Fits(Request(t, kind, Nothing, {}))
  BY <1>1, MessageFits DEF Request, FieldSets
<1>3. QED
  BY <1>2 DEF Request

\* A save.
LEMMA NewPatch ==
    ASSUME NEW t \in Tabs, NEW kind \in Patches,
           NEW body \in Row, NEW edits \in FieldSets
    PROVE  LET r == Request(t, kind, body, edits) IN
           /\ Fits(r) /\ r.tab = t /\ r.kind = kind /\ r.body = body /\ r.edits = edits
           /\ r.at = "sent" /\ ~r.gone
<1>1. kind \in Loads \cup Patches \cup Remote /\ kind \notin Remote /\ kind \notin Loads
      /\ kind \notin {"zoom", "export"}
  BY Kinds
<1>2. Fits(Request(t, kind, body, edits))
  BY <1>1, MessageFits DEF Request, FieldSets
<1>3. QED
  BY <1>2 DEF Request

\* A call of Zoom or Confluence.
LEMMA NewCall ==
    ASSUME NEW t \in Tabs, NEW kind \in Remote,
           NEW body \in Calls \cup {Nothing}, NEW edits \in FieldSets,
           kind # "unexport" => body \in Calls
    PROVE  LET r == Request(t, kind, body, edits) IN
           /\ Fits(r) /\ r.tab = t /\ r.kind = kind /\ r.body = body /\ r.edits = edits
           /\ r.at = "sent" /\ ~r.gone
<1>1. kind \in Loads \cup Patches \cup Remote /\ kind \notin Patches /\ kind \notin Loads
      /\ (kind \in {"zoom", "export"} => body \in Calls)
  BY Kinds
<1>2. Fits(Request(t, kind, body, edits))
  BY <1>1, MessageFits DEF Request, FieldSets
<1>3. QED
  BY <1>2 DEF Request

\* Notes for an engagement, which the copy of the page may not have yet.
LEMMA NotedFits ==
    ASSUME NEW t \in Tabs, tab[t].copy \in Row, NEW x \in Texts
    PROVE  /\ Noted(t, x) \in Row /\ Noted(t, x).notes = x
           /\ Noted(t, x).slots = IF tab[t].copy.slots = Nothing THEN Unplanned
                                  ELSE tab[t].copy.slots
           /\ Noted(t, x).zoom = tab[t].copy.zoom /\ Noted(t, x).page = tab[t].copy.page
           /\ NoteFields(t) = IF tab[t].copy.slots = Nothing THEN {"notes", "slots"}
                              ELSE {"notes"}
           /\ NoteFields(t) \in SUBSET Fields
BY DEF Noted, Row, NoteFields, Fields

\* The flush of the notes is a save for which nobody waits.
LEMMA FlushFits ==
    ASSUME TabsFit, NEW t \in Tabs, NEW q \in Flush(t)
    PROVE  /\ Fits(q) /\ q.tab = t /\ q.kind = "persist" /\ q.at = "sent" /\ q.gone
           /\ q.body = Noted(t, tab[t].pending) /\ q.edits = NoteFields(t)
           /\ tab[t].at = "notes" /\ tab[t].copy \in Row /\ tab[t].pending \in Texts
           /\ tab[t].pending # tab[t].saved /\ tab[t].pending = tab[t].blocks
<1> DEFINE x == tab[t].pending
           r == Request(t, "persist", Noted(t, x), NoteFields(t))
<1>1. At(t, "notes") /\ x # Nothing /\ x # tab[t].saved /\ q = [r EXCEPT !.gone = TRUE]
  BY DEF Flush
<1>2. Fitting(tab[t])
  BY DEF TabsFit
<1>3. tab[t].copy \in Row /\ x \in Texts /\ x = tab[t].blocks
  BY <1>1, <1>2, TabFields DEF Fitting
<1>4. Noted(t, x) \in Row /\ NoteFields(t) \in SUBSET Fields
  BY <1>3, NotedFits
<1>5. /\ Fits(r) /\ r.tab = t /\ r.kind = "persist" /\ r.body = Noted(t, x)
      /\ r.edits = NoteFields(t) /\ r.at = "sent" /\ ~r.gone
  <2> DEFINE body == Noted(t, x)
             edits == NoteFields(t)
  <2>1. "persist" \in Patches /\ body \in Row /\ edits \in FieldSets
    BY <1>4, Kinds DEF FieldSets
  <2> HIDE DEF body, edits
  <2>2. LET m == Request(t, "persist", body, edits) IN
        /\ Fits(m) /\ m.tab = t /\ m.kind = "persist" /\ m.body = body
        /\ m.edits = edits /\ m.at = "sent" /\ ~m.gone
    BY <2>1, NewPatch
  <2>3. QED
    BY <2>2 DEF body, edits
<1> HIDE DEF r
<1>6. /\ Fits(q) /\ q.at = r.at /\ q.body = r.body /\ q.tab = r.tab /\ q.kind = r.kind
      /\ q.edits = r.edits /\ q.gone
  BY <1>1, <1>5, Gone
<1>7. QED
  BY <1>1, <1>3, <1>5, <1>6 DEF At

\* What was under way when the page is left: nobody waits for it.
LEMMA LeftFits ==
    ASSUME MailFits, NEW t \in Tabs, NEW q \in Left(t)
    PROVE  /\ Fits(q)
           /\ \E p \in net : /\ q.tab = p.tab /\ q.kind = p.kind /\ q.body = p.body
                             /\ q.edits = p.edits /\ q.at = p.at
                             /\ p.tab = t /\ p.kind \notin Loads => q.gone
                             /\ ~(p.tab = t /\ p.kind \notin Loads) => q = p
                             /\ p.tab = t /\ p.at = "served" => p.kind \in Loads
<1>1. PICK p \in net :
          /\ p.tab = t /\ p.at = "served" => p.kind \in Loads
          /\ q = IF p.tab = t /\ p.kind \notin Loads THEN [p EXCEPT !.gone = TRUE] ELSE p
  BY DEF Left
<1>2. Fits(p)
  BY DEF MailFits
<1>3. CASE p.tab = t /\ p.kind \notin Loads
  BY <1>1, <1>2, <1>3, Gone
<1>4. CASE ~(p.tab = t /\ p.kind \notin Loads)
  BY <1>1, <1>2, <1>4
<1>5. QED
  BY <1>3, <1>4

\* No GET is left or brought by leaving a page.
LEMMA LeftLoads ==
    ASSUME MailFits, TabsFit, NEW t \in Tabs, NEW q \in Left(t) \cup Flush(t), q.kind \in Loads
    PROVE  q \in net /\ q \in Left(t)
<1>1. q \in Left(t)
  BY FlushFits, Kinds
<1>2. q \in net
  BY <1>1, LeftFits
<1>3. QED
  BY <1>1, <1>2

\* An answer for which nobody waits, or for a page that stays, is awaited still.
LEMMA LeftAwaited ==
    ASSUME MailFits, NEW t \in Tabs, NEW q \in Left(t),
           \A u \in Tabs \ {t} : tab'[u] = tab[u], tab'[t].copy = Nothing
    PROVE  Awaited(q)'
<1>1. PICK p \in net : /\ q.tab = p.tab /\ q.kind = p.kind /\ q.body = p.body
                       /\ q.edits = p.edits /\ q.at = p.at
                       /\ p.tab = t /\ p.kind \notin Loads => q.gone
                       /\ ~(p.tab = t /\ p.kind \notin Loads) => q = p
                       /\ p.tab = t /\ p.at = "served" => p.kind \in Loads
  BY LeftFits
<1>2. Awaited(p) /\ p.tab \in Tabs
  BY MessageFields DEF MailFits
<1>3. CASE p.tab # t
  BY <1>1, <1>2, <1>3, StillAwaited
<1>4. CASE p.tab = t
  BY <1>1, <1>2, <1>4, Kinds DEF Awaited, Ready
<1>5. QED
  BY <1>3, <1>4

\* The flush awaits nothing.
LEMMA FlushAwaited ==
    ASSUME TabsFit, NEW t \in Tabs, NEW q \in Flush(t)
    PROVE  Awaited(q)'
BY FlushFits, Kinds DEF Awaited

\* The GET of a page is a request, if it is not one already.
LEMMA LoadingFits ==
    ASSUME NEW t \in Tabs, NEW page, NEW rest, NEW q \in Loading(t, page, rest),
           page = "calendar" \/ tab'[t].copy = Nothing
    PROVE  \/ q \in rest
           \/ /\ Fits(q) /\ q.tab = t /\ q.kind = Address(page) /\ q.kind \in Loads
              /\ q.body = Nothing /\ q.edits = {} /\ q.at = "sent" /\ ~q.gone
              /\ Awaited(q)'
<1>1. q \in rest \/ q = Request(t, Address(page), Nothing, {})
  BY DEF Loading
<1>2. Address(page) \in Loads /\ (page = "calendar" => Address(page) = "list")
  BY Kinds DEF Address
<1>3. ASSUME q = Request(t, Address(page), Nothing, {})
      PROVE  /\ Fits(q) /\ q.tab = t /\ q.kind = Address(page) /\ q.body = Nothing
             /\ q.edits = {} /\ q.at = "sent" /\ ~q.gone
  BY <1>2, <1>3, NewLoad
<1>4. QED
  BY <1>1, <1>2, <1>3, Kinds DEF Awaited, Ready

\* It is the only one of its address.
LEMMA LoadingSingle ==
    ASSUME Single, NEW t \in Tabs, NEW page, NEW rest, net' = Loading(t, page, rest),
           \A q \in rest : q.kind \in Loads => q \in net
    PROVE  Single'
<1> DEFINE r == Request(t, Address(page), Nothing, {})
<1>1. r.tab = t /\ r.kind = Address(page)
  BY DEF Request
<1>2. CASE net' = rest
  BY <1>2, SingleKept
<1>3. CASE net' = rest \cup {r} /\ \A q \in rest : ~(q.tab = t /\ q.kind = Address(page))
  <2>1. ASSUME NEW p \in net', NEW q \in net',
               p.kind \in Loads, q.kind = p.kind, q.tab = p.tab
        PROVE  p = q
    <3> HIDE DEF r
    <3>1. CASE p \in rest /\ q \in rest
      BY <2>1, <3>1 DEF Single
    <3>2. CASE p = r \/ q = r
      BY <2>1, <3>2, <1>1, <1>3
    <3>3. QED
      BY <3>1, <3>2, <1>3
  <2>2. QED
    BY <2>1 DEF Single
<1>4. QED
  BY <1>2, <1>3 DEF Loading

-----------------------------------------------------------------------------
(* The steps of the browser keep Sound.                                      *)

\* What a navigation leaves in the tab.
LEMMA Goes ==
    ASSUME TabsFit, NEW t \in Tabs, NEW page \in Pages, Go(t, page)
    PROVE  /\ TabsFit' /\ (\A u \in Tabs \ {t} : tab'[u] = tab[u])
           /\ tab'[t].at = page /\ tab'[t].copy = Nothing /\ tab'[t].draft = Nothing
           /\ tab'[t].pending = Nothing /\ tab'[t].status = "idle" /\ ~tab'[t].odd
<1> DEFINE d == [Closed EXCEPT !.at = page]
<1>1. /\ d \in Tab /\ d.at = page /\ d.copy = Nothing /\ d.draft = Nothing
      /\ d.pending = Nothing /\ d.status = "idle" /\ ~d.odd
  BY Mounted
<1>2. tab' = [tab EXCEPT ![t] = d]
  BY DEF Go
<1> HIDE DEF d
<1>3. Fitting(d)
  BY <1>1 DEF Fitting
<1>4. QED
  BY <1>1, <1>2, <1>3, OneTab

LEMMA GoSound ==
    ASSUME Sound, NEW t \in Tabs, NEW page \in Pages, Go(t, page)
    PROVE  Sound'
<1>1. TabsFit /\ MailFits /\ RestFits /\ CountersFit
  BY SoundParts
<1>2. TabsFit' /\ (\A u \in Tabs \ {t} : tab'[u] = tab[u]) /\ tab'[t].copy = Nothing
  BY <1>1, Goes
<1>3. ASSUME NEW q \in net' PROVE Fits(q) /\ Awaited(q)'
  <2>1. q \in Loading(t, page, Left(t) \cup Flush(t))
    BY <1>3 DEF Go
  <2>2. CASE q \in Left(t)
    BY <2>2, <1>1, <1>2, LeftFits, LeftAwaited
  <2>3. CASE q \in Flush(t)
    BY <2>3, <1>1, FlushFits, FlushAwaited
  <2>4. CASE q \notin Left(t) \cup Flush(t)
    BY <1>2, <2>1, <2>4, LoadingFits
  <2>5. QED
    BY <2>2, <2>3, <2>4
<1>4. MailFits'
  <2>1. \A q \in Left(t) \cup Flush(t) : q.kind \in Loads => q \in net
    BY <1>1, LeftLoads
  <2>2. Single'
    BY <1>1, <2>1, LoadingSingle DEF Go, MailFits
  <2>3. QED
    BY <1>3, <2>2 DEF MailFits
<1>5. RestFits'
  BY <1>1 DEF Go, RestFits, Notice
<1>6. CountersFit'
  BY <1>1, Counted DEF Go
<1>7. QED
  BY <1>2, <1>4, <1>5, <1>6, SoundNext

LEMMA CloseSound ==
    ASSUME Sound, NEW t \in Tabs, CloseTab(t)
    PROVE  Sound' /\ tab' = [tab EXCEPT ![t] = Closed]
<1>1. TabsFit /\ MailFits /\ RestFits /\ CountersFit
  BY SoundParts
<1>2. tab' = [tab EXCEPT ![t] = Closed]
  BY DEF CloseTab
<1>3. Fitting(Closed)
  BY Mounted, Closed.pending = Nothing, Closed.draft = Nothing DEF Fitting, Closed
<1>4. TabsFit' /\ (\A u \in Tabs \ {t} : tab'[u] = tab[u]) /\ tab'[t].copy = Nothing
  <2>1. Closed.copy = Nothing
    BY DEF Closed
  <2>2. QED
    BY <1>1, <1>2, <1>3, <2>1, OneTab
<1>5. ASSUME NEW q \in net' PROVE Fits(q) /\ Awaited(q)'
  <2>1. q \in Left(t) \cup Flush(t)
    BY <1>5 DEF CloseTab
  <2>2. CASE q \in Left(t)
    BY <2>2, <1>1, <1>4, LeftFits, LeftAwaited
  <2>3. CASE q \in Flush(t)
    BY <2>3, <1>1, FlushFits, FlushAwaited
  <2>4. QED
    BY <2>1, <2>2, <2>3
<1>6. MailFits'
  <2>1. \A q \in net' : q \in Left(t) \cup Flush(t)
    BY DEF CloseTab
  <2>2. \A q \in net' : q.kind \in Loads => q \in net
    BY <1>1, <2>1, LeftLoads
  <2>3. Single'
    BY <1>1, <2>2, SingleKept DEF MailFits
  <2>4. QED
    BY <1>5, <2>3 DEF MailFits
<1>7. RestFits'
  BY <1>1 DEF CloseTab, RestFits
<1>8. CountersFit'
  BY <1>1, Uncounted DEF CloseTab
<1>9. QED
  BY <1>2, <1>4, <1>6, <1>7, <1>8, SoundNext

\* What typing leaves in the tab.
LEMMA Types ==
    ASSUME TabsFit, NEW t \in Tabs, NEW x \in Texts, Type(t, x)
    PROVE  LET c == tab[t]  d == tab'[t]  same == x = tab[t].saved IN
           /\ TabsFit' /\ (\A u \in Tabs \ {t} : tab'[u] = tab[u])
           /\ c.at = "notes" /\ c.copy # Nothing /\ d.blocks = x
           /\ d.pending = IF same THEN Nothing ELSE x
           /\ d.status = IF same THEN "idle" ELSE "saving"
           /\ d.odd <=> c.odd \/ (same /\ \E q \in net : q.tab = t /\ q.kind = "persist")
           /\ Same(c, d, {"blocks", "pending", "status", "odd"})
<1> DEFINE c == tab[t]
           same == x = c.saved
           y == IF same THEN Nothing ELSE x
           s == IF same THEN "idle" ELSE "saving"
           b == c.odd \/ (same /\ \E q \in net : q.tab = t /\ q.kind = "persist")
           d == [c EXCEPT !.blocks = x, !.pending = y, !.status = s, !.odd = b]
<1>1. c \in Tab /\ c.at = "notes" /\ c.copy # Nothing /\ c.draft = Nothing
  BY DEF TabsFit, Fitting, Type, Ready, At
<1>2. y \in Texts \cup {Nothing} /\ s \in {"idle", "saving", "saved", "error"} /\ b \in BOOLEAN
  BY <1>1, TabFields
<1>3. tab' = [tab EXCEPT ![t] = d]
  BY <1>1 DEF Type, TabsFit, Tab
<1>4. /\ d \in Tab /\ d.blocks = x /\ d.pending = y /\ d.status = s /\ (d.odd <=> b)
      /\ Same(c, d, {"blocks", "pending", "status", "odd"})
  <2> HIDE DEF c, y, s, b
  <2>1. d \in Tab
    BY <1>1, <1>2 DEF Tab
  <2>2. d.blocks = x /\ d.pending = y /\ d.status = s /\ (d.odd <=> b)
    BY <1>1, <1>2 DEF Tab
  <2>3. /\ d.at = c.at /\ d.copy = c.copy /\ d.draft = c.draft /\ d.edits = c.edits
        /\ d.saved = c.saved
    BY <1>1 DEF Tab
  <2> HIDE DEF d
  <2>4. QED
    BY <2>1, <2>2, <2>3 DEF Same
<1> HIDE DEF d
<1>5. d.at = c.at /\ d.copy = c.copy /\ d.draft = c.draft
  BY <1>4 DEF Same
<1>6. Fitting(d)
  BY <1>1, <1>4, <1>5 DEF Fitting
<1>7. tab'[t] = d /\ (\A u \in Tabs \ {t} : tab'[u] = tab[u]) /\ TabsFit'
  BY <1>3, <1>6, OneTab
<1>8. QED
  BY <1>1, <1>4, <1>7

LEMMA TypeSound ==
    ASSUME Sound, NEW t \in Tabs, NEW x \in Texts, Type(t, x)
    PROVE  Sound'
<1>1. TabsFit /\ MailFits /\ RestFits /\ CountersFit
  BY SoundParts
<1>2. TabsFit' /\ (\A u \in Tabs \ {t} : tab'[u] = tab[u])
      /\ tab'[t].at = tab[t].at /\ tab'[t].copy = tab[t].copy
  BY <1>1, Types DEF Same
<1>3. \A q \in net : tab'[q.tab].at = tab[q.tab].at /\ tab'[q.tab].copy = tab[q.tab].copy
  BY <1>1, <1>2, MessageFields DEF MailFits
<1>4. MailFits'
  BY <1>1, <1>3, StillAwaited, SingleKept DEF MailFits, Type
<1>5. RestFits' /\ CountersFit'
  BY <1>1, Counted DEF Type, RestFits
<1>6. QED
  BY <1>2, <1>4, <1>5, SoundNext

\* What a timer sends is a save of the notes.
LEMMA Fires ==
    ASSUME TabsFit, NEW t \in Tabs, TimerFires(t)
    PROVE  LET c == tab[t]  x == tab[t].pending IN
           /\ TabsFit' /\ (\A u \in Tabs \ {t} : tab'[u] = tab[u])
           /\ Same(c, tab'[t], {"pending"}) /\ tab'[t].pending = Nothing
           /\ c.at = "notes" /\ c.copy \in Row /\ x \in Texts /\ x = c.blocks
           /\ Noted(t, x) \in Row /\ NoteFields(t) \in FieldSets
<1> DEFINE c == tab[t]
           d == [c EXCEPT !.pending = Nothing]
<1>1. /\ c \in Tab /\ c.at = "notes" /\ c.copy # Nothing /\ c.draft = Nothing
      /\ c.pending # Nothing /\ c.pending = c.blocks
  BY DEF TabsFit, Fitting, TimerFires, Ready, At
<1>2. d \in Tab /\ d.pending = Nothing /\ Same(c, d, {"pending"})
  BY <1>1, MarkedTab
<1>3. tab' = [tab EXCEPT ![t] = d]
  BY DEF TimerFires
<1> HIDE DEF d
<1>4. d.draft = c.draft
  BY <1>2 DEF Same
<1>5. Fitting(d)
  BY <1>1, <1>2, <1>4 DEF Fitting
<1>6. tab'[t] = d /\ (\A u \in Tabs \ {t} : tab'[u] = tab[u]) /\ TabsFit'
  BY <1>3, <1>5, OneTab
<1>7. c.copy \in Row /\ c.pending \in Texts
  BY <1>1, TabFields
<1>8. Noted(t, c.pending) \in Row /\ NoteFields(t) \in FieldSets
  BY <1>7, NotedFits DEF FieldSets
<1>9. QED
  BY <1>1, <1>2, <1>6, <1>7, <1>8

\* The request of a page is awaited by it.
LEMMA TimerSound ==
    ASSUME Sound, NEW t \in Tabs, TimerFires(t)
    PROVE  Sound'
<1> DEFINE body == Noted(t, tab[t].pending)
           edits == NoteFields(t)
           r == Request(t, "persist", body, edits)
<1>1. TabsFit /\ MailFits /\ RestFits /\ CountersFit
  BY SoundParts
<1>2. /\ TabsFit' /\ (\A u \in Tabs \ {t} : tab'[u] = tab[u])
      /\ tab'[t].at = tab[t].at /\ tab'[t].copy = tab[t].copy
      /\ tab[t].at = "notes" /\ tab[t].copy \in Row
      /\ body \in Row /\ edits \in FieldSets
  BY <1>1, Fires DEF Same
<1>3. \A q \in net : tab'[q.tab].at = tab[q.tab].at /\ tab'[q.tab].copy = tab[q.tab].copy
  BY <1>1, <1>2, MessageFields DEF MailFits
<1>4. net' \subseteq net \cup {r}
  BY DEF TimerFires, Send
<1> HIDE DEF body, edits
<1>5. Fits(r) /\ r.tab = t /\ r.kind = "persist" /\ r.at = "sent" /\ ~r.gone
  <2>1. "persist" \in Patches
    BY Kinds
  <2>2. QED
    BY <1>2, <2>1, NewPatch
<1> HIDE DEF r
<1>6. tab[t].copy # Nothing
  BY <1>2, NothingIsNoRow
<1>7. ASSUME NEW q \in net' PROVE Fits(q) /\ Awaited(q)'
  <2>1. CASE q \in net
    BY <2>1, <1>1, <1>3, StillAwaited DEF MailFits
  <2>2. CASE q = r
    <3>1. Fits(q) /\ q.tab = t /\ q.kind = "persist" /\ q.at = "sent" /\ ~q.gone
      BY <2>2, <1>5
    <3>2. QED
      BY <3>1, <1>2, <1>6, Kinds DEF Awaited, Ready, At
  <2>3. QED
    BY <1>4, <2>1, <2>2
<1>8. MailFits'
  BY <1>1, <1>4, <1>5, <1>7, SingleKept, Kinds DEF MailFits
<1>9. RestFits' /\ CountersFit'
  BY <1>1, Uncounted DEF TimerFires, RestFits, Send, Notice
<1>10. QED
  BY <1>2, <1>8, <1>9, SoundNext

\* What hiding leaves in the tab.
LEMMA Hides ==
    ASSUME TabsFit, NEW t \in Tabs, Hide(t)
    PROVE  /\ TabsFit' /\ (\A u \in Tabs \ {t} : tab'[u] = tab[u])
           /\ Same(tab[t], tab'[t], {"odd"}) /\ tab'[t].odd
<1> DEFINE c == tab[t]
           d == [c EXCEPT !.odd = TRUE]
<1>1. Fitting(c)
  BY DEF TabsFit
<1>2. d \in Tab /\ d.odd /\ Same(c, d, {"odd"})
  BY <1>1, MarkedTab DEF Fitting
<1>3. tab' = [tab EXCEPT ![t] = d]
  BY DEF Hide
<1> HIDE DEF d
<1>4. /\ d.draft = c.draft /\ d.at = c.at /\ d.pending = c.pending /\ d.copy = c.copy
      /\ d.blocks = c.blocks
  BY <1>2 DEF Same
<1>5. Fitting(d)
  BY <1>1, <1>2, <1>4 DEF Fitting
<1>6. tab'[t] = d /\ (\A u \in Tabs \ {t} : tab'[u] = tab[u]) /\ TabsFit'
  BY <1>3, <1>5, OneTab
<1>7. QED
  BY <1>2, <1>6

LEMMA HideSound ==
    ASSUME Sound, NEW t \in Tabs, Hide(t)
    PROVE  Sound'
<1>1. TabsFit /\ MailFits /\ RestFits /\ CountersFit
  BY SoundParts
<1>2. /\ TabsFit' /\ (\A u \in Tabs \ {t} : tab'[u] = tab[u])
      /\ tab'[t].at = tab[t].at /\ tab'[t].copy = tab[t].copy
  BY <1>1, Hides DEF Same
<1>3. \A q \in net : tab'[q.tab].at = tab[q.tab].at /\ tab'[q.tab].copy = tab[q.tab].copy
  BY <1>1, <1>2, MessageFields DEF MailFits
<1>4. ASSUME NEW q \in net' PROVE Fits(q) /\ Awaited(q)'
  <2>1. q \in net \/ q \in Flush(t)
    BY <1>4 DEF Hide
  <2>2. CASE q \in net
    BY <2>2, <1>1, <1>3, StillAwaited DEF MailFits
  <2>3. CASE q \in Flush(t)
    BY <2>3, <1>1, FlushFits, FlushAwaited
  <2>4. QED
    BY <2>1, <2>2, <2>3
<1>5. MailFits'
  <2>1. \A q \in net' : q.kind \in Loads => q \in net
    BY <1>1, FlushFits, Kinds DEF Hide
  <2>2. QED
    BY <1>1, <1>4, <2>1, SingleKept DEF MailFits
<1>6. RestFits' /\ CountersFit'
  BY <1>1, Uncounted DEF Hide, RestFits, Notice
<1>7. QED
  BY <1>2, <1>5, <1>6, SoundNext

-----------------------------------------------------------------------------
(* The steps of the calendar and of the notes page keep Sound.               *)

\* Another draft in the drawer of a calendar.
LEMMA Drawer ==
    ASSUME TabsFit, NEW t \in Tabs, NEW p \in Row \cup {Nothing}, NEW e \in FieldSets,
           tab[t].at = "calendar",
           tab' = [tab EXCEPT ![t] = [tab[t] EXCEPT !.draft = p, !.edits = e]]
    PROVE  /\ TabsFit' /\ (\A u \in Tabs \ {t} : tab'[u] = tab[u])
           /\ tab'[t].draft = p /\ tab'[t].edits = e
           /\ Same(tab[t], tab'[t], {"draft", "edits"})
<1> DEFINE c == tab[t]
           d == [c EXCEPT !.draft = p, !.edits = e]
<1>1. Fitting(c)
  BY DEF TabsFit
<1>2. d \in Tab /\ d.draft = p /\ d.edits = e /\ Same(c, d, {"draft", "edits"})
  BY <1>1, DraftTab DEF Fitting, FieldSets
<1>3. tab' = [tab EXCEPT ![t] = d]
  OBVIOUS
<1> HIDE DEF d
<1>4. /\ d.at = c.at /\ d.pending = c.pending /\ d.copy = c.copy /\ d.blocks = c.blocks
  BY <1>2 DEF Same
<1>5. Fitting(d)
  BY <1>1, <1>2, <1>4 DEF Fitting
<1>6. tab'[t] = d /\ (\A u \in Tabs \ {t} : tab'[u] = tab[u]) /\ TabsFit'
  BY <1>3, <1>5, OneTab
<1>7. QED
  BY <1>2, <1>6

\* The messages of a step in which a tab changes that keeps its page and its copy.
LEMMA MailStays ==
    ASSUME MailFits, NEW t \in Tabs,
           \A u \in Tabs \ {t} : tab'[u] = tab[u],
           tab'[t].at = tab[t].at, tab'[t].copy = tab[t].copy
    PROVE  \A q \in net : Fits(q) /\ Awaited(q)'
<1>1. \A q \in net : tab'[q.tab].at = tab[q.tab].at /\ tab'[q.tab].copy = tab[q.tab].copy
  BY MessageFields DEF MailFits
<1>2. QED
  BY <1>1, StillAwaited DEF MailFits

\* A request of a page that can have its answer.
LEMMA Sends ==
    ASSUME MailFits, NEW r, Fits(r), r.at = "sent", r.kind \notin Loads,
           r.kind = "persist" => Ready(r.tab, "notes"),
           r.kind \in {"export", "unexport"} => Ready(r.tab, "view"),
           r.kind \in {"save", "drag", "zoom"} => At(r.tab, "calendar"),
           UNCHANGED tab, net' = net \cup {r}
    PROVE  MailFits'
<1>1. ASSUME NEW q \in net PROVE Awaited(q)'
  BY <1>1, StillAwaited DEF MailFits
<1>2. Awaited(r)'
  BY Kinds DEF Awaited, Ready, At
<1>3. Single'
  BY SingleKept DEF MailFits
<1>4. QED
  BY <1>1, <1>2, <1>3 DEF MailFits

LEMMA OpenEffect ==
    ASSUME TabsFit, NEW t \in Tabs, OpenDrawer(t)
    PROVE  /\ TabsFit' /\ (\A u \in Tabs \ {t} : tab'[u] = tab[u])
           /\ tab'[t].draft = tab[t].copy /\ tab'[t].edits = {} /\ tab[t].copy \in Row
           /\ Same(tab[t], tab'[t], {"draft", "edits"})
<1> DEFINE p == tab[t].copy
           e == {}
<1>1. tab[t] \in Tab /\ tab[t].at = "calendar" /\ tab[t].copy # Nothing
  BY DEF OpenDrawer, Ready, At, TabsFit, Fitting
<1>2. p \in Row
  BY <1>1, TabFields
<1>3. tab' = [tab EXCEPT ![t] = [tab[t] EXCEPT !.draft = p, !.edits = e]]
  BY DEF OpenDrawer, TabsFit
<1>4. e \in FieldSets
  BY DEF FieldSets
<1> HIDE DEF p, e
<1>5. /\ TabsFit' /\ (\A u \in Tabs \ {t} : tab'[u] = tab[u])
      /\ tab'[t].draft = p /\ tab'[t].edits = e
      /\ Same(tab[t], tab'[t], {"draft", "edits"})
  BY <1>1, <1>2, <1>3, <1>4, Drawer
<1>6. QED
  BY <1>2, <1>5 DEF p, e

\* A new engagement: the default notes, and no meeting yet.
NewRow(s) == [slots |-> s, notes |-> Blank, zoom |-> Nothing, page |-> Nothing]

LEMMA CreateEffect ==
    ASSUME TabsFit, NEW t \in Tabs, NEW s \in Slots, Create(t, s)
    PROVE  /\ TabsFit' /\ (\A u \in Tabs \ {t} : tab'[u] = tab[u])
           /\ tab'[t].draft = NewRow(s) /\ tab'[t].edits = {"slots"} /\ NewRow(s) \in Row
           /\ Same(tab[t], tab'[t], {"draft", "edits"})
<1>1. tab[t] \in Tab /\ tab[t].at = "calendar"
  BY DEF Create, Ready, At, TabsFit, Fitting
<1>2. NewRow(s) \in Row
  BY EngagementAssumption DEF NewRow, Row
<1>3. tab' = [tab EXCEPT ![t] = [tab[t] EXCEPT !.draft = NewRow(s), !.edits = {"slots"}]]
  BY DEF Create, TabsFit, NewRow
<1>4. {"slots"} \in FieldSets
  BY DEF Fields, FieldSets
<1>5. QED
  BY <1>1, <1>2, <1>3, <1>4, Drawer

LEMMA EditEffect ==
    ASSUME TabsFit, NEW t \in Tabs, NEW s \in Slots, EditDrawer(t, s)
    PROVE  /\ TabsFit' /\ (\A u \in Tabs \ {t} : tab'[u] = tab[u])
           /\ tab[t].draft \in Row /\ tab'[t].draft = [tab[t].draft EXCEPT !.slots = s]
           /\ tab'[t].edits = tab[t].edits \cup {"slots"} /\ tab[t].edits \in SUBSET Fields
           /\ Same(tab[t], tab'[t], {"draft", "edits"})
<1> DEFINE p == [tab[t].draft EXCEPT !.slots = s]
           e == tab[t].edits \cup {"slots"}
<1>1. tab[t] \in Tab /\ tab[t].at = "calendar" /\ tab[t].draft # Nothing
  BY DEF EditDrawer, Drawn, Ready, At, TabsFit, Fitting
<1>2. tab[t].draft \in Row /\ tab[t].edits \in SUBSET Fields
  BY <1>1, TabFields
<1>3. p \in Row
  BY <1>2, RowFields
<1>4. tab' = [tab EXCEPT ![t] = [tab[t] EXCEPT !.draft = p, !.edits = e]]
  BY <1>1 DEF EditDrawer, TabsFit, Tab
<1>5. e \in FieldSets
  BY <1>2 DEF Fields, FieldSets
<1> HIDE DEF p, e
<1>6. /\ TabsFit' /\ (\A u \in Tabs \ {t} : tab'[u] = tab[u])
      /\ tab'[t].draft = p /\ tab'[t].edits = e
      /\ Same(tab[t], tab'[t], {"draft", "edits"})
  BY <1>1, <1>3, <1>4, <1>5, Drawer
<1>7. QED
  BY <1>2, <1>6 DEF p, e

LEMMA CancelEffect ==
    ASSUME TabsFit, NEW t \in Tabs, CancelDrawer(t)
    PROVE  /\ TabsFit' /\ (\A u \in Tabs \ {t} : tab'[u] = tab[u])
           /\ tab'[t].draft = Nothing /\ tab'[t].edits = {}
           /\ Same(tab[t], tab'[t], {"draft", "edits"})
<1>1. tab[t].at = "calendar"
  BY DEF CancelDrawer, Drawn, Ready, At
<1>2. tab' = [tab EXCEPT ![t] = [tab[t] EXCEPT !.draft = Nothing, !.edits = {}]]
  BY DEF CancelDrawer, TabsFit
<1>3. {} \in FieldSets
  BY DEF FieldSets
<1>4. QED
  BY <1>1, <1>2, <1>3, Drawer

\* What the drawer does without sending.
LEMMA DrawerSound ==
    ASSUME Sound, NEW t \in Tabs, NEW s \in Slots,
           OpenDrawer(t) \/ Create(t, s) \/ EditDrawer(t, s) \/ CancelDrawer(t)
    PROVE  Sound'
<1>1. TabsFit /\ MailFits /\ RestFits /\ CountersFit
  BY SoundParts
<1>2. TabsFit' /\ (\A u \in Tabs \ {t} : tab'[u] = tab[u])
      /\ Same(tab[t], tab'[t], {"draft", "edits"})
  BY <1>1, OpenEffect, CreateEffect, EditEffect, CancelEffect
<1>3. tab'[t].at = tab[t].at /\ tab'[t].copy = tab[t].copy
  BY <1>2 DEF Same
<1>4. UNCHANGED net
  BY DEF OpenDrawer, Create, EditDrawer, CancelDrawer
<1>5. MailFits'
  BY <1>1, <1>2, <1>3, <1>4, MailStays, SingleKept DEF MailFits
<1>6. RestFits'
  BY <1>1 DEF OpenDrawer, Create, EditDrawer, CancelDrawer, RestFits, Notice
<1>7. CASE UNCHANGED used
  BY <1>1, <1>2, <1>5, <1>6, <1>7, Uncounted, SoundNext
<1>8. CASE Count("edits")
  BY <1>1, <1>2, <1>5, <1>6, <1>8, Counted, SoundNext
<1>9. QED
  BY <1>7, <1>8 DEF OpenDrawer, Create, EditDrawer, CancelDrawer

\* A request as it is sent.
Asks(r, t, kind, body, edits) ==
    /\ Fits(r) /\ r.tab = t /\ r.kind = kind /\ r.body = body /\ r.edits = edits
    /\ r.at = "sent" /\ ~r.gone

LEMMA SendPatch ==
    ASSUME NEW t \in Tabs, NEW kind \in Patches, NEW body \in Row, NEW edits \in FieldSets,
           Send(t, kind, body, edits)
    PROVE  /\ \E r : Asks(r, t, kind, body, edits) /\ net' = net \cup {r}
           /\ behind' = (behind \/ net # {} \/ Others(t))
<1>1. Asks(Request(t, kind, body, edits), t, kind, body, edits)
  BY NewPatch DEF Asks
<1>2. net' = net \cup {Request(t, kind, body, edits)}
      /\ behind' = (behind \/ net # {} \/ Others(t))
  BY DEF Send, Notice
<1>3. QED
  BY <1>1, <1>2

LEMMA SendCall ==
    ASSUME NEW t \in Tabs, NEW kind \in Remote, NEW body \in Calls \cup {Nothing},
           NEW edits \in FieldSets, kind # "unexport" => body \in Calls, Send(t, kind, body, edits)
    PROVE  /\ \E r : Asks(r, t, kind, body, edits) /\ net' = net \cup {r}
           /\ behind' = (behind \/ net # {} \/ Others(t))
<1>1. Asks(Request(t, kind, body, edits), t, kind, body, edits)
  BY NewCall DEF Asks
<1>2. net' = net \cup {Request(t, kind, body, edits)}
      /\ behind' = (behind \/ net # {} \/ Others(t))
  BY DEF Send, Notice
<1>3. QED
  BY <1>1, <1>2

\* What the drawer and the week view save.
LEMMA SaveEffect ==
    ASSUME TabsFit, NEW t \in Tabs, SaveDrawer(t)
    PROVE  /\ \E r : Asks(r, t, "save", tab[t].draft, tab[t].edits) /\ net' = net \cup {r}
           /\ behind' = (behind \/ net # {} \/ Others(t))
           /\ tab[t].at = "calendar" /\ tab[t].copy # Nothing /\ tab[t].draft \in Row
           /\ tab[t].draft.slots \in Slots /\ tab[t].edits \in FieldSets
<1> DEFINE body == tab[t].draft
           edits == tab[t].edits
<1>1. tab[t] \in Tab /\ tab[t].at = "calendar" /\ tab[t].copy # Nothing /\ body # Nothing
      /\ body.slots \in Slots
  BY DEF SaveDrawer, Drawn, Ready, At, TabsFit, Fitting
<1>2. body \in Row /\ edits \in FieldSets
  BY <1>1, TabFields DEF FieldSets
<1>3. "save" \in Patches /\ Send(t, "save", body, edits)
  BY Kinds DEF SaveDrawer
<1> HIDE DEF body, edits
<1>4. /\ \E r : Asks(r, t, "save", body, edits) /\ net' = net \cup {r}
      /\ behind' = (behind \/ net # {} \/ Others(t))
  BY <1>2, <1>3, SendPatch
<1>5. QED
  BY <1>1, <1>2, <1>4 DEF body, edits

LEMMA DragEffect ==
    ASSUME TabsFit, NEW t \in Tabs, NEW s \in Slots, Drag(t, s)
    PROVE  /\ \E r : /\ Asks(r, t, "drag", [tab[t].copy EXCEPT !.slots = s], {"slots"})
                     /\ net' = net \cup {r}
           /\ behind' = (behind \/ net # {} \/ Others(t))
           /\ tab[t].at = "calendar" /\ tab[t].copy \in Row /\ tab[t].copy.slots \in Slots
           /\ tab[t].draft = Nothing
<1> DEFINE body == [tab[t].copy EXCEPT !.slots = s]
           edits == {"slots"}
<1>1. tab[t] \in Tab /\ tab[t].at = "calendar" /\ tab[t].copy # Nothing
      /\ tab[t].copy.slots \in Slots /\ tab[t].draft = Nothing
  BY DEF Drag, Drawn, Ready, At, TabsFit, Fitting
<1>2. tab[t].copy \in Row
  BY <1>1, TabFields
<1>3. body \in Row /\ edits \in FieldSets
  BY <1>2, RowFields DEF FieldSets, Fields
<1>4. "drag" \in Patches /\ Send(t, "drag", body, edits)
  BY Kinds DEF Drag
<1> HIDE DEF body, edits
<1>5. /\ \E r : Asks(r, t, "drag", body, edits) /\ net' = net \cup {r}
      /\ behind' = (behind \/ net # {} \/ Others(t))
  BY <1>3, <1>4, SendPatch
<1>6. QED
  BY <1>1, <1>2, <1>5 DEF body, edits

\* What asks for a meeting, for a page, or to delete it.
LEMMA ScheduleEffect ==
    ASSUME TabsFit, CountersFit, NEW t \in Tabs, Schedule(t)
    PROVE  /\ \E r : Asks(r, t, "zoom", used'.calls, {"zoom"}) /\ net' = net \cup {r}
           /\ behind' = (behind \/ net # {} \/ Others(t))
           /\ tab[t].at = "calendar" /\ tab[t].copy \in Row /\ tab[t].draft \in Row
           /\ tab[t].draft.slots \in Slots /\ tab[t].draft.zoom = Nothing
           /\ used'.calls \in Calls /\ used'.calls # Nothing
<1> DEFINE body == used'.calls
           edits == {"zoom"}
<1>1. tab[t] \in Tab /\ tab[t].at = "calendar" /\ tab[t].copy # Nothing
      /\ tab[t].draft # Nothing /\ tab[t].draft.slots \in Slots /\ tab[t].draft.zoom = Nothing
  BY DEF Schedule, Drawn, Ready, At, TabsFit, Fitting
<1>2. tab[t].copy \in Row /\ tab[t].draft \in Row
  BY <1>1, TabFields
<1>3. body \in Calls /\ body # Nothing /\ edits \in FieldSets
  BY Counted DEF FieldSets, Fields, Schedule
<1>4. "zoom" \in Remote /\ Send(t, "zoom", body, edits)
  BY Kinds DEF Schedule
<1> HIDE DEF body, edits
<1>5. /\ \E r : Asks(r, t, "zoom", body, edits) /\ net' = net \cup {r}
      /\ behind' = (behind \/ net # {} \/ Others(t))
  BY <1>3, <1>4, SendCall
<1>6. QED
  BY <1>1, <1>2, <1>3, <1>5 DEF body, edits

LEMMA PublishEffect ==
    ASSUME TabsFit, CountersFit, NEW t \in Tabs, Publish(t)
    PROVE  /\ \E r : /\ \/ Asks(r, t, "export", used'.calls, {"page"})
                        \/ Asks(r, t, "unexport", Nothing, {"page"})
                     /\ net' = net \cup {r}
           /\ behind' = (behind \/ net # {} \/ Others(t))
           /\ tab[t].at = "view" /\ tab[t].copy \in Row
           /\ tab[t].copy.notes # Blank \/ tab[t].copy.page # Nothing
<1>1. tab[t] \in Tab /\ tab[t].at = "view" /\ tab[t].copy # Nothing
  BY DEF Publish, Export, Unexport, Ready, At, TabsFit, Fitting
<1>2. tab[t].copy \in Row
  BY <1>1, TabFields
<1>3. {"page"} \in FieldSets /\ "export" \in Remote /\ "unexport" \in Remote
  BY Kinds DEF FieldSets, Fields
<1> DEFINE edits == {"page"}
           body == used'.calls
<1> HIDE DEF edits, body
<1>4. ASSUME Export(t)
      PROVE  /\ \E r : Asks(r, t, "export", body, edits) /\ net' = net \cup {r}
             /\ behind' = (behind \/ net # {} \/ Others(t))
             /\ tab[t].copy.notes # Blank
  <2>1. body \in Calls /\ tab[t].copy.notes # Blank
        /\ Send(t, "export", body, edits)
    BY <1>4, Counted DEF Export, body, edits
  <2>2. QED
    BY <2>1, <1>3, SendCall DEF edits
<1>5. ASSUME Unexport(t)
      PROVE  /\ \E r : Asks(r, t, "unexport", Nothing, edits) /\ net' = net \cup {r}
             /\ behind' = (behind \/ net # {} \/ Others(t))
             /\ tab[t].copy.page # Nothing
  <2>1. tab[t].copy.page # Nothing /\ Send(t, "unexport", Nothing, edits)
    BY <1>5 DEF Unexport, edits
  <2>2. Nothing \in Calls \cup {Nothing}
    OBVIOUS
  <2>3. QED
    BY <2>1, <2>2, <1>3, SendCall DEF edits
<1>6. CASE Export(t)
  BY <1>1, <1>2, <1>4, <1>6 DEF body, edits
<1>7. CASE Unexport(t)
  BY <1>1, <1>2, <1>5, <1>7 DEF body, edits
<1>8. QED
  BY <1>6, <1>7 DEF Publish

\* What is sent keeps Sound.
LEMMA SendSound ==
    ASSUME Sound, NEW t \in Tabs, NEW s \in Slots,
           SaveDrawer(t) \/ Drag(t, s) \/ Schedule(t) \/ Publish(t)
    PROVE  Sound'
<1>1. TabsFit /\ MailFits /\ RestFits /\ CountersFit
  BY SoundParts
<1>2. \E r : /\ Fits(r) /\ r.at = "sent" /\ r.tab = t /\ net' = net \cup {r}
             /\ \/ r.kind \in {"save", "drag", "zoom"} /\ tab[t].at = "calendar"
                \/ /\ r.kind \in {"export", "unexport"} /\ tab[t].at = "view"
                   /\ tab[t].copy # Nothing
  <2>1. CASE SaveDrawer(t)
    BY <2>1, <1>1, SaveEffect DEF Asks
  <2>2. CASE Drag(t, s)
    <3>1. PICK r : /\ Asks(r, t, "drag", [tab[t].copy EXCEPT !.slots = s], {"slots"})
                   /\ net' = net \cup {r}
      BY <2>2, <1>1, DragEffect
    <3>2. tab[t].at = "calendar"
      BY <2>2 DEF Drag, Ready, At
    <3>3. QED
      BY <3>1, <3>2 DEF Asks
  <2>3. CASE Schedule(t)
    BY <2>3, <1>1, ScheduleEffect DEF Asks
  <2>4. CASE Publish(t)
    BY <2>4, <1>1, PublishEffect, NothingIsNoRow DEF Asks
  <2>5. QED
    BY <2>1, <2>2, <2>3, <2>4
<1>3. UNCHANGED tab
  BY DEF SaveDrawer, Drag, Schedule, Publish, Export, Unexport
<1>4. MailFits'
  BY <1>1, <1>2, <1>3, Sends, Kinds DEF Ready, At
<1>5. TabsFit' /\ RestFits'
  BY <1>1, <1>3 DEF TabsFit, RestFits, SaveDrawer, Drag, Schedule, Publish, Export, Unexport,
     Send, Notice
<1>6. CountersFit'
  BY <1>1, Uncounted, Counted DEF SaveDrawer, Drag, Schedule, Publish, Export, Unexport
<1>7. QED
  BY <1>4, <1>5, <1>6, SoundNext

-----------------------------------------------------------------------------
(* The steps of the backend keep Sound.                                      *)

\* A request that is served: its answer is on its way, if there is one.
Moves(q, p, at, body) ==
    /\ Fits(p) /\ p.at = at /\ p.body = body
    /\ p.tab = q.tab /\ p.kind = q.kind /\ p.edits = q.edits /\ (p.gone <=> q.gone)

LEMMA ServedMoves ==
    ASSUME MailFits, NEW q \in net, NEW body, Served(q, body),
           q.kind \in {"zoom", "export"} => body \in Calls,
           q.kind \in Remote => body \in Calls \cup {Nothing},
           q.kind \notin Remote => body \in Row
    PROVE  \/ q.gone /\ net' = net \ {q}
           \/ ~q.gone /\ \E p : Moves(q, p, "served", body) /\ net' = (net \ {q}) \cup {p}
<1>1. Fits(q)
  BY DEF MailFits
<1>2. CASE q.gone
  BY <1>2 DEF Served
<1>3. CASE ~q.gone
  <2>1. Moves(q, [q EXCEPT !.at = "served", !.body = body], "served", body)
    <3>1. CASE q.kind \in Remote
      BY <3>1, <1>1, <1>3, Kinds DEF Moves, Fits, Messages
    <3>2. CASE q.kind \notin Remote
      BY <3>2, <1>1, <1>3, Kinds DEF Moves, Fits, Messages
    <3>3. QED
      BY <3>1, <3>2
  <2>2. net' = (net \ {q}) \cup {[q EXCEPT !.at = "served", !.body = body]}
    BY <1>3 DEF Served, Becomes
  <2>3. QED
    BY <1>3, <2>1, <2>2
<1>4. QED
  BY <1>2, <1>3

\* A request that moves on is awaited as it was.
LEMMA MovedAwaited ==
    ASSUME MailFits, UNCHANGED tab, NEW q \in net, NEW p, NEW at, NEW body,
           Moves(q, p, at, body), at = "served" => ~q.gone,
           at = "called" => q.kind \in Remote, net' = (net \ {q}) \cup {p}
    PROVE  MailFits'
<1>1. \A r \in net : Awaited(r)'
  BY StillAwaited DEF MailFits
<1>2. Awaited(p)'
  <2>1. Awaited(q)'
    BY <1>1
  <2>2. QED
    BY <2>1, Kinds DEF Awaited, Ready, At, Moves
<1>3. Single'
  BY DEF Single, Moves, MailFits
<1>4. QED
  BY <1>1, <1>2, <1>3 DEF MailFits, Moves

LEMMA ServedMail ==
    ASSUME MailFits, UNCHANGED tab, NEW q \in net, NEW body, Served(q, body),
           q.kind \in {"zoom", "export"} => body \in Calls,
           q.kind \in Remote => body \in Calls \cup {Nothing},
           q.kind \notin Remote => body \in Row
    PROVE  MailFits'
<1>1. CASE q.gone /\ net' = net \ {q}
  BY <1>1, StillAwaited, SingleKept DEF MailFits
<1>2. CASE ~q.gone /\ \E p : Moves(q, p, "served", body) /\ net' = (net \ {q}) \cup {p}
  BY <1>2, MovedAwaited
<1>3. QED
  BY <1>1, <1>2, ServedMoves

\* What the users gave last, field by field.
LEMMA GivenFits ==
    ASSUME latest \in Row, NEW q, NEW fields \in Row, Given(q, fields)
    PROVE  /\ latest' \in Row
           /\ \A f \in Fields : latest'[f] = IF f \in q.edits THEN fields[f] ELSE latest[f]
BY DEF Given, Row, Fields

LEMMA CalledMoves ==
    ASSUME MailFits, NEW q \in net, q.kind \in Remote,
           Becomes(q, [q EXCEPT !.at = "called"])
    PROVE  \E p : Moves(q, p, "called", q.body) /\ net' = (net \ {q}) \cup {p}
<1>1. Moves(q, [q EXCEPT !.at = "called"], "called", q.body)
  BY Called DEF Moves, MailFits
<1>2. QED
  BY <1>1 DEF Becomes

\* What each service does to the row, and with what it is answered.
LEMMA LoadServed ==
    ASSUME MailFits, RestFits, NEW q \in net, ServeLoad(q)
    PROVE  /\ Served(q, row) /\ q.kind \in Loads /\ q.kind \notin Remote /\ q.at = "sent"
           /\ row \in Row /\ UNCHANGED <<row, latest>>
BY Kinds DEF ServeLoad, RestFits

LEMMA PatchServed ==
    ASSUME MailFits, RestFits, NEW q \in net, ServePatch(q)
    PROVE  /\ Served(q, q.body) /\ q.kind \in Patches /\ q.kind \notin Remote /\ q.at = "sent"
           /\ q.body \in Row /\ row' = q.body /\ latest' \in Row
           /\ \A f \in Fields : latest'[f] = IF f \in q.edits THEN q.body[f] ELSE latest[f]
<1>1. q.kind \in Patches /\ q.body \in Row
  BY MessageFields DEF MailFits, ServePatch
<1>2. QED
  BY <1>1, GivenFits, Kinds DEF ServePatch, RestFits

LEMMA ZoomServed ==
    ASSUME MailFits, RestFits, NEW q \in net, StoreZoom(q)
    PROVE  /\ Served(q, q.body) /\ q.kind = "zoom" /\ q.kind \in Remote /\ q.at = "called"
           /\ q.body \in Calls /\ row' \in Row /\ row'.zoom = q.body
           /\ (\A f \in Fields \ {"zoom"} : row'[f] = row[f]) /\ latest' \in Row
           /\ \A f \in Fields : latest'[f] = IF f \in q.edits THEN row'[f] ELSE latest[f]
<1>1. q.kind = "zoom" /\ q.kind \in Remote /\ q.body \in Calls
  BY MessageFields, Kinds DEF MailFits, StoreZoom
<1>2. row' = [row EXCEPT !.zoom = q.body] /\ row \in Row
  BY DEF StoreZoom, RestFits
<1>3. row' \in Row /\ row'.zoom = q.body /\ \A f \in Fields \ {"zoom"} : row'[f] = row[f]
  BY <1>1, <1>2, RowFields
<1>4. latest \in Row /\ Given(q, row')
  BY DEF StoreZoom, RestFits
<1>5. /\ latest' \in Row
      /\ \A f \in Fields : latest'[f] = IF f \in q.edits THEN row'[f] ELSE latest[f]
  BY <1>3, <1>4, GivenFits
<1>6. QED
  BY <1>1, <1>3, <1>5 DEF StoreZoom

LEMMA PageServed ==
    ASSUME MailFits, RestFits, NEW q \in net, StorePage(q)
    PROVE  /\ Served(q, q.body) /\ q.kind \in {"export", "unexport"} /\ q.kind \in Remote
           /\ q.at = "called" /\ q.body \in Calls \cup {Nothing} /\ row' \in Row
           /\ q.kind = "export" => q.body \in Calls
           /\ row'.page = q.body /\ (\A f \in Fields \ {"page"} : row'[f] = row[f])
           /\ latest' \in Row
           /\ \A f \in Fields : latest'[f] = IF f \in q.edits THEN row'[f] ELSE latest[f]
<1>1. /\ q.kind \in {"export", "unexport"} /\ q.kind \in Remote
      /\ q.body \in Calls \cup {Nothing} /\ (q.kind = "export" => q.body \in Calls)
  BY MessageFields, Kinds DEF MailFits, StorePage
<1>2. row' = [row EXCEPT !.page = q.body] /\ row \in Row
  BY DEF StorePage, RestFits
<1>3. row' \in Row /\ row'.page = q.body /\ \A f \in Fields \ {"page"} : row'[f] = row[f]
  BY <1>1, <1>2, RowFields
<1>4. latest \in Row /\ Given(q, row')
  BY DEF StorePage, RestFits
<1>5. /\ latest' \in Row
      /\ \A f \in Fields : latest'[f] = IF f \in q.edits THEN row'[f] ELSE latest[f]
  BY <1>3, <1>4, GivenFits
<1>6. QED
  BY <1>1, <1>3, <1>5 DEF StorePage

\* A call of Zoom or of Confluence leaves the row as it is.
LEMMA CallMoves ==
    ASSUME MailFits, RestFits, NEW q \in net, CallZoom(q) \/ CallConfluence(q) \/ DeletePage(q)
    PROVE  /\ \E p, body : /\ Moves(q, p, "called", body) /\ net' = (net \ {q}) \cup {p}
                           /\ q.kind = "zoom" => body = q.body
           /\ q.kind \in Remote /\ q.at = "sent"
           /\ q.kind = "zoom" => CallZoom(q)
           /\ UNCHANGED <<row, latest, tab, behind, used>>
           /\ meetings' \subseteq Calls /\ pages' \subseteq Calls
<1>1. /\ Fits(q) /\ row.page \in Calls \cup {Nothing} /\ Nothing \notin Calls
      /\ q.kind \in {"zoom", "export"} => q.body \in Calls
  BY RowFields, MessageFields, EngagementAssumption DEF MailFits, RestFits, Calls
<1>2. CASE CallZoom(q)
  <2>1. q.kind = "zoom" /\ q.kind \in Remote /\ Becomes(q, [q EXCEPT !.at = "called"])
    BY <1>2, Kinds DEF CallZoom
  <2>2. PICK p : Moves(q, p, "called", q.body) /\ net' = (net \ {q}) \cup {p}
    BY <2>1, CalledMoves
  <2>3. QED
    BY <1>1, <1>2, <2>1, <2>2 DEF CallZoom, RestFits
<1>3. CASE CallConfluence(q)
  <2>1. q.kind = "export" /\ q.kind \in Remote /\ q.at = "sent"
    BY <1>3, Kinds DEF CallConfluence
  <2>2. CASE pages' = pages \cup {q.body} /\ Becomes(q, [q EXCEPT !.at = "called"])
    <3>1. \E p : Moves(q, p, "called", q.body) /\ net' = (net \ {q}) \cup {p}
      BY <2>1, <2>2, CalledMoves
    <3>2. pages' \subseteq Calls
      BY <1>1, <2>1, <2>2 DEF RestFits
    <3>3. QED
      BY <1>3, <2>1, <3>1, <3>2 DEF CallConfluence, RestFits
  <2>3. CASE /\ row.page \in pages /\ UNCHANGED pages
             /\ Becomes(q, [q EXCEPT !.at = "called", !.body = row.page])
    <3>1. row.page \in Calls
      BY <2>3 DEF RestFits
    <3>2. Moves(q, [q EXCEPT !.at = "called", !.body = row.page], "called", row.page)
      BY <1>1, <2>1, <3>1, Kinds DEF Moves, Fits, Messages
    <3>3. QED
      BY <1>3, <2>1, <2>3, <3>2 DEF CallConfluence, RestFits, Becomes
  <2>4. QED
    BY <1>3, <2>2, <2>3 DEF CallConfluence
<1>4. CASE DeletePage(q)
  BY <1>4, Kinds, CalledMoves DEF DeletePage, RestFits
<1>5. QED
  BY <1>2, <1>3, <1>4

LEMMA ServeSound ==
    ASSUME Sound, NEW q \in net, Serve(q)
    PROVE  Sound'
<1>1. TabsFit /\ MailFits /\ RestFits /\ CountersFit
  BY SoundParts
<1>2. UNCHANGED <<tab, behind, used>>
  BY DEF Serve, ServeLoad, ServePatch, CallZoom, StoreZoom, CallConfluence, DeletePage, StorePage
<1>3. TabsFit' /\ CountersFit'
  BY <1>1, <1>2, Uncounted DEF TabsFit
<1>4. CASE ServeLoad(q)
  <2>1. MailFits'
    <3>1. q.kind \notin {"zoom", "export"}
      BY <1>1, <1>4, LoadServed, Kinds
    <3>2. QED
      BY <1>1, <1>2, <1>4, <3>1, LoadServed, ServedMail
  <2>2. RestFits'
    BY <1>1, <1>4 DEF RestFits, ServeLoad
  <2>3. QED
    BY <1>3, <2>1, <2>2, SoundNext
<1>5. CASE ServePatch(q)
  <2>1. MailFits'
    <3>1. q.kind \notin {"zoom", "export"}
      BY <1>1, <1>5, PatchServed, Kinds
    <3>2. QED
      BY <1>1, <1>2, <1>5, <3>1, PatchServed, ServedMail
  <2>2. RestFits'
    BY <1>1, <1>5, PatchServed DEF RestFits, ServePatch
  <2>3. QED
    BY <1>3, <2>1, <2>2, SoundNext
<1>6. CASE StoreZoom(q)
  <2>1. MailFits'
    BY <1>1, <1>2, <1>6, ZoomServed, ServedMail
  <2>2. RestFits'
    BY <1>1, <1>6, ZoomServed DEF RestFits, StoreZoom
  <2>3. QED
    BY <1>3, <2>1, <2>2, SoundNext
<1>7. CASE StorePage(q)
  <2>1. MailFits'
    BY <1>1, <1>2, <1>7, PageServed, ServedMail
  <2>2. RestFits'
    BY <1>1, <1>7, PageServed DEF RestFits, StorePage
  <2>3. QED
    BY <1>3, <2>1, <2>2, SoundNext
<1>8. CASE CallZoom(q) \/ CallConfluence(q) \/ DeletePage(q)
  <2>1. /\ \E p, body : Moves(q, p, "called", body) /\ net' = (net \ {q}) \cup {p}
        /\ q.kind \in Remote /\ UNCHANGED <<row, latest, tab, behind>>
        /\ meetings' \subseteq Calls /\ pages' \subseteq Calls
    BY <1>1, <1>8, CallMoves
  <2>2. MailFits'
    BY <1>1, <2>1, MovedAwaited
  <2>3. RestFits'
    BY <1>1, <2>1 DEF RestFits
  <2>4. QED
    BY <1>3, <2>2, <2>3, SoundNext
<1>9. QED
  BY <1>4, <1>5, <1>6, <1>7, <1>8 DEF Serve

-----------------------------------------------------------------------------
(* The answers keep Sound.                                                   *)

\* A page hears: one tab changes that keeps its page, and has a copy if it had one.
LEMMA HeardMail ==
    ASSUME MailFits, NEW t \in Tabs, net' \subseteq net,
           \A u \in Tabs \ {t} : tab'[u] = tab[u],
           tab'[t].at = tab[t].at, tab[t].copy = Nothing <=> tab'[t].copy = Nothing
    PROVE  MailFits'
<1>1. \A r \in net : /\ r.tab \in Tabs /\ tab'[r.tab].at = tab[r.tab].at
                     /\ tab[r.tab].copy = Nothing <=> tab'[r.tab].copy = Nothing
  BY MessageFields DEF MailFits
<1>2. QED
  BY <1>1, StillAwaited, SingleKept DEF MailFits

\* The answer to a GET.
LEMMA LoadHeard ==
    ASSUME TabsFit, MailFits, NEW q \in net, LoadReply(q)
    PROVE  LET t == q.tab  c == tab[q.tab]  d == tab'[q.tab] IN
           /\ TabsFit' /\ (\A u \in Tabs \ {t} : tab'[u] = tab[u]) /\ t \in Tabs
           /\ q.body \in Row
           /\ \/ /\ d.copy = q.body /\ c.at = "notes" /\ q.kind = "project"
                 /\ d.blocks = q.body.notes /\ d.saved = q.body.notes
                 /\ Same(c, d, {"copy", "blocks", "saved"})
                 /\ c.copy = Nothing /\ c.pending = Nothing
              \/ /\ d.copy = q.body /\ Same(c, d, {"copy"})
                 /\ \/ c.at = "calendar" /\ q.kind = "list"
                    \/ c.at = "view" /\ q.kind = "project"
              \/ /\ UNCHANGED tab
                 /\ ~(c.at \in {"notes", "view"} /\ q.kind = "project")
                 /\ ~(c.at = "calendar" /\ q.kind = "list")
<1> DEFINE t == q.tab
           c == tab[t]
<1>1. /\ t \in Tabs /\ q.kind \in Loads /\ q.at = "served" /\ q.body \in Row
      /\ q.body.notes \in Texts /\ q.body # Nothing
  BY MessageFields, RowFields DEF MailFits, LoadReply
<1>2. Fitting(c)
  BY <1>1 DEF TabsFit
<1>3. CASE c.at = "notes" /\ q.kind = "project"
  <2> DEFINE d == [c EXCEPT !.copy = q.body, !.blocks = q.body.notes, !.saved = q.body.notes]
  <2>1. tab' = [tab EXCEPT ![t] = d]
    BY <1>1, <1>3 DEF LoadReply, At, TabsFit
  <2>2. /\ d \in Tab /\ d.copy = q.body /\ d.blocks = q.body.notes /\ d.saved = q.body.notes
        /\ Same(c, d, {"copy", "blocks", "saved"})
    BY <1>1, <1>2, LoadedTab DEF Fitting
  <2> HIDE DEF d
  <2>3. d.at = c.at /\ d.draft = c.draft /\ d.pending = c.pending
    BY <2>2 DEF Same
  <2>4. c.copy = Nothing /\ c.pending = Nothing
    BY <1>2, <1>3 DEF MailFits, Awaited, Ready, At, Fitting
  <2>5. Fitting(d)
    BY <1>2, <1>3, <2>2, <2>3, <2>4 DEF Fitting
  <2>6. tab'[t] = d /\ (\A u \in Tabs \ {t} : tab'[u] = tab[u]) /\ TabsFit'
    BY <1>1, <2>1, <2>5, OneTab
  <2>7. QED
    BY <1>1, <1>3, <2>2, <2>4, <2>6
<1>4. CASE (c.at = "calendar" /\ q.kind = "list") \/ (c.at = "view" /\ q.kind = "project")
  <2> DEFINE d == [c EXCEPT !.copy = q.body]
  <2>1. tab' = [tab EXCEPT ![t] = d]
    BY <1>1, <1>4 DEF LoadReply, At, TabsFit
  <2>2. d \in Tab /\ d.copy = q.body /\ Same(c, d, {"copy"})
    BY <1>1, <1>2, CopyTab DEF Fitting
  <2> HIDE DEF d
  <2>3. /\ d.at = c.at /\ d.draft = c.draft /\ d.pending = c.pending /\ d.blocks = c.blocks
    BY <2>2 DEF Same
  <2>4. Fitting(d)
    BY <1>1, <1>2, <2>2, <2>3 DEF Fitting
  <2>5. tab'[t] = d /\ (\A u \in Tabs \ {t} : tab'[u] = tab[u]) /\ TabsFit'
    BY <1>1, <2>1, <2>4, OneTab
  <2>6. QED
    BY <1>1, <1>4, <2>2, <2>5
<1>5. CASE /\ ~(c.at \in {"notes", "view"} /\ q.kind = "project")
           /\ ~(c.at = "calendar" /\ q.kind = "list")
  <2>1. UNCHANGED tab
    BY <1>1, <1>5 DEF LoadReply, At
  <2>2. QED
    BY <1>1, <1>5, <2>1 DEF TabsFit
<1>6. QED
  BY <1>3, <1>4, <1>5

LEMMA LoadReplySound ==
    ASSUME Sound, NEW q \in net, LoadReply(q)
    PROVE  Sound'
<1> DEFINE t == q.tab
           c == tab[q.tab]
           d == tab'[q.tab]
<1>1. TabsFit /\ MailFits /\ RestFits /\ CountersFit
  BY SoundParts
<1>2. /\ TabsFit' /\ (\A u \in Tabs \ {t} : tab'[u] = tab[u]) /\ t \in Tabs
      /\ q.body # Nothing
      /\ \/ UNCHANGED tab
         \/ d.copy = q.body /\ d.at = c.at /\ c.at = "notes" /\ q.kind = "project"
         \/ d.copy = q.body /\ d.at = c.at /\ c.at = "view" /\ q.kind = "project"
         \/ d.copy = q.body /\ d.at = c.at /\ c.at = "calendar" /\ q.kind = "list"
  BY <1>1, LoadHeard, NothingIsNoRow DEF Same
<1>3. net' = net \ {q} /\ q.kind \in Loads
  BY DEF LoadReply
<1>4. ASSUME UNCHANGED tab
      PROVE  MailFits'
  BY <1>1, <1>2, <1>3, <1>4, HeardMail
<1>5. ASSUME d.copy = q.body, d.at = c.at, NEW r \in net'
      PROVE  Awaited(r)'
  <2>1. r \in net /\ r # q /\ Awaited(r) /\ r.tab \in Tabs
    BY <1>1, <1>3, MessageFields DEF MailFits
  <2>2. CASE r.tab # t
    BY <1>2, <2>1, <2>2, StillAwaited
  <2>3. CASE r.tab = t /\ (c.at # "notes" \/ r.kind # "project")
    BY <1>2, <1>5, <2>1, <2>3, Kinds DEF Awaited, Ready, At
  <2>4. CASE r.tab = t /\ c.at = "notes" /\ r.kind = "project"
    <3>1. q.kind # r.kind
      BY <1>1, <1>3, <2>1, <2>4 DEF MailFits, Single
    <3>2. QED
      BY <1>1, <1>2, <1>5, <2>1, <2>4, <3>1, StillAwaited
  <2>5. QED
    BY <2>2, <2>3, <2>4
<1>6. MailFits'
  <2>1. ASSUME d.copy = q.body, d.at = c.at
        PROVE  MailFits'
    BY <1>1, <1>3, <1>5, <2>1, SingleKept DEF MailFits
  <2>2. QED
    BY <1>2, <1>4, <2>1
<1>7. RestFits' /\ CountersFit'
  BY <1>1, Uncounted DEF LoadReply, RestFits
<1>8. QED
  BY <1>2, <1>6, <1>7, SoundNext

\* The answer to a save of the notes.
LEMMA PersistHeard ==
    ASSUME TabsFit, MailFits, NEW q \in net, PersistReply(q)
    PROVE  LET t == q.tab  c == tab[q.tab]  d == tab'[q.tab]  x == q.body.notes IN
           /\ TabsFit' /\ (\A u \in Tabs \ {t} : tab'[u] = tab[u]) /\ t \in Tabs
           /\ q.body \in Row /\ c.at = "notes" /\ c.copy # Nothing /\ ~q.gone
           /\ d.saved = x /\ d.status = "saved" /\ (d.odd <=> c.odd /\ c.blocks # x)
           /\ Same(c, d, {"saved", "status", "odd"})
<1> DEFINE t == q.tab
           c == tab[t]
           x == q.body.notes
           b == c.odd /\ c.blocks # x
           d == [c EXCEPT !.saved = x, !.status = "saved", !.odd = b]
<1>1. /\ t \in Tabs /\ q.kind = "persist" /\ q.at = "served" /\ q.body \in Row
      /\ x \in Texts /\ ~q.gone /\ c.at = "notes" /\ c.copy # Nothing
  <2>1. Fits(q) /\ Awaited(q) /\ q.kind = "persist" /\ q.at = "served"
    BY DEF MailFits, PersistReply
  <2>2. ~q.gone /\ c.at = "notes" /\ c.copy # Nothing
    BY <2>1 DEF Awaited, Ready, At
  <2>3. t \in Tabs /\ q.body \in Row
    BY <2>1, MessageFields, Kinds
  <2>4. QED
    BY <2>1, <2>2, <2>3, RowFields
<1>2. Fitting(c)
  BY <1>1 DEF TabsFit
<1>3. tab' = [tab EXCEPT ![t] = d]
  BY <1>1 DEF PersistReply, TabsFit
<1>4. /\ d \in Tab /\ d.saved = x /\ d.status = "saved" /\ (d.odd <=> b)
      /\ Same(c, d, {"saved", "status", "odd"})
  <2>1. c \in Tab /\ b \in BOOLEAN
    BY <1>2, TabFields DEF Fitting
  <2> HIDE DEF c, x, b
  <2>2. d \in Tab
    BY <1>1, <2>1 DEF Tab
  <2>3. d.saved = x /\ d.status = "saved" /\ (d.odd <=> b)
    BY <1>1, <2>1 DEF Tab
  <2>4. /\ d.at = c.at /\ d.copy = c.copy /\ d.draft = c.draft /\ d.edits = c.edits
        /\ d.blocks = c.blocks /\ d.pending = c.pending
    BY <2>1 DEF Tab
  <2> HIDE DEF d
  <2>5. QED
    BY <2>2, <2>3, <2>4 DEF Same
<1> HIDE DEF d
<1>5. /\ d.at = c.at /\ d.draft = c.draft /\ d.pending = c.pending /\ d.copy = c.copy
      /\ d.blocks = c.blocks
  BY <1>4 DEF Same
<1>6. Fitting(d)
  BY <1>2, <1>4, <1>5 DEF Fitting
<1>7. tab'[t] = d /\ (\A u \in Tabs \ {t} : tab'[u] = tab[u]) /\ TabsFit'
  BY <1>1, <1>3, <1>6, OneTab
<1>8. QED
  BY <1>1, <1>4, <1>7

\* The answer to a save of the calendar.
LEMMA CalendarHeard ==
    ASSUME TabsFit, MailFits, NEW q \in net, CalendarReply(q)
    PROVE  LET t == q.tab  c == tab[q.tab]  d == tab'[q.tab] IN
           /\ TabsFit' /\ (\A u \in Tabs \ {t} : tab'[u] = tab[u]) /\ t \in Tabs
           /\ q.body \in Row /\ c.at = "calendar" /\ ~q.gone
           /\ IF q.kind = "drag" THEN UNCHANGED tab ELSE d.draft = Nothing /\ d.edits = {}
           /\ Same(c, d, {"draft", "edits"})
<1> DEFINE t == q.tab
           c == tab[t]
           e == {}
<1>1. /\ t \in Tabs /\ q.kind \in {"save", "drag"} /\ q.at = "served" /\ q.body \in Row
      /\ ~q.gone /\ c.at = "calendar"
  <2>1. Fits(q) /\ Awaited(q) /\ q.kind \in {"save", "drag"} /\ q.at = "served"
    BY DEF MailFits, CalendarReply
  <2>2. ~q.gone /\ c.at = "calendar"
    BY <2>1 DEF Awaited, Ready, At
  <2>3. t \in Tabs /\ q.body \in Row
    BY <2>1, MessageFields, Kinds
  <2>4. QED
    BY <2>1, <2>2, <2>3
<1>2. CASE q.kind = "drag"
  <2>1. UNCHANGED tab
    BY <1>2 DEF CalendarReply
  <2>2. QED
    BY <1>1, <1>2, <2>1 DEF TabsFit, Same
<1>3. CASE q.kind # "drag"
  <2>1. tab' = [tab EXCEPT ![t] = [tab[t] EXCEPT !.draft = Nothing, !.edits = e]]
    BY <1>1, <1>3 DEF CalendarReply, TabsFit
  <2>2. e \in FieldSets
    BY DEF FieldSets
  <2> HIDE DEF e
  <2>3. /\ TabsFit' /\ (\A u \in Tabs \ {t} : tab'[u] = tab[u])
        /\ tab'[t].draft = Nothing /\ tab'[t].edits = e
        /\ Same(tab[t], tab'[t], {"draft", "edits"})
    BY <1>1, <2>1, <2>2, Drawer
  <2>4. QED
    BY <1>1, <1>3, <2>3 DEF e
<1>4. QED
  BY <1>2, <1>3

\* The answer with a meeting.
LEMMA ZoomHeard ==
    ASSUME TabsFit, MailFits, NEW q \in net, ZoomReply(q)
    PROVE  LET t == q.tab  c == tab[q.tab]  d == tab'[q.tab] IN
           /\ TabsFit' /\ (\A u \in Tabs \ {t} : tab'[u] = tab[u]) /\ t \in Tabs
           /\ q.body \in Calls /\ c.at = "calendar" /\ ~q.gone
           /\ IF c.draft = Nothing THEN UNCHANGED tab /\ behind'
              ELSE /\ c.draft \in Row /\ d.draft = [c.draft EXCEPT !.zoom = q.body]
                   /\ d.edits = c.edits \cup {"zoom"} /\ UNCHANGED behind
           /\ Same(c, d, {"draft", "edits"})
<1> DEFINE t == q.tab
           c == tab[t]
           p == [c.draft EXCEPT !.zoom = q.body]
           e == c.edits \cup {"zoom"}
<1>1. /\ t \in Tabs /\ q.kind = "zoom" /\ q.at = "served" /\ q.body \in Calls
      /\ ~q.gone /\ c.at = "calendar"
  <2>1. Fits(q) /\ Awaited(q) /\ q.kind = "zoom" /\ q.at = "served"
    BY DEF MailFits, ZoomReply
  <2>2. ~q.gone /\ c.at = "calendar"
    BY <2>1 DEF Awaited, Ready, At
  <2>3. t \in Tabs /\ q.body \in Calls
    BY <2>1, MessageFields, Kinds
  <2>4. QED
    BY <2>1, <2>2, <2>3
<1>2. CASE c.draft = Nothing
  <2>1. UNCHANGED tab /\ behind'
    BY <1>2 DEF ZoomReply
  <2>2. QED
    BY <1>1, <1>2, <2>1 DEF TabsFit, Same
<1>3. CASE c.draft # Nothing
  <2>1. c \in Tab
    BY <1>1 DEF TabsFit, Fitting
  <2>2. c.draft \in Row /\ c.edits \in SUBSET Fields
    BY <1>3, <2>1, TabFields
  <2>3. p \in Row /\ e \in FieldSets
    BY <1>1, <2>2, RowFields DEF FieldSets, Fields
  <2>4. tab' = [tab EXCEPT ![t] = [tab[t] EXCEPT !.draft = p, !.edits = e]] /\ UNCHANGED behind
    BY <1>1, <1>3, <2>1 DEF ZoomReply, TabsFit, Tab
  <2> HIDE DEF p, e
  <2>5. /\ TabsFit' /\ (\A u \in Tabs \ {t} : tab'[u] = tab[u])
        /\ tab'[t].draft = p /\ tab'[t].edits = e
        /\ Same(tab[t], tab'[t], {"draft", "edits"})
    BY <1>1, <2>3, <2>4, Drawer
  <2>6. QED
    BY <1>1, <1>3, <2>2, <2>4, <2>5 DEF p, e
<1>4. QED
  BY <1>2, <1>3

\* The answer with a page, or that there is none.
LEMMA PageHeard ==
    ASSUME TabsFit, MailFits, NEW q \in net, PageReply(q)
    PROVE  LET t == q.tab  c == tab[q.tab]  d == tab'[q.tab] IN
           /\ TabsFit' /\ (\A u \in Tabs \ {t} : tab'[u] = tab[u]) /\ t \in Tabs
           /\ q.body \in Calls \cup {Nothing} /\ c.at = "view" /\ c.copy \in Row /\ ~q.gone
           /\ d.copy = [c.copy EXCEPT !.page = q.body] /\ d.copy \in Row
           /\ Same(c, d, {"copy"})
<1> DEFINE t == q.tab
           c == tab[t]
           p == [c.copy EXCEPT !.page = q.body]
           d == [c EXCEPT !.copy = p]
<1>1. /\ t \in Tabs /\ q.kind \in {"export", "unexport"} /\ q.at = "served"
      /\ q.body \in Calls \cup {Nothing} /\ ~q.gone /\ c.at = "view" /\ c.copy # Nothing
  <2>1. Fits(q) /\ Awaited(q) /\ q.kind \in {"export", "unexport"} /\ q.at = "served"
    BY DEF MailFits, PageReply
  <2>2. ~q.gone /\ c.at = "view" /\ c.copy # Nothing
    BY <2>1 DEF Awaited, Ready, At
  <2>3. t \in Tabs /\ q.body \in Calls \cup {Nothing}
    BY <2>1, MessageFields, Kinds
  <2>4. QED
    BY <2>1, <2>2, <2>3
<1>2. Fitting(c) /\ c.copy \in Row
  BY <1>1, TabFields DEF TabsFit, Fitting
<1>3. p \in Row
  BY <1>1, <1>2, RowFields
<1>4. tab' = [tab EXCEPT ![t] = d]
  BY <1>1, <1>2 DEF PageReply, TabsFit, Fitting, Tab
<1>5. d \in Tab /\ d.copy = p /\ Same(c, d, {"copy"})
  <2> HIDE DEF p
  <2>1. QED
    BY <1>2, <1>3, CopyTab DEF Fitting
<1> HIDE DEF d
<1>6. /\ d.at = c.at /\ d.draft = c.draft /\ d.pending = c.pending /\ d.blocks = c.blocks
      /\ p # Nothing
  BY <1>3, <1>5, NothingIsNoRow DEF Same
<1> HIDE DEF p
<1>7. Fitting(d)
  BY <1>2, <1>5, <1>6 DEF Fitting
<1>8. tab'[t] = d /\ (\A u \in Tabs \ {t} : tab'[u] = tab[u]) /\ TabsFit'
  BY <1>1, <1>4, <1>7, OneTab
<1>9. QED
  BY <1>1, <1>2, <1>3, <1>5, <1>8 DEF p

\* The answers to what a page has asked for keep Sound.
LEMMA ReplySound ==
    ASSUME Sound, NEW q \in net,
           PersistReply(q) \/ CalendarReply(q) \/ ZoomReply(q) \/ PageReply(q)
    PROVE  Sound'
<1> DEFINE t == q.tab
<1>1. TabsFit /\ MailFits /\ RestFits /\ CountersFit
  BY SoundParts
<1>2. /\ TabsFit' /\ (\A u \in Tabs \ {t} : tab'[u] = tab[u]) /\ t \in Tabs
      /\ tab'[t].at = tab[t].at /\ (tab[t].copy = Nothing <=> tab'[t].copy = Nothing)
  <2>1. CASE PersistReply(q)
    BY <2>1, <1>1, PersistHeard DEF Same
  <2>2. CASE CalendarReply(q)
    BY <2>2, <1>1, CalendarHeard DEF Same
  <2>3. CASE ZoomReply(q)
    BY <2>3, <1>1, ZoomHeard DEF Same
  <2>4. CASE PageReply(q)
    BY <2>4, <1>1, PageHeard, NothingIsNoRow DEF Same
  <2>5. QED
    BY <2>1, <2>2, <2>3, <2>4
<1>3. MailFits'
  <2>1. CASE PersistReply(q) \/ ZoomReply(q) \/ PageReply(q)
    <3>1. net' \subseteq net
      BY <2>1 DEF PersistReply, ZoomReply, PageReply
    <3>2. QED
      BY <1>1, <1>2, <3>1, HeardMail
  <2>2. CASE CalendarReply(q)
    <3> DEFINE rest == net \ {q}
    <3>1. net' = Loading(t, "calendar", rest) /\ rest \subseteq net
      BY <2>2 DEF CalendarReply
    <3>2. Single'
      BY <1>1, <1>2, <3>1, LoadingSingle DEF MailFits
    <3>3. ASSUME NEW r \in net' PROVE Fits(r) /\ Awaited(r)'
      <4>1. r \in rest \/ (Fits(r) /\ Awaited(r)')
        BY <1>2, <3>1, <3>3, LoadingFits
      <4>2. ASSUME r \in rest
            PROVE  /\ Fits(r) /\ Awaited(r) /\ tab'[r.tab].at = tab[r.tab].at
                   /\ tab[r.tab].copy = Nothing <=> tab'[r.tab].copy = Nothing
        BY <1>1, <1>2, <3>1, <4>2, MessageFields DEF MailFits
      <4>3. QED
        BY <4>1, <4>2, StillAwaited
    <3>4. QED
      BY <3>2, <3>3 DEF MailFits
  <2>3. QED
    BY <2>1, <2>2
<1>4. RestFits'
  BY <1>1 DEF RestFits, PersistReply, CalendarReply, ZoomReply, PageReply, Notice
<1>5. CountersFit'
  BY <1>1, Uncounted DEF PersistReply, CalendarReply, ZoomReply, PageReply
<1>6. QED
  BY <1>2, <1>3, <1>4, <1>5, SoundNext

\* What a failure leaves in the tab.
LEMMA Fails ==
    ASSUME TabsFit, MailFits, NEW q \in net, Fail(q)
    PROVE  LET t == q.tab  c == tab[q.tab]  d == tab'[q.tab] IN
           /\ TabsFit' /\ (\A u \in Tabs \ {t} : tab'[u] = tab[u]) /\ t \in Tabs
           /\ \/ /\ UNCHANGED tab /\ (q.kind = "persist" => q.gone)
                 /\ q.kind = "list" /\ ~q.gone => c.at # "calendar"
              \/ /\ q.kind = "persist" /\ ~q.gone /\ d.status = "error"
                 /\ Same(c, d, {"status"})
              \/ /\ q.kind = "list" /\ ~q.gone /\ c.at = "calendar" /\ d.copy = Nothing
                 /\ Same(c, d, {"copy"})
<1> DEFINE t == q.tab
           c == tab[t]
<1>1. t \in Tabs /\ Fits(q)
  BY MessageFields DEF MailFits
<1>2. Fitting(c)
  BY <1>1 DEF TabsFit
<1>3. CASE ~q.gone /\ q.kind = "persist"
  <2> DEFINE d == [c EXCEPT !.status = "error"]
  <2>1. tab' = [tab EXCEPT ![t] = d]
    BY <1>3 DEF Fail
  <2>2. d \in Tab /\ d.status = "error" /\ Same(c, d, {"status"})
    BY <1>2, MarkedTab DEF Fitting
  <2> HIDE DEF d
  <2>3. /\ d.at = c.at /\ d.draft = c.draft /\ d.pending = c.pending /\ d.copy = c.copy
        /\ d.blocks = c.blocks
    BY <2>2 DEF Same
  <2>4. Fitting(d)
    BY <1>2, <2>2, <2>3 DEF Fitting
  <2>5. tab'[t] = d /\ (\A u \in Tabs \ {t} : tab'[u] = tab[u]) /\ TabsFit'
    BY <1>1, <2>1, <2>4, OneTab
  <2>6. QED
    BY <1>1, <1>3, <2>2, <2>5
<1>4. CASE ~q.gone /\ q.kind = "list" /\ At(t, "calendar")
  <2> DEFINE d == [c EXCEPT !.copy = Nothing]
  <2>1. tab' = [tab EXCEPT ![t] = d]
    BY <1>4 DEF Fail
  <2>2. d \in Tab /\ d.copy = Nothing /\ Same(c, d, {"copy"})
    BY <1>2, CopyTab DEF Fitting
  <2> HIDE DEF d
  <2>3. /\ d.at = c.at /\ d.draft = c.draft /\ d.pending = c.pending /\ d.blocks = c.blocks
    BY <2>2 DEF Same
  <2>4. Fitting(d)
    BY <1>2, <1>4, <2>2, <2>3 DEF Fitting, At
  <2>5. tab'[t] = d /\ (\A u \in Tabs \ {t} : tab'[u] = tab[u]) /\ TabsFit'
    BY <1>1, <2>1, <2>4, OneTab
  <2>6. QED
    BY <1>1, <1>4, <2>2, <2>5 DEF At
<1>5. CASE q.gone \/ (q.kind # "persist" /\ ~(q.kind = "list" /\ At(t, "calendar")))
  <2>1. UNCHANGED tab
    BY <1>5 DEF Fail
  <2>2. QED
    BY <1>1, <1>5, <2>1 DEF TabsFit, At
<1>6. QED
  BY <1>3, <1>4, <1>5

LEMMA FailSound ==
    ASSUME Sound, NEW q \in net, Fail(q)
    PROVE  Sound'
<1> DEFINE t == q.tab
           c == tab[t]
<1>1. TabsFit /\ MailFits /\ RestFits /\ CountersFit
  BY SoundParts
<1>2. /\ TabsFit' /\ (\A u \in Tabs \ {t} : tab'[u] = tab[u]) /\ t \in Tabs
      /\ tab'[t].at = tab[t].at
      /\ \/ tab'[t].copy = tab[t].copy
         \/ q.kind = "list" /\ c.at = "calendar"
  BY <1>1, Fails DEF Same
<1>3. net' = net \ {q}
  BY DEF Fail
<1>4. ASSUME NEW r \in net' PROVE Awaited(r)'
  <2>1. r \in net /\ Awaited(r) /\ r.tab \in Tabs
    BY <1>1, <1>3, MessageFields DEF MailFits
  <2>2. CASE r.tab # t \/ tab'[t].copy = tab[t].copy
    BY <1>2, <2>1, <2>2, StillAwaited
  <2>3. CASE r.tab = t /\ c.at = "calendar"
    BY <1>2, <2>1, <2>3 DEF Awaited, Ready, At
  <2>4. QED
    BY <1>2, <2>2, <2>3
<1>5. MailFits'
  BY <1>1, <1>3, <1>4, SingleKept DEF MailFits
<1>6. RestFits'
  BY <1>1 DEF Fail, RestFits
<1>7. CountersFit'
  BY <1>1, Counted, Uncounted DEF Fail
<1>8. QED
  BY <1>2, <1>5, <1>6, <1>7, SoundNext

-----------------------------------------------------------------------------
(* Type correctness.                                                         *)

LEMMA SoundInit == Init => Sound
<1> SUFFICES ASSUME Init PROVE Sound
  OBVIOUS
<1>1. TabsFit
  <2>1. Closed.pending = Nothing /\ Closed.draft = Nothing
    BY DEF Closed
  <2>2. Fitting(Closed)
    BY <2>1, Mounted DEF Fitting
  <2>3. QED
    BY <2>2 DEF Init, TabsFit
<1>2. MailFits
  BY DEF Init, MailFits, Single
<1>3. RestFits
  <2>1. PICK s \in {Nothing, FirstSlot} : row = NewRow(s)
    BY DEF Init, NewRow
  <2>2. NewRow(s) \in Row
    BY EngagementAssumption DEF NewRow, Row
  <2>3. latest = row /\ meetings = {} /\ pages = {} /\ behind \in BOOLEAN
    BY DEF Init
  <2>4. QED
    BY <2>1, <2>2, <2>3 DEF RestFits
<1>4. CountersFit
  <2>1. Limit \in [edits : Nat, losses : Nat, visits : Nat, calls : Nat]
    BY EngagementAssumption
  <2>2. DOMAIN Limit = {"edits", "losses", "visits", "calls"}
        /\ \A c \in DOMAIN Limit : Limit[c] \in Nat
    BY <2>1
  <2>3. used \in [DOMAIN Limit -> Nat] /\ \A c \in DOMAIN Limit : used[c] = 0
    BY <2>2 DEF Init
  <2>4. QED
    BY <2>2, <2>3 DEF CountersFit
<1>5. QED
  BY <1>1, <1>2, <1>3, <1>4, SoundParts

LEMMA SoundStep == Sound /\ [Next]_vars => Sound'
<1> SUFFICES ASSUME Sound, [Next]_vars PROVE Sound'
  OBVIOUS
<1>1. CASE UNCHANGED vars
  BY <1>1 DEF vars, Sound, TypeOK, Placed, Single, Awaited, Ready, At
<1>2. ASSUME NEW t \in Tabs, Browse(t) PROVE Sound'
  BY <1>2, GoSound, CloseSound DEF Browse
<1>3. ASSUME NEW t \in Tabs, Write(t) PROVE Sound'
  BY <1>3, TypeSound, TimerSound, HideSound DEF Write
<1>4. ASSUME NEW t \in Tabs, Plan(t) PROVE Sound'
  <2>1. FirstSlot \in Slots
    BY EngagementAssumption
  <2>2. QED
    BY <1>4, <2>1, DrawerSound, SendSound DEF Plan
<1>5. ASSUME NEW t \in Tabs, Publish(t) PROVE Sound'
  <2>1. FirstSlot \in Slots
    BY EngagementAssumption
  <2>2. QED
    BY <1>5, <2>1, SendSound
<1>6. ASSUME NEW q \in net, Serve(q) \/ Reply(q) \/ Fail(q) PROVE Sound'
  BY <1>6, ServeSound, LoadReplySound, ReplySound, FailSound DEF Reply
<1>7. QED
  BY <1>1, <1>2, <1>3, <1>4, <1>5, <1>6 DEF Next

\* In every state the row, the copies and the drafts are engagements, a message has
\* the body of its kind, a save carries all fields, and the counters stay in bounds.
THEOREM TypeCorrect == Spec => []TypeOK
<1>1. Sound => TypeOK
  BY DEF Sound
<1>2. QED
  BY <1>1, SoundInit, SoundStep, PTL DEF Spec

-----------------------------------------------------------------------------
(* While no copy in use is behind the row.                                   *)

InTouch ==
    /\ row = latest
    /\ row.slots = Nothing => row.notes = Blank /\ row.zoom = Nothing /\ row.page = Nothing
    /\ Alone
    /\ \A q \in net : Sent(q)
    /\ \A t \in Tabs : Fresh(t)

LEMMA SteadyMeans == /\ Steady <=> (~behind => InTouch)
                     /\ Steady' <=> (~behind' => InTouch')
BY DEF Steady, InTouch

\* The tabs that are closed hide nothing.
LEMMA ClosedFresh ==
    ASSUME TabsFit, NEW t \in Tabs, At(t, "closed")
    PROVE  Fresh(t)
<1>1. tab[t].at = "closed" /\ tab[t].draft = Nothing
  BY DEF TabsFit, Fitting, At
<1>2. QED
  BY <1>1 DEF Fresh, Ready, At

\* If one page at most is open, it is enough to look at that one.
LEMMA InTouchNext ==
    ASSUME TabsFit', NEW t \in Tabs, \A u \in Tabs \ {t} : tab'[u].at = "closed",
           row' = latest',
           row'.slots = Nothing => row'.notes = Blank /\ row'.zoom = Nothing /\ row'.page = Nothing,
           \A q, r \in net' : q = r,
           \A q \in net' : Sent(q)',
           Fresh(t)'
    PROVE  InTouch'
<1>1. Alone'
  BY DEF Alone, At
<1>2. ASSUME NEW u \in Tabs PROVE Fresh(u)'
  <2>1. CASE u = t
    BY <2>1
  <2>2. CASE u # t
    <3>1. tab'[u].at = "closed" /\ tab'[u].draft = Nothing
      BY <2>2 DEF TabsFit, Fitting
    <3>2. QED
      BY <3>1 DEF Fresh, Ready, At
  <2>3. QED
    BY <2>1, <2>2
<1>3. QED
  BY <1>1, <1>2 DEF InTouch

\* If one page is open, the others are closed, and what is under way is for it.
LEMMA OpenPage ==
    ASSUME Sound, InTouch, NEW t \in Tabs, ~At(t, "closed")
    PROVE  /\ \A u \in Tabs \ {t} : tab[u].at = "closed"
           /\ \A q \in net : /\ q.tab = t /\ Sent(q) /\ Fits(q) /\ Awaited(q)
                             /\ q.gone => /\ q.kind = "persist" /\ Ready(t, "notes")
                                          /\ tab[t].odd
           /\ Fresh(t) /\ Fitting(tab[t])
<1>1. TabsFit /\ MailFits
  BY SoundParts
<1>2. \A u \in Tabs \ {t} : tab[u].at = "closed"
  BY DEF InTouch, Alone, At
<1>3. ASSUME NEW q \in net
      PROVE  /\ q.tab = t /\ Sent(q) /\ Fits(q) /\ Awaited(q)
             /\ q.gone => /\ q.kind = "persist" /\ Ready(t, "notes") /\ tab[t].odd
  <2>1. Sent(q) /\ Fits(q) /\ Awaited(q) /\ q.tab \in Tabs
        /\ q.kind \in Loads \cup Patches \cup Remote
    BY <1>1, MessageFields DEF InTouch, MailFits
  <2>2. ~At(q.tab, "closed")
    <3>1. CASE q.gone
      BY <2>1, <3>1 DEF Sent, Ready, At
    <3>2. CASE ~q.gone /\ q.kind \in Loads
      BY <2>1, <3>2 DEF Sent
    <3>3. CASE ~q.gone /\ q.kind \notin Loads
      BY <2>1, <3>3, Kinds DEF Awaited, Ready, At
    <3>4. QED
      BY <3>1, <3>2, <3>3
  <2>3. q.tab = t
    BY <1>2, <2>1, <2>2 DEF At
  <2>4. QED
    BY <2>1, <2>3 DEF Sent, At
<1>4. QED
  BY <1>1, <1>2, <1>3 DEF InTouch, TabsFit

\* What is under way for an editor is a save of its notes.
LEMMA EditorMail ==
    ASSUME Sound, InTouch, NEW t \in Tabs, Ready(t, "notes"), NEW q \in net
    PROVE  q.kind = "persist"
<1>1. q.tab = t /\ Sent(q) /\ Fits(q) /\ Awaited(q) /\ (q.gone => q.kind = "persist")
  BY OpenPage DEF Ready, At
<1>2. q.kind \in Loads \cup Patches \cup Remote
  BY <1>1, MessageFields
<1>3. q.kind \notin Loads
  BY <1>1, Kinds DEF Sent, Ready, At
<1>4. QED
  BY <1>1, <1>2, <1>3, Kinds DEF Awaited, Ready, At

\* Going to a page while nothing is under way.
LEMMA GoTouch ==
    ASSUME Sound, Sound', InTouch, NEW t \in Tabs, NEW page \in Pages, Go(t, page), ~behind'
    PROVE  InTouch'
<1> DEFINE rest == Left(t) \cup Flush(t)
<1>1. TabsFit /\ MailFits /\ TabsFit'
  BY SoundParts, SoundNext
<1>2. rest = {} /\ ~Others(t) /\ net' = Loading(t, page, rest) /\ UNCHANGED <<row, latest>>
  BY DEF Go, Notice
<1>3. /\ (\A u \in Tabs \ {t} : tab'[u] = tab[u] /\ tab[u].at = "closed")
      /\ tab'[t].at = page /\ tab'[t].copy = Nothing /\ tab'[t].draft = Nothing
      /\ tab'[t].pending = Nothing /\ tab'[t].status = "idle" /\ ~tab'[t].odd
  BY <1>1, <1>2, Goes DEF Others
<1>4. \A q, r \in net' : q = r
  BY <1>2 DEF Loading
<1>5. ASSUME NEW q \in net' PROVE Sent(q)'
  <2>1. /\ q.tab = t /\ q.kind = Address(page) /\ q.at = "sent" /\ ~q.gone
    BY <1>2, <1>3, <1>5, LoadingFits
  <2>2. page # "closed"
    BY DEF Pages
  <2>3. QED
    BY <1>3, <2>1, <2>2, Kinds DEF Sent, At, Address
<1>6. Fresh(t)'
  BY <1>3 DEF Fresh, Ready, At
<1>7. QED
  BY <1>1, <1>2, <1>3, <1>4, <1>5, <1>6, InTouchNext DEF InTouch

\* What an editor sends says of the other fields what the row says.
LEMMA NoteSent ==
    ASSUME Sound, InTouch, NEW t \in Tabs, Ready(t, "notes"), NEW x \in Texts
    PROVE  LET p == Noted(t, x)  copy == tab[t].copy IN
           /\ \A f \in Fields \ NoteFields(t) : p[f] = row[f]
           /\ p.zoom = row.zoom /\ p.slots # Nothing
           /\ copy.slots = Nothing => p.slots = Unplanned
           /\ \/ NoteFields(t) = {"notes"}
              \/ NoteFields(t) = {"notes", "slots"} /\ copy.slots = Nothing
<1>1. tab[t].copy \in Row /\ row \in Row
  BY SoundParts, TabFields DEF TabsFit, Fitting, Ready, RestFits
<1>2. Fresh(t)
  BY OpenPage DEF Ready, At
<1>3. /\ tab[t].copy.zoom = row.zoom /\ tab[t].copy.page = row.page
      /\ tab[t].copy.slots # Nothing => row.slots = tab[t].copy.slots
  BY <1>2 DEF Fresh, Ready
<1>4. Unplanned # Nothing
  BY EngagementAssumption
<1>5. /\ Noted(t, x) \in Row /\ Noted(t, x).notes = x
      /\ Noted(t, x).slots = IF tab[t].copy.slots = Nothing THEN Unplanned
                             ELSE tab[t].copy.slots
      /\ Noted(t, x).zoom = tab[t].copy.zoom /\ Noted(t, x).page = tab[t].copy.page
      /\ NoteFields(t) = IF tab[t].copy.slots = Nothing THEN {"notes", "slots"} ELSE {"notes"}
  BY <1>1, NotedFits
<1>6. \A f \in Fields \ NoteFields(t) : Noted(t, x)[f] = row[f]
  BY <1>3, <1>5 DEF Fields
<1>7. QED
  BY <1>3, <1>4, <1>5, <1>6

\* All that is asked of a message for which nobody waits, when all tabs are closed.
LEMMA NobodyWaits ==
    ASSUME NEW q, q.gone, q.kind \notin Loads, q.at # "served", q.kind \in Patches \cup Remote,
           tab'[q.tab].at = "closed", tab'[q.tab].draft = Nothing,
           \A u \in Tabs : tab'[u].at = "closed",
           q.kind \in Patches => /\ \A f \in Fields \ q.edits : q.body[f] = row[f]
                                 /\ q.body.zoom = row.zoom /\ q.body.slots # Nothing,
           q.kind = "zoom" => /\ "zoom" \in q.edits /\ row.zoom = Nothing
                              /\ q.at # "sent" => row.slots \in Slots,
           q.kind \in {"export", "unexport"} => "page" \in q.edits /\ row.slots # Nothing,
           UNCHANGED row
    PROVE  Sent(q)'
BY Kinds DEF Sent, At

LEMMA CloseTouch ==
    ASSUME Sound, Sound', InTouch, NEW t \in Tabs, CloseTab(t), ~behind'
    PROVE  InTouch'
<1>1. TabsFit /\ MailFits /\ TabsFit'
  BY SoundParts, SoundNext
<1>2. /\ \A u \in Tabs \ {t} : tab[u].at = "closed"
      /\ \A q \in net : q.tab = t /\ Sent(q) /\ Fits(q) /\ Awaited(q)
  BY OpenPage DEF CloseTab
<1>3. \A u \in Tabs : tab'[u].at = "closed" /\ tab'[u].draft = Nothing
  <2>1. tab' = [tab EXCEPT ![t] = Closed]
    BY CloseSound
  <2>2. Closed.at = "closed"
    BY DEF Closed
  <2>3. \A u \in Tabs : tab'[u].at = "closed"
    <3>1. tab'[t] = Closed /\ \A u \in Tabs \ {t} : tab'[u] = tab[u]
      BY <1>1, <2>1, OneTab
    <3>2. QED
      BY <1>2, <2>2, <3>1
  <2>4. QED
    BY <1>1, <2>3 DEF TabsFit, Fitting
<1>4. UNCHANGED <<row, latest>> /\ net' \subseteq Left(t) \cup Flush(t)
      /\ (\A q \in net' : q.kind \notin Loads \/ q.tab # t)
      /\ (Flush(t) = {} \/ net = {})
  BY DEF CloseTab
<1>5. \A q, r \in net' : q = r
  <2>1. \A q, r \in net : q = r
    BY DEF InTouch, Alone
  <2>2. \A q, r \in Left(t) : q = r
    BY <2>1 DEF Left
  <2>3. \A q, r \in Flush(t) : q = r
    BY DEF Flush
  <2>4. net = {} => Left(t) = {}
    BY DEF Left
  <2>5. QED
    BY <1>4, <2>2, <2>3, <2>4
<1>6. ASSUME NEW q \in net' PROVE Sent(q)'
  <2>1. CASE q \in Left(t)
    <3>1. PICK p \in net : /\ q.tab = p.tab /\ q.kind = p.kind /\ q.body = p.body
                           /\ q.edits = p.edits /\ q.at = p.at
                           /\ p.tab = t /\ p.kind \notin Loads => q.gone
                           /\ p.tab = t /\ p.at = "served" => p.kind \in Loads
      BY <1>1, <2>1, LeftFits
    <3>2. /\ p.tab = t /\ Sent(p) /\ q.kind \notin Loads /\ q.gone /\ q.at # "served"
          /\ q.kind \in Patches \cup Remote
      BY <1>2, <1>4, <1>6, <3>1, MessageFields
    <3>3. /\ q.kind \in Patches => /\ \A f \in Fields \ q.edits : q.body[f] = row[f]
                                   /\ q.body.zoom = row.zoom /\ q.body.slots # Nothing
          /\ q.kind = "zoom" => /\ "zoom" \in q.edits /\ row.zoom = Nothing
                                /\ q.at # "sent" => row.slots \in Slots
          /\ q.kind \in {"export", "unexport"} => "page" \in q.edits /\ row.slots # Nothing
      BY <3>1, <3>2 DEF Sent
    <3>4. QED
      BY <1>3, <1>4, <3>1, <3>2, <3>3, NobodyWaits
  <2>2. CASE q \in Flush(t)
    <3>1. /\ q.tab = t /\ q.kind = "persist" /\ q.at = "sent" /\ q.gone
          /\ q.body = Noted(t, tab[t].pending) /\ q.edits = NoteFields(t)
          /\ tab[t].at = "notes" /\ tab[t].copy # Nothing /\ tab[t].pending \in Texts
      BY <1>1, <2>2, FlushFits, NothingIsNoRow
    <3>2. /\ \A f \in Fields \ q.edits : q.body[f] = row[f]
          /\ q.body.zoom = row.zoom /\ q.body.slots # Nothing
      BY <3>1, NoteSent DEF Ready, At
    <3>3. q.kind \in Patches \cup Remote /\ q.kind \notin Loads
      BY <3>1, Kinds
    <3>4. QED
      BY <1>3, <1>4, <3>1, <3>2, <3>3, NobodyWaits
  <2>3. QED
    BY <1>4, <2>1, <2>2
<1>7. Fresh(t)'
  BY <1>3 DEF Fresh, Ready, At
<1>8. QED
  BY <1>1, <1>3, <1>4, <1>5, <1>6, <1>7, InTouchNext DEF InTouch

LEMMA TypeTouch ==
    ASSUME Sound, Sound', InTouch, NEW t \in Tabs, NEW x \in Texts, Type(t, x), ~behind'
    PROVE  InTouch'
<1> DEFINE c == tab[t]
           d == tab'[t]
           same == x = tab[t].saved
           saving == \E q \in net : q.tab = t /\ q.kind = "persist"
<1>1. TabsFit /\ TabsFit' /\ Ready(t, "notes") /\ UNCHANGED <<row, latest, net>>
  BY SoundParts, SoundNext DEF Type
<1>2. /\ (\A u \in Tabs \ {t} : tab'[u] = tab[u])
      /\ c.at = "notes" /\ c.copy # Nothing /\ d.blocks = x
      /\ d.pending = IF same THEN Nothing ELSE x
      /\ (d.odd <=> c.odd \/ (same /\ saving))
      /\ d.at = c.at /\ d.copy = c.copy /\ d.saved = c.saved /\ d.draft = c.draft
  BY <1>1, Types DEF Same
<1>3. /\ \A u \in Tabs \ {t} : tab[u].at = "closed"
      /\ \A q \in net : /\ q.tab = t /\ Sent(q) /\ q.kind = "persist"
                        /\ q.gone => tab[t].odd
      /\ Fresh(t) /\ Fitting(c) /\ x # Nothing
  BY <1>1, OpenPage, EditorMail, EngagementAssumption DEF Ready, At
<1>4. ASSUME NEW q \in net' PROVE Sent(q)'
  <2>1. q \in net /\ q.tab = t /\ Sent(q) /\ q.kind = "persist" /\ saving /\ (q.gone => c.odd)
    BY <1>1, <1>3, <1>4
  <2>2. q.kind \in Patches /\ q.kind \notin Loads /\ q.kind \notin {"drag", "zoom", "export", "unexport"}
    BY <2>1, Kinds
  <2>3. /\ \A f \in Fields \ q.edits : q.body[f] = row[f]
        /\ q.body.zoom = row.zoom /\ q.body.slots # Nothing
        /\ q.at = "served" => q.body = row
        /\ c.copy.slots = Nothing => q.body.slots = Unplanned
        /\ q.edits = {"notes"} \/ (q.edits = {"notes", "slots"} /\ c.copy.slots = Nothing)
        /\ ~c.odd => /\ q.at = "sent" => c.saved = row.notes
                     /\ c.pending # c.saved
    BY <1>2, <2>1, <2>2 DEF Sent, At
  <2>4. ~d.odd => ~c.odd /\ d.pending = x /\ x # c.saved
    BY <1>2, <2>1
  <2>5. QED
    BY <1>1, <1>2, <1>3, <2>1, <2>2, <2>3, <2>4 DEF Sent, Ready, At
<1>5. Fresh(t)'
  <2>1. /\ c.copy.zoom = row.zoom /\ c.copy.page = row.page
        /\ IF c.copy.slots = Nothing THEN row.slots \in {Nothing, Unplanned}
           ELSE row.slots = c.copy.slots
        /\ ~c.odd /\ ~saving => c.saved = row.notes
        /\ c.draft = Nothing
    BY <1>1, <1>2, <1>3 DEF Fresh, Ready, Fitting
  <2>2. ~d.odd => ~c.odd
    BY <1>2
  <2>3. d.pending = Nothing => d.blocks = d.saved
    BY <1>2, <1>3
  <2>4. QED
    BY <1>1, <1>2, <2>1, <2>2, <2>3 DEF Fresh, Ready, At
<1>6. \A q, r \in net' : q = r
  BY <1>1 DEF InTouch, Alone
<1>7. QED
  BY <1>1, <1>2, <1>3, <1>4, <1>5, <1>6, InTouchNext DEF InTouch

LEMMA TimerTouch ==
    ASSUME Sound, Sound', InTouch, NEW t \in Tabs, TimerFires(t), ~behind'
    PROVE  InTouch'
<1> DEFINE c == tab[t]
           d == tab'[t]
           x == tab[t].pending
<1>1. TabsFit /\ TabsFit' /\ RestFits /\ Ready(t, "notes") /\ UNCHANGED <<row, latest>>
  BY SoundParts, SoundNext DEF TimerFires
<1>2. /\ (\A u \in Tabs \ {t} : tab'[u] = tab[u])
      /\ d.pending = Nothing /\ d.at = c.at /\ d.copy = c.copy /\ d.saved = c.saved
      /\ d.blocks = c.blocks /\ d.odd = c.odd /\ d.draft = c.draft
      /\ c.at = "notes" /\ c.copy # Nothing /\ x \in Texts /\ x = c.blocks /\ x # Nothing
      /\ Noted(t, x) \in Row /\ NoteFields(t) \in FieldSets
  BY <1>1, Fires, NothingIsNoRow, EngagementAssumption DEF Same
<1>3. /\ \A u \in Tabs \ {t} : tab[u].at = "closed"
      /\ \A q \in net : /\ q.tab = t /\ Sent(q) /\ q.kind = "persist"
                        /\ q.gone => tab[t].odd
      /\ Fresh(t) /\ Fitting(c)
  BY <1>1, OpenPage, EditorMail DEF Ready, At
<1>4. /\ c.copy.zoom = row.zoom /\ c.copy.page = row.page
      /\ IF c.copy.slots = Nothing THEN row.slots \in {Nothing, Unplanned}
         ELSE row.slots = c.copy.slots
      /\ ~c.odd /\ ~(\E q \in net : q.tab = t /\ q.kind = "persist") => c.saved = row.notes
      /\ c.draft = Nothing
  BY <1>1, <1>2, <1>3 DEF Fresh, Ready, Fitting
<1>5. CASE x = c.saved
  <2>1. UNCHANGED net
    BY <1>5 DEF TimerFires
  <2>2. ASSUME NEW q \in net' PROVE Sent(q)'
    <3>1. q \in net /\ q.tab = t /\ Sent(q) /\ q.kind = "persist" /\ (q.gone => c.odd)
      BY <1>3, <2>1, <2>2
    <3>2. /\ q.kind \in Patches /\ q.kind \notin Loads
          /\ q.kind \notin {"drag", "zoom", "export", "unexport"}
      BY <3>1, Kinds
    <3>3. /\ \A f \in Fields \ q.edits : q.body[f] = row[f]
          /\ q.body.zoom = row.zoom /\ q.body.slots # Nothing
          /\ q.at = "served" => q.body = row
          /\ c.copy.slots = Nothing => q.body.slots = Unplanned
          /\ q.edits = {"notes"} \/ (q.edits = {"notes", "slots"} /\ c.copy.slots = Nothing)
          /\ c.odd
      BY <1>2, <1>5, <3>1, <3>2 DEF Sent, At
    <3>4. QED
      BY <1>1, <1>2, <3>1, <3>2, <3>3 DEF Sent, Ready, At
  <2>3. Fresh(t)'
    BY <1>1, <1>2, <1>4, <1>5, <2>1 DEF Fresh, Ready, At
  <2>4. \A q, r \in net' : q = r
    BY <2>1 DEF InTouch, Alone
  <2>5. QED
    BY <1>1, <1>2, <1>3, <2>2, <2>3, <2>4, InTouchNext DEF InTouch
<1>6. CASE x # c.saved
  <2> DEFINE body == Noted(t, x)
             edits == NoteFields(t)
  <2>1. Send(t, "persist", body, edits) /\ "persist" \in Patches /\ body \in Row
        /\ edits \in FieldSets
    BY <1>2, <1>6, Kinds DEF TimerFires
  <2> HIDE DEF body, edits
  <2>2. PICK r : Asks(r, t, "persist", body, edits) /\ net' = net \cup {r}
    BY <2>1, SendPatch
  <2>3. net = {} /\ net' = {r}
    BY <2>1, <2>2, SendPatch
  <2>4. (c.saved = row.notes /\ row.notes # Nothing) \/ c.odd
    BY <1>1, <1>4, <2>3, RowFields, EngagementAssumption DEF RestFits
  <2>5. /\ \A f \in Fields \ edits : body[f] = row[f]
        /\ body.zoom = row.zoom /\ body.slots # Nothing
        /\ c.copy.slots = Nothing => body.slots = Unplanned
        /\ edits = {"notes"} \/ (edits = {"notes", "slots"} /\ c.copy.slots = Nothing)
        /\ body.notes = x
    <3>1. c.copy \in Row
      BY <1>2, <1>3, TabFields DEF Fitting
    <3>2. QED
      BY <1>1, <1>2, <3>1, NoteSent, NotedFits DEF body, edits
  <2>6. ASSUME NEW q \in net' PROVE Sent(q)'
    <3>1. /\ q.tab = t /\ q.kind = "persist" /\ q.body = body /\ q.edits = edits
          /\ q.at = "sent" /\ ~q.gone
      BY <2>2, <2>3, <2>6 DEF Asks
    <3>2. /\ q.kind \in Patches /\ q.kind \notin Loads
          /\ q.kind \notin {"drag", "zoom", "export", "unexport"}
      BY <3>1, Kinds
    <3>3. QED
      BY <1>1, <1>2, <2>4, <2>5, <3>1, <3>2 DEF Sent, At
  <2>7. Fresh(t)'
    <3>1. \E q \in net' : q.tab = t /\ q.kind = "persist"
      BY <2>2, <2>3 DEF Asks
    <3>2. QED
      BY <1>1, <1>2, <1>4, <3>1 DEF Fresh, Ready, At
  <2>8. \A q, p \in net' : q = p
    BY <2>3
  <2>9. QED
    BY <1>1, <1>2, <1>3, <2>6, <2>7, <2>8, InTouchNext DEF InTouch
<1>7. QED
  BY <1>5, <1>6

LEMMA HideTouch ==
    ASSUME Sound, Sound', InTouch, NEW t \in Tabs, Hide(t), ~behind'
    PROVE  InTouch'
<1> DEFINE c == tab[t]
           d == tab'[t]
<1>1. TabsFit /\ TabsFit' /\ UNCHANGED <<row, latest>> /\ net = {} /\ net' = Flush(t)
      /\ Flush(t) # {}
  BY SoundParts, SoundNext DEF Hide, Notice
<1>2. PICK r : r \in Flush(t)
  BY <1>1
<1>3. c.at = "notes" /\ c.copy \in Row /\ c.copy # Nothing /\ Ready(t, "notes")
      /\ c.pending \in Texts
  BY <1>1, <1>2, FlushFits, NothingIsNoRow DEF Ready, At
<1>4. /\ (\A u \in Tabs \ {t} : tab'[u] = tab[u])
      /\ d.pending = c.pending /\ d.at = c.at /\ d.copy = c.copy /\ d.odd /\ d.draft = c.draft
  BY <1>1, Hides DEF Same
<1>5. (\A u \in Tabs \ {t} : tab[u].at = "closed") /\ Fresh(t) /\ Fitting(c)
  BY <1>3, OpenPage DEF Ready, At
<1>6. ASSUME NEW q \in net' PROVE Sent(q)'
  <2>1. /\ q.tab = t /\ q.kind = "persist" /\ q.at = "sent" /\ q.gone
        /\ q.body = Noted(t, c.pending) /\ q.edits = NoteFields(t)
    BY <1>1, <1>6, FlushFits
  <2>2. /\ \A f \in Fields \ q.edits : q.body[f] = row[f]
        /\ q.body.zoom = row.zoom /\ q.body.slots # Nothing
        /\ c.copy.slots = Nothing => q.body.slots = Unplanned
        /\ q.edits = {"notes"} \/ (q.edits = {"notes", "slots"} /\ c.copy.slots = Nothing)
    BY <1>3, <2>1, NoteSent
  <2>3. /\ q.kind \in Patches /\ q.kind \notin Loads
        /\ q.kind \notin {"drag", "zoom", "export", "unexport"}
    BY <2>1, Kinds
  <2>4. QED
    BY <1>1, <1>3, <1>4, <2>1, <2>2, <2>3 DEF Sent, Ready, At
<1>7. Fresh(t)'
  <2>1. /\ c.copy.zoom = row.zoom /\ c.copy.page = row.page
        /\ IF c.copy.slots = Nothing THEN row.slots \in {Nothing, Unplanned}
           ELSE row.slots = c.copy.slots
        /\ c.draft = Nothing
    BY <1>3, <1>5 DEF Fresh, Ready, Fitting
  <2>2. QED
    BY <1>1, <1>3, <1>4, <2>1 DEF Fresh, Ready, At
<1>8. \A q, p \in net' : q = p
  BY <1>1 DEF Flush
<1>9. QED
  BY <1>1, <1>4, <1>5, <1>6, <1>7, <1>8, InTouchNext DEF InTouch

\* The drawer opens while nothing is under way.
LEMMA DrawerTouch ==
    ASSUME Sound, Sound', InTouch, NEW t \in Tabs, NEW s \in Slots,
           OpenDrawer(t) \/ Create(t, s), ~behind'
    PROVE  InTouch'
<1> DEFINE c == tab[t]
           d == tab'[t]
<1>1. TabsFit /\ TabsFit' /\ Ready(t, "calendar") /\ c.draft = Nothing
      /\ UNCHANGED <<row, latest>> /\ net = {} /\ net' = {}
  BY SoundParts, SoundNext DEF OpenDrawer, Create, Drawn, Notice
<1>2. (\A u \in Tabs \ {t} : tab[u].at = "closed") /\ Fresh(t) /\ c.at = "calendar"
  BY <1>1, OpenPage DEF Ready, At
<1>3. c.copy = row /\ c.copy # Nothing
  BY <1>1, <1>2 DEF Fresh, Unheard, Ready
<1>4. /\ \A u \in Tabs \ {t} : tab'[u] = tab[u]
      /\ d.at = c.at /\ d.copy = c.copy
      /\ d.draft # Nothing => d.draft.slots # Nothing
      /\ \A f \in Fields \ d.edits : d.draft[f] = row[f]
      /\ d.draft.zoom = row.zoom /\ "zoom" \notin d.edits
  <2>1. CASE OpenDrawer(t)
    <3>1. c.copy.slots # Nothing
      BY <2>1 DEF OpenDrawer
    <3>2. QED
      BY <1>1, <1>3, <2>1, <3>1, OpenEffect DEF Same
  <2>2. CASE Create(t, s)
    <3>1. c.copy.slots = Nothing
      BY <2>2 DEF Create
    <3>2. row.notes = Blank /\ row.zoom = Nothing /\ row.page = Nothing
      BY <1>3, <3>1 DEF InTouch
    <3>3. /\ \A u \in Tabs \ {t} : tab'[u] = tab[u]
          /\ d.at = c.at /\ d.copy = c.copy /\ d.draft = NewRow(s) /\ d.edits = {"slots"}
      BY <1>1, <2>2, CreateEffect DEF Same
    <3>4. \A f \in Fields \ {"slots"} : NewRow(s)[f] = row[f]
      BY <3>2 DEF NewRow, Fields
    <3>5. NewRow(s).slots # Nothing /\ NewRow(s).zoom = Nothing
      BY EngagementAssumption DEF NewRow
    <3>6. QED
      BY <3>2, <3>3, <3>4, <3>5
  <2>3. QED
    BY <2>1, <2>2
<1>5. Fresh(t)'
  BY <1>1, <1>2, <1>3, <1>4 DEF Fresh, Ready, At
<1>6. QED
  BY <1>1, <1>2, <1>4, <1>5, InTouchNext DEF InTouch

\* What is under way for a calendar whose drawer is open.
LEMMA DrawerMail ==
    ASSUME Sound, InTouch, NEW t \in Tabs, Drawn(t), NEW q \in net
    PROVE  /\ q.kind \in {"save", "zoom"} /\ q.tab = t /\ Sent(q) /\ ~q.gone
           /\ q.kind = "save" => q.kind \in Patches
<1>1. /\ q.tab = t /\ Sent(q) /\ Fits(q) /\ Awaited(q)
      /\ q.gone => Ready(t, "notes")
  BY OpenPage DEF Drawn, Ready, At
<1>2. /\ ~q.gone /\ q.kind # "drag" /\ q.kind \notin Loads
  BY <1>1, Kinds DEF Sent, Drawn, Ready, At
<1>3. q.kind \in Loads \cup Patches \cup Remote
  BY <1>1, MessageFields
<1>4. q.kind \notin {"persist", "export", "unexport"}
  BY <1>1, <1>2 DEF Awaited, Drawn, Ready, At
<1>5. QED
  BY <1>1, <1>2, <1>3, <1>4, Kinds

LEMMA EditTouch ==
    ASSUME Sound, Sound', InTouch, NEW t \in Tabs, NEW s \in Slots,
           EditDrawer(t, s) \/ CancelDrawer(t), ~behind'
    PROVE  InTouch'
<1> DEFINE c == tab[t]
           d == tab'[t]
<1>1. TabsFit /\ TabsFit' /\ Drawn(t) /\ UNCHANGED <<row, latest, net>>
  BY SoundParts, SoundNext DEF EditDrawer, CancelDrawer
<1>2. (\A u \in Tabs \ {t} : tab[u].at = "closed") /\ Fresh(t) /\ c.at = "calendar"
      /\ c.copy # Nothing /\ c.draft # Nothing
  BY <1>1, OpenPage DEF Drawn, Ready, At
<1>3. /\ \A u \in Tabs \ {t} : tab'[u] = tab[u]
      /\ d.at = c.at /\ d.copy = c.copy
      /\ \/ d.draft = Nothing /\ "zoom" \notin c.edits
         \/ /\ d.draft # Nothing /\ d.draft.slots # Nothing /\ d.draft.zoom = c.draft.zoom
            /\ d.edits = c.edits \cup {"slots"}
            /\ \A f \in Fields \ {"slots"} : d.draft[f] = c.draft[f]
  <2>1. CASE EditDrawer(t, s)
    <3>1. /\ \A u \in Tabs \ {t} : tab'[u] = tab[u]
          /\ d.at = c.at /\ d.copy = c.copy
          /\ c.draft \in Row /\ d.draft = [c.draft EXCEPT !.slots = s]
          /\ d.edits = c.edits \cup {"slots"}
      BY <1>1, <2>1, EditEffect DEF Same
    <3>2. /\ d.draft \in Row /\ d.draft.slots = s
          /\ \A f \in Fields \ {"slots"} : d.draft[f] = c.draft[f]
      BY <3>1, RowFields
    <3>3. d.draft.zoom = c.draft.zoom
      BY <3>2 DEF Fields
    <3>4. s # Nothing /\ d.draft # Nothing
      BY <3>2, EngagementAssumption, NothingIsNoRow
    <3>5. QED
      BY <3>1, <3>2, <3>3, <3>4
  <2>2. CASE CancelDrawer(t)
    <3>1. "zoom" \notin c.edits
      BY <2>2 DEF CancelDrawer
    <3>2. QED
      BY <1>1, <2>2, <3>1, CancelEffect DEF Same
  <2>3. QED
    BY <2>1, <2>2
<1>4. ASSUME NEW q \in net' PROVE Sent(q)'
  <2>1. /\ q.kind \in {"save", "zoom"} /\ q.tab = t /\ Sent(q) /\ ~q.gone
        /\ q.kind \notin Loads /\ q.kind # "drag" /\ q.kind # "persist"
    BY <1>1, <1>4, DrawerMail, Kinds
  <2>2. CASE q.kind = "save"
    BY <1>1, <2>1, <2>2, Kinds DEF Sent, At
  <2>3. CASE q.kind = "zoom"
    <3>1. /\ "zoom" \in q.edits
          /\ row.zoom = IF q.at = "served" THEN q.body ELSE Nothing
          /\ q.at # "sent" => row.slots \in Slots
          /\ q.at = "served" => \A f \in Fields \ (c.edits \cup {"zoom"}) : c.draft[f] = row[f]
      BY <1>2, <2>1, <2>3 DEF Sent
    <3>2. q.at = "served" /\ d.draft # Nothing =>
              \A f \in Fields \ (d.edits \cup {"zoom"}) : d.draft[f] = row[f]
      BY <1>3, <3>1
    <3>3. q.kind \notin Patches
      BY <2>3, Kinds
    <3>4. QED
      BY <1>1, <2>1, <2>3, <3>1, <3>2, <3>3 DEF Sent, At
  <2>4. QED
    BY <2>1, <2>2, <2>3
<1>5. Fresh(t)'
  <2>1. /\ ~Unheard => /\ "zoom" \notin c.edits => c.copy = row
                       /\ \A f \in Fields \ c.edits : c.draft[f] = row[f]
                       /\ c.draft.zoom = row.zoom
    BY <1>2 DEF Fresh, Ready, At
  <2>2. Unheard' <=> Unheard
    BY <1>1 DEF Unheard
  <2>3. ~Unheard' => /\ d.draft = Nothing \/ "zoom" \notin d.edits => d.copy = row
                     /\ d.draft # Nothing => /\ \A f \in Fields \ d.edits : d.draft[f] = row[f]
                                             /\ d.draft.zoom = row.zoom
    BY <1>3, <2>1, <2>2
  <2>4. d.draft # Nothing => d.copy # Nothing /\ d.draft.slots # Nothing
    BY <1>2, <1>3
  <2>5. QED
    BY <1>1, <1>2, <1>3, <2>3, <2>4 DEF Fresh, Ready, At
<1>6. \A q, r \in net' : q = r
  BY <1>1 DEF InTouch, Alone
<1>7. QED
  BY <1>1, <1>2, <1>3, <1>4, <1>5, <1>6, InTouchNext DEF InTouch

\* A page that sends what it has, while nothing else is under way.
LEMMA SendTouch ==
    ASSUME Sound, Sound', InTouch, NEW t \in Tabs, ~At(t, "closed"), NEW r,
           r.at = "sent", r.kind \notin Loads, r.kind # "persist",
           net = {}, net' = {r}, UNCHANGED <<row, latest, tab>>, Sent(r)
    PROVE  InTouch'
<1>1. TabsFit' /\ (\A u \in Tabs \ {t} : tab[u].at = "closed") /\ Fresh(t)
  BY OpenPage, SoundNext
<1>2. ~Unheard /\ ~Unheard'
  BY DEF Unheard
<1>3. ASSUME NEW q \in net' PROVE q.kind # "persist" /\ Sent(q)'
  BY <1>3 DEF Sent, Ready, At
<1>4. Fresh(t)'
  BY <1>1, <1>2, <1>3 DEF Fresh, Ready, At
<1>5. \A q, p \in net' : q = p
  OBVIOUS
<1>6. QED
  BY <1>1, <1>3, <1>4, <1>5, InTouchNext DEF InTouch

LEMMA SaveTouch ==
    ASSUME Sound, Sound', InTouch, NEW t \in Tabs, NEW s \in Slots,
           SaveDrawer(t) \/ Drag(t, s), ~behind'
    PROVE  InTouch'
<1> DEFINE c == tab[t]
<1>1. TabsFit /\ RestFits /\ UNCHANGED <<row, latest, tab>> /\ Ready(t, "calendar")
  BY SoundParts DEF SaveDrawer, Drag, Drawn
<1>2. Fresh(t) /\ c.at = "calendar" /\ ~At(t, "closed")
  BY <1>1, OpenPage DEF Ready, At
<1>3. CASE SaveDrawer(t)
  <2>1. PICK r : Asks(r, t, "save", c.draft, c.edits) /\ net' = net \cup {r}
    BY <1>1, <1>3, SaveEffect
  <2>2. net = {} /\ net' = {r} /\ c.draft # Nothing
    BY <1>1, <1>3, <2>1, SaveEffect, NothingIsNoRow
  <2>3. /\ \A f \in Fields \ c.edits : c.draft[f] = row[f]
        /\ c.draft.zoom = row.zoom /\ c.draft.slots # Nothing
    BY <1>1, <1>2, <2>2 DEF Fresh, Unheard
  <2>4. /\ r.tab = t /\ r.kind = "save" /\ r.body = c.draft /\ r.edits = c.edits
        /\ r.at = "sent" /\ ~r.gone
    BY <2>1 DEF Asks
  <2>5. r.kind \notin Loads
    BY <2>4, Kinds
  <2>6. Sent(r)
    BY <2>3, <2>4, <2>5 DEF Sent
  <2>7. QED
    BY <1>1, <1>2, <2>2, <2>4, <2>5, <2>6, SendTouch
<1>4. CASE Drag(t, s)
  <2> DEFINE body == [c.copy EXCEPT !.slots = s]
  <2>1. PICK r : Asks(r, t, "drag", body, {"slots"}) /\ net' = net \cup {r}
    BY <1>1, <1>4, DragEffect
  <2>2. net = {} /\ net' = {r} /\ c.draft = Nothing /\ c.copy \in Row
    BY <1>1, <1>4, <2>1, DragEffect
  <2>3. c.copy = row
    BY <1>1, <1>2, <2>2 DEF Fresh, Unheard
  <2>4. body \in Row /\ body.slots = s /\ \A f \in Fields \ {"slots"} : body[f] = row[f]
    BY <2>2, <2>3, RowFields
  <2>5. body.zoom = row.zoom /\ s # Nothing
    BY <2>4, EngagementAssumption DEF Fields
  <2> HIDE DEF body
  <2>6. /\ r.tab = t /\ r.kind = "drag" /\ r.body = body /\ r.edits = {"slots"}
        /\ r.at = "sent" /\ ~r.gone
    BY <2>1 DEF Asks
  <2>7. r.kind \notin Loads
    BY <2>6, Kinds
  <2>8. Sent(r)
    BY <2>2, <2>4, <2>5, <2>6, <2>7 DEF Sent
  <2>9. QED
    BY <1>1, <1>2, <2>2, <2>6, <2>7, <2>8, SendTouch
<1>5. QED
  BY <1>3, <1>4

LEMMA CallTouch ==
    ASSUME Sound, Sound', InTouch, NEW t \in Tabs, Schedule(t) \/ Publish(t), ~behind'
    PROVE  InTouch'
<1> DEFINE c == tab[t]
<1>1. TabsFit /\ CountersFit /\ RestFits /\ UNCHANGED <<row, latest, tab>>
  BY SoundParts DEF Schedule, Publish, Export, Unexport
<1>2. CASE Schedule(t)
  <2>1. PICK r : Asks(r, t, "zoom", used'.calls, {"zoom"}) /\ net' = net \cup {r}
    BY <1>1, <1>2, ScheduleEffect
  <2>2. net = {} /\ net' = {r} /\ c.at = "calendar" /\ c.copy # Nothing /\ c.draft # Nothing
        /\ c.draft.zoom = Nothing
    BY <1>1, <1>2, <2>1, ScheduleEffect, NothingIsNoRow
  <2>3. Fresh(t) /\ ~At(t, "closed")
    BY <2>2, OpenPage DEF At
  <2>4. row.zoom = Nothing
    BY <2>2, <2>3 DEF Fresh, Unheard, Ready, At
  <2>5. /\ r.tab = t /\ r.kind = "zoom" /\ r.edits = {"zoom"} /\ r.at = "sent" /\ ~r.gone
    BY <2>1 DEF Asks
  <2>6. r.kind \notin Loads /\ r.kind \notin Patches
    BY <2>5, Kinds
  <2>7. Sent(r)
    BY <2>4, <2>5, <2>6 DEF Sent
  <2>8. QED
    BY <1>1, <2>2, <2>3, <2>5, <2>6, <2>7, SendTouch
<1>3. CASE Publish(t)
  <2>1. PICK r : /\ \/ Asks(r, t, "export", used'.calls, {"page"})
                    \/ Asks(r, t, "unexport", Nothing, {"page"})
                 /\ net' = net \cup {r}
    BY <1>1, <1>3, PublishEffect
  <2>2. net = {} /\ net' = {r} /\ c.at = "view" /\ c.copy # Nothing
        /\ (c.copy.notes # Blank \/ c.copy.page # Nothing)
    BY <1>1, <1>3, <2>1, PublishEffect, NothingIsNoRow
  <2>3. Fresh(t) /\ ~At(t, "closed")
    BY <2>2, OpenPage DEF At
  <2>4. c.copy = row
    BY <2>2, <2>3 DEF Fresh, Unheard, Ready, At
  <2>5. row.slots # Nothing
    BY <2>2, <2>4 DEF InTouch
  <2>6. /\ r.tab = t /\ r.kind \in {"export", "unexport"} /\ r.edits = {"page"}
        /\ r.at = "sent" /\ ~r.gone
    BY <2>1 DEF Asks
  <2>7. r.kind \notin Loads /\ r.kind \notin Patches
    BY <2>6, Kinds
  <2>8. Sent(r)
    BY <2>5, <2>6, <2>7 DEF Sent
  <2>9. QED
    BY <1>1, <2>2, <2>3, <2>6, <2>7, <2>8, SendTouch
<1>4. QED
  BY <1>2, <1>3

\* The one message that is under way, and the one page.
LEMMA OneMessage ==
    ASSUME Sound, InTouch, NEW q \in net
    PROVE  /\ q.tab \in Tabs /\ (\A u \in Tabs \ {q.tab} : tab[u].at = "closed")
           /\ net = {q} /\ Sent(q) /\ Fits(q) /\ Awaited(q) /\ Fresh(q.tab)
           /\ q.gone => \/ tab[q.tab].at = "closed"
                        \/ q.kind = "persist" /\ Ready(q.tab, "notes") /\ tab[q.tab].odd
           /\ ~q.gone => tab[q.tab].at # "closed"
<1>1. Sent(q) /\ Fits(q) /\ Awaited(q) /\ q.tab \in Tabs /\ Fresh(q.tab)
      /\ q.kind \in Loads \cup Patches \cup Remote
  BY SoundParts, MessageFields DEF InTouch, MailFits
<1>2. ASSUME NEW u \in Tabs, tab[u].at # "closed" PROVE u = q.tab
  BY <1>2, OpenPage DEF At
<1>3. net = {q}
  BY DEF InTouch, Alone
<1>4. q.gone => \/ tab[q.tab].at = "closed"
                \/ q.kind = "persist" /\ Ready(q.tab, "notes") /\ tab[q.tab].odd
  BY <1>1 DEF Sent, At
<1>5. ~q.gone => tab[q.tab].at # "closed"
  <2>1. CASE q.kind \in Loads
    BY <1>1, <2>1 DEF Sent, At
  <2>2. CASE q.kind \notin Loads
    BY <1>1, <2>2, Kinds DEF Awaited, Ready, At
  <2>3. QED
    BY <2>1, <2>2
<1>6. QED
  BY <1>1, <1>2, <1>3, <1>4, <1>5

\* The backend serves a GET.
LEMMA LoadServedTouch ==
    ASSUME Sound, Sound', InTouch, NEW q \in net, ServeLoad(q), ~behind'
    PROVE  InTouch'
<1> DEFINE t == q.tab
           c == tab[q.tab]
<1>1. TabsFit /\ TabsFit' /\ MailFits /\ RestFits /\ UNCHANGED <<row, latest, tab>>
  BY SoundParts, SoundNext DEF ServeLoad
<1>2. /\ t \in Tabs /\ (\A u \in Tabs \ {t} : tab[u].at = "closed")
      /\ net = {q} /\ Sent(q) /\ Awaited(q) /\ Fresh(t)
  BY OneMessage
<1>3. q.kind \in Loads /\ q.kind \notin {"zoom", "export"} /\ q.kind # "persist" /\ ~q.gone
  BY <1>2, Kinds DEF ServeLoad, Awaited
<1>4. PICK p : Moves(q, p, "served", row) /\ net' = (net \ {q}) \cup {p}
  BY <1>1, <1>3, LoadServed, ServedMoves
<1>5. net' = {p} /\ p.kind = q.kind /\ p.tab = t /\ p.at = "served" /\ p.body = row /\ ~p.gone
  BY <1>2, <1>3, <1>4 DEF Moves
<1>6. ASSUME NEW r \in net' PROVE Sent(r)'
  <2>1. r.kind = q.kind /\ r.tab = t /\ r.at = "served" /\ r.body = row /\ ~r.gone
    BY <1>5, <1>6
  <2>2. r.kind \in Loads /\ r.kind \notin Patches \cup Remote
    BY <1>3, <2>1, Kinds
  <2>3. /\ c.at # "closed"
        /\ q.kind = "list" => c.at = "calendar" /\ c.draft = Nothing
        /\ q.kind = "project" => c.at # "calendar" /\ c.copy = Nothing
    BY <1>2, <1>3 DEF Sent, At
  <2>4. QED
    BY <1>1, <2>1, <2>2, <2>3, Kinds DEF Sent, At
<1>7. Fresh(t)'
  <2>1. Unheard' /\ ~(\E r \in net' : r.kind = "persist") /\ ~(\E r \in net : r.kind = "persist")
    BY <1>2, <1>3, <1>5 DEF Unheard
  <2>2. QED
    BY <1>1, <1>2, <2>1 DEF Fresh, Ready, At
<1>8. \A r, s \in net' : r = s
  BY <1>5
<1>9. QED
  BY <1>1, <1>2, <1>6, <1>7, <1>8, InTouchNext DEF InTouch

\* The backend serves a save: the row is what the users gave.
LEMMA PatchServedTouch ==
    ASSUME Sound, Sound', InTouch, NEW q \in net, ServePatch(q), ~behind'
    PROVE  InTouch' /\ row'.zoom = row.zoom
<1> DEFINE t == q.tab
           c == tab[q.tab]
<1>1. TabsFit /\ TabsFit' /\ MailFits /\ RestFits /\ RestFits' /\ UNCHANGED tab
  BY SoundParts, SoundNext DEF ServePatch
<1>2. /\ t \in Tabs /\ (\A u \in Tabs \ {t} : tab[u].at = "closed")
      /\ net = {q} /\ Sent(q) /\ Awaited(q) /\ Fresh(t)
      /\ q.gone => \/ c.at = "closed"
                   \/ q.kind = "persist" /\ Ready(t, "notes") /\ c.odd
  BY OneMessage
<1>3. /\ q.kind \in Patches /\ q.body \in Row /\ row' = q.body
      /\ \A f \in Fields : latest'[f] = IF f \in q.edits THEN q.body[f] ELSE latest[f]
      /\ q.kind \notin {"zoom", "export"} /\ q.kind \notin Loads \cup Remote
      /\ Served(q, q.body) /\ q.at = "sent"
  BY <1>1, PatchServed, Kinds
<1>4. /\ \A f \in Fields \ q.edits : q.body[f] = row[f]
      /\ q.body.zoom = row.zoom /\ q.body.slots # Nothing
      /\ q.kind = "drag" => c.draft = Nothing
      /\ q.kind = "persist" /\ c.at # "closed" =>
            /\ c.copy.slots = Nothing => q.body.slots = Unplanned
            /\ q.edits = {"notes"} \/ (q.edits = {"notes", "slots"} /\ c.copy.slots = Nothing)
            /\ ~c.odd => /\ c.pending # c.saved
                         /\ c.pending = Nothing => c.blocks = q.body.notes
  BY <1>2, <1>3 DEF Sent, At
<1>5. row' = latest'
  <2>1. \A f \in Fields : latest'[f] = row'[f]
    BY <1>3, <1>4 DEF InTouch
  <2>2. row' \in Row /\ latest' \in Row
    BY <1>1 DEF RestFits
  <2>3. QED
    BY <2>1, <2>2, SameRow
<1>6. net' = {} \/ \E p : /\ net' = {p} /\ p.kind = q.kind /\ p.tab = t /\ p.at = "served"
                          /\ p.body = q.body /\ p.edits = q.edits /\ ~p.gone /\ ~q.gone
  BY <1>1, <1>2, <1>3, ServedMoves DEF Moves
<1>7. net' = {} => q.gone
  BY <1>2, <1>3 DEF Served, Becomes
<1>8. ASSUME NEW r \in net' PROVE Sent(r)'
  <2>1. /\ r.kind = q.kind /\ r.tab = t /\ r.at = "served" /\ r.body = q.body
        /\ r.edits = q.edits /\ ~r.gone
    BY <1>6, <1>8
  <2>2. r.kind \in Patches /\ r.kind \notin Loads \cup Remote
        /\ r.kind \notin {"zoom", "export", "unexport"}
    BY <1>3, <2>1, Kinds
  <2>3. QED
    BY <1>1, <1>3, <1>4, <2>1, <2>2 DEF Sent, At
<1>9. Fresh(t)'
  <2>1. CASE c.at = "closed"
    <3>1. c.draft = Nothing
      BY <1>1, <1>2, <2>1 DEF TabsFit, Fitting
    <3>2. QED
      BY <1>1, <2>1, <3>1 DEF Fresh, Ready, At
  <2>2. CASE Ready(t, "notes")
    <3>1. q.kind = "persist"
      BY <1>2, <2>2, EditorMail
    <3>2. /\ c.copy.zoom = row.zoom /\ c.copy.page = row.page
          /\ c.copy.slots # Nothing => row.slots = c.copy.slots
          /\ c.at = "notes" /\ c.copy # Nothing /\ c.draft = Nothing
      BY <1>1, <1>2, <2>2 DEF Fresh, Ready, At, TabsFit, Fitting
    <3>3. row'.zoom = row.zoom /\ row'.page = row.page
          /\ (c.copy.slots = Nothing => row'.slots = Unplanned)
          /\ (c.copy.slots # Nothing => row'.slots = row.slots)
      BY <1>3, <1>4, <3>1, <3>2 DEF Fields
    <3>4. c.odd \/ \E r \in net' : r.tab = t /\ r.kind = "persist"
      BY <1>2, <1>6, <1>7, <2>2, <3>1, <3>2
    <3>5. QED
      BY <1>1, <3>2, <3>3, <3>4 DEF Fresh, Ready, At
  <2>3. CASE c.at # "closed" /\ ~Ready(t, "notes")
    <3>1. Unheard'
      BY <1>2, <1>6, <1>7, <2>3 DEF Unheard
    <3>2. QED
      BY <1>1, <1>2, <2>3, <3>1 DEF Fresh, Ready, At
  <2>4. QED
    BY <2>1, <2>2, <2>3
<1>10. \A r, s \in net' : r = s
  BY <1>6
<1>11. QED
  BY <1>1, <1>2, <1>3, <1>4, <1>5, <1>8, <1>9, <1>10, InTouchNext

\* The backend stores the number of a meeting.
LEMMA ZoomServedTouch ==
    ASSUME Sound, Sound', InTouch, NEW q \in net, StoreZoom(q), ~behind'
    PROVE  InTouch' /\ row.zoom = Nothing
<1> DEFINE t == q.tab
           c == tab[q.tab]
<1>1. TabsFit /\ TabsFit' /\ MailFits /\ RestFits /\ UNCHANGED tab
  BY SoundParts, SoundNext DEF StoreZoom
<1>2. /\ t \in Tabs /\ (\A u \in Tabs \ {t} : tab[u].at = "closed")
      /\ net = {q} /\ Sent(q) /\ Awaited(q) /\ Fresh(t)
      /\ q.gone => \/ c.at = "closed"
                   \/ q.kind = "persist" /\ Ready(t, "notes") /\ c.odd
  BY OneMessage
<1>3. /\ Served(q, q.body) /\ q.kind = "zoom" /\ q.at = "called" /\ q.body \in Calls
      /\ q.kind \in Remote /\ q.kind \notin Loads \cup Patches
      /\ row' \in Row /\ row'.zoom = q.body /\ (\A f \in Fields \ {"zoom"} : row'[f] = row[f])
      /\ latest' \in Row
      /\ \A f \in Fields : latest'[f] = IF f \in q.edits THEN row'[f] ELSE latest[f]
  BY <1>1, ZoomServed, Kinds
<1>4. "zoom" \in q.edits /\ row.zoom = Nothing /\ row.slots \in Slots
  BY <1>2, <1>3 DEF Sent
<1>5. row' = latest'
  <2>1. \A f \in Fields : latest'[f] = row'[f]
    BY <1>3, <1>4 DEF InTouch
  <2>2. QED
    BY <1>3, <2>1, SameRow
<1>6. row'.slots = row.slots /\ row.slots # Nothing
  BY <1>3, <1>4, EngagementAssumption DEF Fields
<1>7. \/ q.gone /\ net' = {}
      \/ ~q.gone /\ \E p : /\ net' = {p} /\ p.kind = "zoom" /\ p.tab = t /\ p.at = "served"
                           /\ p.body = q.body /\ p.edits = q.edits /\ ~p.gone
  BY <1>1, <1>2, <1>3, ServedMoves DEF Moves
<1>8. CASE q.gone
  <2>1. c.at = "closed" /\ c.draft = Nothing
    BY <1>1, <1>2, <1>3, <1>8 DEF TabsFit, Fitting
  <2>2. Fresh(t)'
    BY <1>1, <2>1 DEF Fresh, Ready, At
  <2>3. QED
    BY <1>1, <1>2, <1>4, <1>5, <1>6, <1>7, <1>8, <2>2, InTouchNext
<1>9. CASE ~q.gone
  <2>1. PICK p : /\ net' = {p} /\ p.kind = "zoom" /\ p.tab = t /\ p.at = "served"
                 /\ p.body = q.body /\ p.edits = q.edits /\ ~p.gone
    BY <1>7, <1>9
  <2>2. c.at = "calendar" /\ Unheard' /\ ~Unheard
    BY <1>2, <1>3, <1>9, <2>1 DEF Awaited, At, Unheard
  <2>3. c.draft # Nothing => /\ c.copy # Nothing /\ c.draft.slots # Nothing
                             /\ \A f \in Fields \ c.edits : c.draft[f] = row[f]
    BY <1>2, <2>2 DEF Fresh, Ready, At
  <2>4. ASSUME NEW r \in net' PROVE Sent(r)'
    <3>1. /\ r.kind = "zoom" /\ r.tab = t /\ r.at = "served" /\ r.body = q.body
          /\ r.edits = q.edits /\ ~r.gone
      BY <2>1, <2>4
    <3>2. r.kind \notin Loads \cup Patches
      BY <1>3, <3>1
    <3>3. c.draft # Nothing => \A f \in Fields \ (c.edits \cup {"zoom"}) : c.draft[f] = row'[f]
      BY <1>3, <2>3
    <3>4. QED
      BY <1>1, <1>3, <1>4, <1>6, <3>1, <3>2, <3>3 DEF Sent
  <2>5. Fresh(t)'
    BY <1>1, <2>2, <2>3 DEF Fresh, Ready, At
  <2>6. \A r, s \in net' : r = s
    BY <2>1
  <2>7. QED
    BY <1>1, <1>2, <1>4, <1>5, <1>6, <2>4, <2>5, <2>6, InTouchNext
<1>10. QED
  BY <1>8, <1>9

\* The backend stores or clears the number of a page.
LEMMA PageServedTouch ==
    ASSUME Sound, Sound', InTouch, NEW q \in net, StorePage(q), ~behind'
    PROVE  InTouch' /\ row'.zoom = row.zoom
<1> DEFINE t == q.tab
           c == tab[q.tab]
<1>1. TabsFit /\ TabsFit' /\ MailFits /\ RestFits /\ UNCHANGED tab
  BY SoundParts, SoundNext DEF StorePage
<1>2. /\ t \in Tabs /\ (\A u \in Tabs \ {t} : tab[u].at = "closed")
      /\ net = {q} /\ Sent(q) /\ Awaited(q) /\ Fresh(t)
      /\ q.gone => \/ c.at = "closed"
                   \/ q.kind = "persist" /\ Ready(t, "notes") /\ c.odd
  BY OneMessage
<1>3. /\ Served(q, q.body) /\ q.kind \in {"export", "unexport"} /\ q.at = "called"
      /\ q.kind \in Remote /\ q.kind \notin Loads \cup Patches
      /\ q.body \in Calls \cup {Nothing} /\ (q.kind = "export" => q.body \in Calls)
      /\ row' \in Row /\ row'.page = q.body /\ (\A f \in Fields \ {"page"} : row'[f] = row[f])
      /\ latest' \in Row
      /\ \A f \in Fields : latest'[f] = IF f \in q.edits THEN row'[f] ELSE latest[f]
  BY <1>1, PageServed, Kinds
<1>4. "page" \in q.edits /\ row.slots # Nothing
  BY <1>2, <1>3 DEF Sent
<1>5. row' = latest'
  <2>1. \A f \in Fields : latest'[f] = row'[f]
    BY <1>3, <1>4 DEF InTouch
  <2>2. QED
    BY <1>3, <2>1, SameRow
<1>6. row'.slots = row.slots /\ row'.zoom = row.zoom
  BY <1>3 DEF Fields
<1>7. \/ q.gone /\ net' = {}
      \/ ~q.gone /\ \E p : /\ net' = {p} /\ p.kind = q.kind /\ p.tab = t /\ p.at = "served"
                           /\ p.body = q.body /\ p.edits = q.edits /\ ~p.gone
  BY <1>1, <1>2, <1>3, ServedMoves DEF Moves
<1>8. CASE q.gone
  <2>1. c.at = "closed" /\ c.draft = Nothing
    BY <1>1, <1>2, <1>3, <1>8 DEF TabsFit, Fitting
  <2>2. Fresh(t)'
    BY <1>1, <2>1 DEF Fresh, Ready, At
  <2>3. QED
    BY <1>1, <1>2, <1>4, <1>5, <1>6, <1>7, <1>8, <2>2, InTouchNext
<1>9. CASE ~q.gone
  <2>1. PICK p : /\ net' = {p} /\ p.kind = q.kind /\ p.tab = t /\ p.at = "served"
                 /\ p.body = q.body /\ p.edits = q.edits /\ ~p.gone
    BY <1>7, <1>9
  <2>2. c.at = "view" /\ c.copy # Nothing /\ c.draft = Nothing /\ Unheard' /\ ~Unheard
    BY <1>1, <1>2, <1>3, <1>9, <2>1 DEF Awaited, Ready, At, Unheard, TabsFit, Fitting
  <2>3. c.copy = row
    BY <1>2, <2>2 DEF Fresh, Ready, At
  <2>4. ASSUME NEW r \in net' PROVE Sent(r)'
    <3>1. /\ r.kind = q.kind /\ r.tab = t /\ r.at = "served" /\ r.body = q.body
          /\ r.edits = q.edits /\ ~r.gone
      BY <2>1, <2>4
    <3>2. r.kind \notin Loads \cup Patches /\ r.kind \notin {"drag", "persist", "zoom"}
      BY <1>3, <3>1
    <3>3. \A f \in Fields \ {"page"} : c.copy[f] = row'[f]
      BY <1>3, <2>3
    <3>4. QED
      BY <1>1, <1>3, <1>4, <1>6, <3>1, <3>2, <3>3 DEF Sent
  <2>5. Fresh(t)'
    BY <1>1, <2>2 DEF Fresh, Ready, At
  <2>6. \A r, s \in net' : r = s
    BY <2>1
  <2>7. QED
    BY <1>1, <1>2, <1>4, <1>5, <1>6, <2>4, <2>5, <2>6, InTouchNext
<1>10. QED
  BY <1>8, <1>9

\* A call of Zoom or of Confluence: what it was sent with stays true.
LEMMA CalledTouch ==
    ASSUME Sound, Sound', InTouch, NEW q \in net,
           CallZoom(q) \/ CallConfluence(q) \/ DeletePage(q), ~behind'
    PROVE  InTouch'
<1> DEFINE t == q.tab
           c == tab[q.tab]
<1>1. TabsFit /\ TabsFit' /\ MailFits /\ RestFits
  BY SoundParts, SoundNext
<1>2. /\ t \in Tabs /\ (\A u \in Tabs \ {t} : tab[u].at = "closed")
      /\ net = {q} /\ Sent(q) /\ Awaited(q) /\ Fresh(t)
  BY OneMessage
<1>3. PICK p, body : /\ Moves(q, p, "called", body) /\ net' = (net \ {q}) \cup {p}
                     /\ q.kind = "zoom" => body = q.body
  BY <1>1, CallMoves
<1>4. /\ q.kind \in Remote /\ q.kind \notin Loads \cup Patches /\ q.at = "sent"
      /\ q.kind = "zoom" => row.slots \in Slots
      /\ UNCHANGED <<row, latest, tab>>
  BY <1>1, CallMoves, Kinds DEF CallZoom
<1>5. /\ net' = {p} /\ p.kind = q.kind /\ p.tab = t /\ p.at = "called" /\ p.edits = q.edits
      /\ p.gone <=> q.gone
  BY <1>2, <1>3 DEF Moves
<1>6. ASSUME NEW r \in net' PROVE Sent(r)'
  <2>1. /\ r.kind = q.kind /\ r.tab = t /\ r.at = "called" /\ r.edits = q.edits
        /\ r.gone <=> q.gone
    BY <1>5, <1>6
  <2>2. r.kind \notin Loads \cup Patches /\ r.kind \notin {"drag", "persist"}
    BY <1>4, <2>1, Kinds
  <2>3. /\ q.gone => \A u \in Tabs : At(u, "closed")
        /\ q.kind = "zoom" => "zoom" \in q.edits /\ row.zoom = Nothing
        /\ q.kind \in {"export", "unexport"} => "page" \in q.edits /\ row.slots # Nothing
    BY <1>2, <1>4, <2>1, <2>2 DEF Sent
  <2>4. QED
    BY <1>4, <2>1, <2>2, <2>3 DEF Sent, At
<1>7. Fresh(t)'
  <2>1. ~Unheard /\ ~Unheard' /\ ~(\E r \in net' : r.kind = "persist")
        /\ ~(\E r \in net : r.kind = "persist")
    BY <1>2, <1>4, <1>5, Kinds DEF Unheard
  <2>2. QED
    BY <1>2, <1>4, <2>1 DEF Fresh, Ready, At
<1>8. \A r, s \in net' : r = s
  BY <1>5
<1>9. QED
  BY <1>1, <1>2, <1>4, <1>6, <1>7, <1>8, InTouchNext DEF InTouch

\* A page that hears what it awaited, and what it must then say.
LEMMA HeardTouch ==
    ASSUME Sound, Sound', InTouch, NEW q \in net, net' = net \ {q},
           \A u \in Tabs \ {q.tab} : tab'[u] = tab[u], UNCHANGED <<row, latest>>,
           Fresh(q.tab)'
    PROVE  InTouch'
<1>1. TabsFit'
  BY SoundNext
<1>2. net' = {} /\ q.tab \in Tabs /\ \A u \in Tabs \ {q.tab} : tab'[u].at = "closed"
  BY OneMessage
<1>3. QED
  BY <1>1, <1>2, InTouchNext DEF InTouch

\* The project arrives.
LEMMA LoadReplyTouch ==
    ASSUME Sound, Sound', InTouch, NEW q \in net, LoadReply(q), ~behind'
    PROVE  InTouch'
<1> DEFINE t == q.tab
           c == tab[q.tab]
           d == tab'[q.tab]
<1>1. /\ TabsFit /\ TabsFit' /\ MailFits /\ UNCHANGED <<row, latest>> /\ net' = net \ {q}
      /\ q.kind \in Loads /\ q.at = "served"
  BY SoundParts, SoundNext DEF LoadReply
<1>2. t \in Tabs /\ net = {q} /\ Sent(q) /\ Fresh(t)
  BY OneMessage
<1>3. /\ q.body = row /\ c.at # "closed"
      /\ q.kind = "list" => c.at = "calendar" /\ c.draft = Nothing
      /\ q.kind = "project" => c.at # "calendar" /\ c.copy = Nothing
  BY <1>1, <1>2 DEF Sent, At
<1>4. /\ \A u \in Tabs \ {t} : tab'[u] = tab[u]
      /\ q.body \in Row
      /\ \/ /\ d.copy = q.body /\ c.at = "notes" /\ q.kind = "project"
            /\ d.blocks = q.body.notes /\ d.saved = q.body.notes
            /\ Same(c, d, {"copy", "blocks", "saved"})
            /\ c.copy = Nothing /\ c.pending = Nothing
         \/ /\ d.copy = q.body /\ Same(c, d, {"copy"})
            /\ \/ c.at = "calendar" /\ q.kind = "list"
               \/ c.at = "view" /\ q.kind = "project"
         \/ /\ UNCHANGED tab
            /\ ~(c.at \in {"notes", "view"} /\ q.kind = "project")
            /\ ~(c.at = "calendar" /\ q.kind = "list")
  BY <1>1, LoadHeard
<1>5. q.body # Nothing /\ c.at \in Pages \cup {"closed"}
      /\ (c.at # "calendar" => c.draft = Nothing)
  BY <1>1, <1>2, <1>4, NothingIsNoRow, TabFields DEF TabsFit, Fitting
<1>6. CASE c.at = "notes" /\ q.kind = "project"
  <2>1. /\ d.at = "notes" /\ d.copy = row /\ d.blocks = row.notes /\ d.saved = row.notes
        /\ d.draft = Nothing /\ d.copy # Nothing
    BY <1>3, <1>4, <1>5, <1>6 DEF Same
  <2>2. QED
    BY <1>1, <2>1, HeardTouch, <1>4 DEF Fresh, Ready, At
<1>7. CASE c.at = "calendar" \/ c.at = "view"
  <2>1. q.kind = IF c.at = "calendar" THEN "list" ELSE "project"
    BY <1>1, <1>3, <1>7, Kinds
  <2>2. d.at = c.at /\ d.copy = row /\ d.draft = Nothing /\ d.copy # Nothing
    BY <1>3, <1>4, <1>5, <1>7, <2>1 DEF Same
  <2>3. QED
    BY <1>1, <1>4, <1>7, <2>2, HeardTouch DEF Fresh, Ready, At
<1>8. QED
  BY <1>1, <1>3, <1>5, <1>6, <1>7, Kinds DEF Pages

\* The notes editor hears that its notes are saved.
LEMMA PersistReplyTouch ==
    ASSUME Sound, Sound', InTouch, NEW q \in net, PersistReply(q), ~behind'
    PROVE  InTouch'
<1> DEFINE t == q.tab
           c == tab[q.tab]
           d == tab'[q.tab]
<1>1. /\ TabsFit /\ TabsFit' /\ MailFits /\ UNCHANGED <<row, latest>> /\ net' = net \ {q}
      /\ q.kind = "persist" /\ q.kind \in Patches /\ q.at = "served"
  BY SoundParts, SoundNext, Kinds DEF PersistReply
<1>2. t \in Tabs /\ net = {q} /\ Sent(q) /\ Fresh(t)
  BY OneMessage
<1>3. /\ \A u \in Tabs \ {t} : tab'[u] = tab[u]
      /\ c.at = "notes" /\ c.copy # Nothing /\ ~q.gone
      /\ d.saved = q.body.notes /\ d.status = "saved"
      /\ d.odd <=> c.odd /\ c.blocks # q.body.notes
      /\ Same(c, d, {"saved", "status", "odd"})
  BY <1>1, PersistHeard
<1>4. /\ q.body = row
      /\ ~c.odd => (c.pending = Nothing => c.blocks = q.body.notes)
  BY <1>1, <1>2, <1>3 DEF Sent, At
<1>5. /\ d.at = "notes" /\ d.copy = c.copy /\ d.blocks = c.blocks /\ d.pending = c.pending
      /\ d.draft = c.draft /\ d.saved = row.notes
      /\ ~d.odd /\ d.pending = Nothing => d.blocks = d.saved
  BY <1>3, <1>4 DEF Same
<1>6. /\ c.copy.zoom = row.zoom /\ c.copy.page = row.page /\ c.draft = Nothing
      /\ IF c.copy.slots = Nothing THEN row.slots \in {Nothing, Unplanned}
         ELSE row.slots = c.copy.slots
  BY <1>1, <1>2, <1>3 DEF Fresh, Ready, At, TabsFit, Fitting
<1>7. Fresh(t)'
  BY <1>1, <1>3, <1>5, <1>6 DEF Fresh, Ready, At
<1>8. QED
  BY <1>1, <1>3, <1>7, HeardTouch

\* The calendar hears that a save took place, and reads the projects again.
LEMMA CalendarReplyTouch ==
    ASSUME Sound, Sound', InTouch, NEW q \in net, CalendarReply(q), ~behind'
    PROVE  InTouch'
<1> DEFINE t == q.tab
           c == tab[q.tab]
           d == tab'[q.tab]
           rest == net \ {q}
<1>1. /\ TabsFit /\ TabsFit' /\ MailFits /\ UNCHANGED <<row, latest>>
      /\ q.kind \in {"save", "drag"} /\ net' = Loading(t, "calendar", rest)
  BY SoundParts, SoundNext DEF CalendarReply
<1>2. /\ t \in Tabs /\ net = {q} /\ Sent(q) /\ \A u \in Tabs \ {t} : tab[u].at = "closed"
  BY OneMessage
<1>3. /\ \A u \in Tabs \ {t} : tab'[u] = tab[u]
      /\ c.at = "calendar"
      /\ IF q.kind = "drag" THEN UNCHANGED tab ELSE d.draft = Nothing /\ d.edits = {}
      /\ Same(c, d, {"draft", "edits"})
  BY <1>1, CalendarHeard
<1>4. d.at = "calendar" /\ d.draft = Nothing
  BY <1>1, <1>2, <1>3 DEF Sent, Same
<1>5. net' = {Request(t, "list", Nothing, {})}
  BY <1>1, <1>2 DEF Loading, Address
<1>6. ASSUME NEW r \in net' PROVE Sent(r)'
  <2>1. r.tab = t /\ r.kind = "list" /\ r.at = "sent" /\ ~r.gone
    BY <1>5, <1>6 DEF Request
  <2>2. QED
    BY <1>4, <2>1, Kinds DEF Sent, At
<1>7. Fresh(t)'
  <2>1. Unheard'
    BY <1>5, Kinds DEF Unheard, Request
  <2>2. QED
    BY <1>4, <2>1 DEF Fresh, Ready, At
<1>8. \A r, s \in net' : r = s
  BY <1>5
<1>9. QED
  BY <1>1, <1>2, <1>3, <1>6, <1>7, <1>8, InTouchNext DEF InTouch

\* The drawer hears of its meeting.
LEMMA ZoomReplyTouch ==
    ASSUME Sound, Sound', InTouch, NEW q \in net, ZoomReply(q), ~behind'
    PROVE  InTouch'
<1> DEFINE t == q.tab
           c == tab[q.tab]
           d == tab'[q.tab]
<1>1. /\ TabsFit /\ TabsFit' /\ MailFits /\ UNCHANGED <<row, latest>> /\ net' = net \ {q}
      /\ q.kind = "zoom" /\ q.at = "served"
  BY SoundParts, SoundNext DEF ZoomReply
<1>2. t \in Tabs /\ net = {q} /\ Sent(q) /\ Fresh(t)
  BY OneMessage
<1>3. /\ \A u \in Tabs \ {t} : tab'[u] = tab[u]
      /\ c.at = "calendar" /\ c.draft # Nothing /\ c.draft \in Row
      /\ q.body \in Calls /\ d.draft = [c.draft EXCEPT !.zoom = q.body]
      /\ d.edits = c.edits \cup {"zoom"} /\ Same(c, d, {"draft", "edits"})
  BY <1>1, ZoomHeard
<1>4. /\ row.zoom = q.body
      /\ \A f \in Fields \ (c.edits \cup {"zoom"}) : c.draft[f] = row[f]
  BY <1>1, <1>2, <1>3 DEF Sent
<1>5. /\ d.draft \in Row /\ d.draft # Nothing /\ d.draft.zoom = q.body
      /\ \A f \in Fields \ {"zoom"} : d.draft[f] = c.draft[f]
  BY <1>3, RowFields
<1>6. c.copy # Nothing /\ c.draft.slots # Nothing
  BY <1>2, <1>3 DEF Fresh
<1>7. /\ d.at = "calendar" /\ d.copy # Nothing /\ "zoom" \in d.edits
      /\ d.draft.slots # Nothing
      /\ \A f \in Fields \ d.edits : d.draft[f] = row[f]
  <2>1. d.draft.slots = c.draft.slots
    BY <1>3, <1>5, RowFields DEF Fields
  <2>2. QED
    BY <1>3, <1>4, <1>5, <1>6, <2>1 DEF Same
<1>8. Fresh(t)'
  BY <1>1, <1>4, <1>5, <1>7 DEF Fresh, Ready, At
<1>9. QED
  BY <1>1, <1>3, <1>8, HeardTouch

\* The notes page hears of its page in Confluence.
LEMMA PageReplyTouch ==
    ASSUME Sound, Sound', InTouch, NEW q \in net, PageReply(q), ~behind'
    PROVE  InTouch'
<1> DEFINE t == q.tab
           c == tab[q.tab]
           d == tab'[q.tab]
<1>1. /\ TabsFit /\ TabsFit' /\ MailFits /\ RestFits /\ UNCHANGED <<row, latest>>
      /\ net' = net \ {q} /\ q.kind \in {"export", "unexport"} /\ q.at = "served"
  BY SoundParts, SoundNext DEF PageReply
<1>2. t \in Tabs /\ net = {q} /\ Sent(q)
  BY OneMessage
<1>3. /\ \A u \in Tabs \ {t} : tab'[u] = tab[u]
      /\ c.at = "view" /\ c.copy \in Row /\ q.body \in Calls \cup {Nothing}
      /\ d.copy = [c.copy EXCEPT !.page = q.body] /\ d.copy \in Row
      /\ Same(c, d, {"copy"})
  BY <1>1, PageHeard
<1>4. /\ row.page = q.body /\ row["page"] = row.page /\ row \in Row
      /\ \A f \in Fields \ {"page"} : c.copy[f] = row[f]
  BY <1>1, <1>2, RowFields DEF Sent, RestFits
<1>5. /\ d.copy.page = q.body /\ d.copy["page"] = d.copy.page
      /\ \A f \in Fields \ {"page"} : d.copy[f] = c.copy[f]
  BY <1>3, RowFields
<1>6. \A f \in Fields : d.copy[f] = row[f]
  BY <1>4, <1>5
<1>7. d.copy = row
  BY <1>3, <1>4, <1>6, SameRow
<1>8. d.at = "view" /\ d.draft = Nothing
  BY <1>1, <1>2, <1>3 DEF Same, TabsFit, Fitting
<1>9. Fresh(t)'
  BY <1>1, <1>7, <1>8 DEF Fresh, Ready, At
<1>10. QED
  BY <1>1, <1>3, <1>9, HeardTouch

\* A request is refused, or lost before the backend had it, or was only a GET.
LEMMA FailTouch ==
    ASSUME Sound, Sound', InTouch, NEW q \in net, Fail(q), ~behind'
    PROVE  InTouch'
<1> DEFINE t == q.tab
           c == tab[q.tab]
           d == tab'[q.tab]
<1>1. /\ TabsFit /\ TabsFit' /\ MailFits /\ UNCHANGED <<row, latest>> /\ net' = net \ {q}
      /\ q.at # "sent" => q.kind \in Loads
  BY SoundParts, SoundNext DEF Fail
<1>2. /\ t \in Tabs /\ net = {q} /\ net' = {} /\ Sent(q) /\ Fresh(t) /\ Fits(q) /\ Awaited(q)
      /\ q.gone => c.at = "closed" \/ (q.kind = "persist" /\ Ready(t, "notes") /\ c.odd)
  BY <1>1, OneMessage
<1>3. /\ \A u \in Tabs \ {t} : tab'[u] = tab[u]
      /\ \/ /\ UNCHANGED tab /\ (q.kind = "persist" => q.gone)
            /\ q.kind = "list" /\ ~q.gone => c.at # "calendar"
         \/ /\ q.kind = "persist" /\ ~q.gone /\ d.status = "error"
            /\ Same(c, d, {"status"})
         \/ /\ q.kind = "list" /\ ~q.gone /\ c.at = "calendar" /\ d.copy = Nothing
            /\ Same(c, d, {"copy"})
  BY <1>1, Fails
<1>4. Fitting(c)
  BY <1>1, <1>2 DEF TabsFit
<1>5. CASE UNCHANGED tab /\ (q.kind = "persist" => q.gone)
           /\ (q.kind = "list" /\ ~q.gone => c.at # "calendar")
  <2>1. q.kind \in Loads => q.kind = "project" /\ c.at # "calendar" /\ c.copy = Nothing
    BY <1>2, <1>5, Kinds DEF Sent, At, Awaited
  <2>2. q.kind \notin Loads => ~Unheard
    BY <1>1, <1>2 DEF Unheard
  <2>3. Ready(t, "notes") => c.odd
    BY <1>2, <1>5, EditorMail DEF Ready, At
  <2>4. c.draft # Nothing => c.copy # Nothing /\ c.draft.slots # Nothing /\ c.at = "calendar"
    BY <1>2, <1>4 DEF Fresh, Fitting
  <2>5. Fresh(t)'
    <3>1. CASE q.kind \in Loads
      BY <1>1, <1>2, <1>5, <2>1, <2>4, <3>1 DEF Fresh, Ready, At
    <3>2. CASE q.kind \notin Loads
      BY <1>1, <1>2, <1>5, <2>2, <2>3, <2>4, <3>2 DEF Fresh, Ready, At
    <3>3. QED
      BY <3>1, <3>2
  <2>6. QED
    BY <1>1, <1>3, <2>5, HeardTouch
<1>6. CASE q.kind = "persist" /\ ~q.gone /\ d.status = "error" /\ Same(c, d, {"status"})
  <2>1. c.at = "notes" /\ c.copy # Nothing /\ c.draft = Nothing /\ q.at = "sent"
        /\ q.kind \in Patches
    BY <1>1, <1>2, <1>4, <1>6, Kinds DEF Awaited, Ready, At, Fitting
  <2>2. ~c.odd => c.saved = row.notes
    BY <1>2, <1>6, <2>1 DEF Sent, At
  <2>3. /\ d.at = "notes" /\ d.copy = c.copy /\ d.draft = Nothing /\ d.saved = c.saved
        /\ d.odd = c.odd
    BY <1>6, <2>1 DEF Same
  <2>4. /\ c.copy.zoom = row.zoom /\ c.copy.page = row.page
        /\ IF c.copy.slots = Nothing THEN row.slots \in {Nothing, Unplanned}
           ELSE row.slots = c.copy.slots
    BY <1>2, <2>1 DEF Fresh, Ready, At
  <2>5. Fresh(t)'
    BY <1>1, <1>6, <2>1, <2>2, <2>3, <2>4 DEF Fresh, Ready, At
  <2>6. QED
    BY <1>1, <1>3, <2>5, HeardTouch
<1>7. CASE q.kind = "list" /\ c.at = "calendar" /\ d.copy = Nothing /\ Same(c, d, {"copy"})
  <2>1. c.draft = Nothing
    BY <1>2, <1>7, Kinds DEF Sent
  <2>2. d.at = "calendar" /\ d.draft = Nothing
    BY <1>7, <2>1 DEF Same
  <2>3. Fresh(t)'
    BY <1>7, <2>2 DEF Fresh, Ready, At
  <2>4. QED
    BY <1>1, <1>3, <2>3, HeardTouch
<1>8. QED
  BY <1>3, <1>5, <1>6, <1>7

\* A copy that is behind stays so.
LEMMA BehindStays == [Next]_vars /\ behind => behind'
<1> SUFFICES ASSUME [Next]_vars, behind PROVE behind'
  OBVIOUS
<1>1. CASE UNCHANGED vars
  BY <1>1 DEF vars
<1>2. ASSUME NEW t \in Tabs, Browse(t) \/ Write(t) PROVE behind'
  BY <1>2 DEF Browse, Write, Go, CloseTab, Type, TimerFires, Hide, Send, Notice
<1>3. ASSUME NEW t \in Tabs, Plan(t) \/ Publish(t) PROVE behind'
  BY <1>3 DEF Plan, OpenDrawer, CancelDrawer, SaveDrawer, Schedule, Create, EditDrawer, Drag,
              Publish, Export, Unexport, Send, Notice
<1>4. ASSUME NEW q \in net, Serve(q) PROVE behind'
  BY <1>4 DEF Serve, ServeLoad, ServePatch, CallZoom, StoreZoom, CallConfluence, DeletePage,
              StorePage
<1>5. ASSUME NEW q \in net, Reply(q) \/ Fail(q) PROVE behind'
  BY <1>5 DEF Reply, LoadReply, PersistReply, CalendarReply, ZoomReply, PageReply, Fail, Notice
<1>6. QED
  BY <1>1, <1>2, <1>3, <1>4, <1>5 DEF Next

LEMMA SteadyInit == Init => Steady
<1> SUFFICES ASSUME Init PROVE InTouch
  BY SteadyMeans
<1>1. /\ row = latest /\ net = {} /\ \A t \in Tabs : tab[t] = Closed
      /\ row.notes = Blank /\ row.zoom = Nothing /\ row.page = Nothing
  BY DEF Init
<1>2. \A t \in Tabs : tab[t].at = "closed" /\ tab[t].draft = Nothing
  <2>1. Closed.at = "closed" /\ Closed.draft = Nothing
    BY DEF Closed
  <2>2. QED
    BY <1>1, <2>1
<1>3. Alone /\ \A t \in Tabs : Fresh(t)
  BY <1>1, <1>2 DEF Alone, Fresh, Ready, At
<1>4. QED
  BY <1>1, <1>3 DEF InTouch

\* What a step does to the row while no copy in use is behind.
LEMMA InTouchStep ==
    ASSUME Sound, Sound', InTouch, [Next]_vars, ~behind'
    PROVE  InTouch'
<1>1. CASE UNCHANGED vars
  BY <1>1 DEF vars, InTouch, Alone, Sent, Fresh, Unheard, Ready, At
<1>2. ASSUME NEW t \in Tabs, Browse(t) PROVE InTouch'
  BY <1>2, GoTouch, CloseTouch DEF Browse
<1>3. ASSUME NEW t \in Tabs, Write(t) PROVE InTouch'
  BY <1>3, TypeTouch, TimerTouch, HideTouch DEF Write
<1>4. ASSUME NEW t \in Tabs, Plan(t) PROVE InTouch'
  <2>1. FirstSlot \in Slots
    BY EngagementAssumption
  <2>2. CASE OpenDrawer(t) \/ \E s \in Slots : Create(t, s)
    BY <2>1, <2>2, DrawerTouch
  <2>3. CASE CancelDrawer(t) \/ \E s \in Slots : EditDrawer(t, s)
    BY <2>1, <2>3, EditTouch
  <2>4. CASE SaveDrawer(t) \/ \E s \in Slots : Drag(t, s)
    BY <2>1, <2>4, SaveTouch
  <2>5. CASE Schedule(t)
    BY <2>5, CallTouch
  <2>6. QED
    BY <1>4, <2>2, <2>3, <2>4, <2>5 DEF Plan
<1>5. ASSUME NEW t \in Tabs, Publish(t) PROVE InTouch'
  BY <1>5, CallTouch
<1>6. ASSUME NEW q \in net, Serve(q) PROVE InTouch'
  BY <1>6, LoadServedTouch, PatchServedTouch, ZoomServedTouch, PageServedTouch, CalledTouch
     DEF Serve
<1>7. ASSUME NEW q \in net, Reply(q) \/ Fail(q) PROVE InTouch'
  BY <1>7, LoadReplyTouch, PersistReplyTouch, CalendarReplyTouch, ZoomReplyTouch,
     PageReplyTouch, FailTouch DEF Reply
<1>8. QED
  BY <1>1, <1>2, <1>3, <1>4, <1>5, <1>6, <1>7 DEF Next

LEMMA SteadyStep == Sound /\ Sound' /\ Steady /\ [Next]_vars => Steady'
BY InTouchStep, BehindStays, SteadyMeans

LEMMA AlwaysSteady == Spec => [](Sound /\ Steady)
<1>1. Init => Sound /\ Steady
  BY SoundInit, SteadyInit
<1>2. Sound /\ Steady /\ [Next]_vars => (Sound /\ Steady)'
  BY SoundStep, SteadyStep
<1>3. QED
  BY <1>1, <1>2, PTL DEF Spec

\* Each save writes every field of the engagement, and yet the row holds in each
\* field what the users gave it last, as long as no copy in use was behind.
THEOREM SavesKeepEachOther == Spec => []NothingTakenBack
<1>1. Steady => NothingTakenBack
  BY DEF Steady, NothingTakenBack
<1>2. QED
  BY <1>1, AlwaysSteady, PTL

\* A notes editor that reports nothing to save, and waits for no answer, shows the
\* notes of the database.
THEOREM EditorTellsTheTruth == Spec => []SavedMeansSaved
<1>1. Sound /\ Steady => SavedMeansSaved
  <2>1. SUFFICES ASSUME Sound, Steady, NEW t \in Tabs,
                        Ready(t, "notes"), tab[t].status \in {"idle", "saved"},
                        tab[t].pending = Nothing, ~tab[t].odd, ~behind,
                        ~\E q \in net : q.tab = t /\ q.kind = "persist"
                 PROVE  row.notes = tab[t].blocks
    BY DEF SavedMeansSaved
  <2>2. Fresh(t)
    BY <2>1 DEF Steady
  <2>3. QED
    BY <2>1, <2>2 DEF Fresh
<1>2. QED
  BY <1>1, AlwaysSteady, PTL

\* The number of a meeting that the engagement has is neither replaced nor forgotten,
\* by a save of an older copy or by a second meeting, as long as no copy was behind.
THEOREM OneMeeting == Spec => MeetingKept
<1>1. ASSUME Sound, Sound', Steady, [Next]_vars
      PROVE  row.zoom # Nothing /\ row'.zoom # row.zoom => behind
  <2>1. SUFFICES ASSUME ~behind, row'.zoom # row.zoom PROVE row.zoom = Nothing
    OBVIOUS
  <2>2. InTouch
    BY <1>1, <2>1, SteadyMeans
  <2>3. CASE UNCHANGED vars
    BY <2>1, <2>3 DEF vars
  <2>4. ASSUME NEW t \in Tabs, Browse(t) \/ Write(t) PROVE FALSE
    BY <2>1, <2>4 DEF Browse, Write, Go, CloseTab, Type, TimerFires, Hide
  <2>5. ASSUME NEW t \in Tabs, Plan(t) \/ Publish(t) PROVE FALSE
    BY <2>1, <2>5 DEF Plan, OpenDrawer, CancelDrawer, SaveDrawer, Schedule, Create, EditDrawer,
                      Drag, Publish, Export, Unexport
  <2>6. ASSUME NEW q \in net, Reply(q) \/ Fail(q) PROVE FALSE
    BY <2>1, <2>6 DEF Reply, LoadReply, PersistReply, CalendarReply, ZoomReply, PageReply, Fail
  <2>7. ASSUME NEW q \in net, Serve(q) PROVE row.zoom = Nothing
    <3>1. CASE ServeLoad(q) \/ CallZoom(q) \/ CallConfluence(q) \/ DeletePage(q)
      BY <2>1, <3>1 DEF ServeLoad, CallZoom, CallConfluence, DeletePage
    <3>2. CASE ServePatch(q)
      <4>1. ~behind'
        BY <2>1, <3>2 DEF ServePatch
      <4>2. QED
        BY <1>1, <2>1, <2>2, <2>7, <3>2, <4>1, PatchServedTouch
    <3>3. CASE StoreZoom(q)
      <4>1. ~behind'
        BY <2>1, <3>3 DEF StoreZoom
      <4>2. QED
        BY <1>1, <2>2, <2>7, <3>3, <4>1, ZoomServedTouch
    <3>4. CASE StorePage(q)
      <4>1. ~behind'
        BY <2>1, <3>4 DEF StorePage
      <4>2. QED
        BY <1>1, <2>1, <2>2, <2>7, <3>4, <4>1, PageServedTouch
    <3>5. QED
      BY <2>7, <3>1, <3>2, <3>3, <3>4 DEF Serve
  <2>8. QED
    BY <1>1, <2>3, <2>4, <2>5, <2>6, <2>7 DEF Next
<1>2. Sound /\ Steady /\ (Sound /\ Steady)' /\ [Next]_vars
        => [row.zoom # Nothing /\ row'.zoom # row.zoom => behind]_vars
  BY <1>1
<1>3. QED
  BY <1>2, AlwaysSteady, PTL DEF MeetingKept, Spec
=============================================================================
