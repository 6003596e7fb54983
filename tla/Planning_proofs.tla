-------------------------- MODULE Planning_proofs --------------------------
(***************************************************************************)
(* Theorems about Planning, for any projects, tabs, milestones, files and  *)
(* limits: the types, that no plan ever has a cycle, that whoever stored   *)
(* last sees what is stored, and that the stored dependencies of all       *)
(* projects together have no cycle.                                        *)
(***************************************************************************)
EXTENDS Planning, SequenceTheorems, TLAPS

---------------------------------------------------------------------------
(* What the states have in common *)

Plan == UNION {[D -> SUBSET Ids] : D \in SUBSET Ids}
Row == [plan : Plan \cup {Nothing}, wave : Waves \cup {Nothing}]
Message == [id : Nat \ {0}, tab : Tabs \cup {Nothing}, project : Projects, kind : Kinds,
            plan : Plan, wave : Waves \cup {Nothing}, at : {"sent", "served"}, answer : Row]
Writers == [plan : Tabs \cup {Nothing}, wave : Tabs \cup {Nothing}]
Counters == [edits : Nat, sends : Nat, failures : Nat, opens : Nat]

States ==
    /\ server \in [Projects -> Row]
    /\ page \in [Tabs -> {"closed", "loading", "open"}]
    /\ live \in [Tabs -> [Projects -> Row]]
    /\ first \in [Tabs -> [Projects -> Row]]
    /\ local \in [Tabs -> [Projects -> Plan \cup {Nothing}]]
    /\ net \in SUBSET Message
    /\ used \in Counters
    /\ last \in [Projects -> Writers]
    /\ clashed \in BOOLEAN /\ strayed \in BOOLEAN
    /\ mixed \in SUBSET Projects

\* The ids of a request are given once and in order.
Numbered ==
    /\ \A r \in net : r.id =< used.sends
    /\ \A r, s \in net : r.id = s.id => r = s

\* A tab that is not open has no copies, no import and no requests.
Shut ==
    \A t \in Tabs : ~Open(t) =>
        /\ \A p \in Projects : local[t][p] = Nothing
        /\ import[t] = NoImport
        /\ \A r \in net : r.tab # t

\* Plans have ids of their projects only.
Own ==
    \A p \in Projects :
        /\ \A x \in Everywhere(p) : DOMAIN x \subseteq IdsOf(p)
        /\ \A t \in Tabs : DOMAIN Given(first[t][p].plan) \subseteq IdsOf(p)

\* What an import has still to save is in its map.
Item == [project : Projects, ids : SUBSET Ids]
Job(at) ==
    /\ at = [map |-> at.map, deps |-> at.deps, plans |-> at.plans, wait |-> at.wait]
    /\ at.map = [i \in DOMAIN at.map |-> at.map[i]]
    /\ DOMAIN at.map \subseteq Ids
    /\ at.plans \in Seq(Item)
    /\ \A e \in DOMAIN at.plans :
          /\ at.plans[e].ids \subseteq Presets[at.plans[e].project] \cup Named
          /\ \A i \in at.plans[e].ids : i \in DOMAIN at.map /\ at.map[i] \subseteq Ids
Jobs == import = [t \in Tabs |-> import[t]] /\ \A t \in Tabs : Job(import[t])

Types == States /\ Numbered /\ Shut /\ Own /\ Jobs

---------------------------------------------------------------------------
(* Inductive invariants *)

\* The plans that an import saves have no cycle.
Part(map, S) == [i \in S |-> map[i]]
JobsAcyclic ==
    \A t \in Tabs : \A e \in DOMAIN import[t].plans :
        Acyclic(Part(import[t].map, import[t].plans[e].ids))

\* As long as no id is in two projects.
Apart ==
    ~clashed => \A p, q \in Projects : p # q =>
        \A x \in Everywhere(p), y \in Everywhere(q) : DOMAIN x \cap DOMAIN y = {}

\* Of a project that no save failed for and no two were in flight for: the one
\* request and its answer agree with its tab, and the tab that stored last with
\* what is stored.
OneAtATime ==
    \A r, s \in net : (r.project = s.project /\ r.project \notin mixed) => r = s
Answered ==
    \A r \in net : (r.project \notin mixed /\ r.at = "served") =>
        /\ r.answer = server[r.project]
        /\ r.kind # "wave" => r.answer.plan = r.plan
        /\ r.kind = "wave" => r.answer.wave = r.wave
Awaited ==
    \A r \in net : (r.project \notin mixed /\ r.tab # Nothing) =>
        /\ r.kind # "wave" => Shown(r.tab, r.project) = r.plan
        /\ r.kind = "wave" => live[r.tab][r.project].wave = r.wave
Waits(t, p, waves) ==
    \E r \in net : r.tab = t /\ r.project = p /\ r.at = "sent" /\ (r.kind = "wave") = waves
Stored ==
    \A t \in Tabs, p \in Projects \ mixed : page[t] # "closed" =>
        /\ (last[p].plan = t /\ ~Waits(t, p, FALSE)) => Shown(t, p) = Given(server[p].plan)
        /\ (last[p].wave = t /\ ~Waits(t, p, TRUE)) => live[t][p].wave = server[p].wave
Seen == OneAtATime /\ Answered /\ Awaited /\ Stored

\* The plan a project will have when the requests under way are served: that of
\* the newest one.
Sent(p) == {r \in net : r.project = p /\ r.at = "sent" /\ r.kind # "wave"}
Newest(r, S) == r \in S /\ \A s \in S : s.id =< r.id
Target(p) == IF Sent(p) = {} THEN Given(server[p].plan)
             ELSE (CHOOSE r \in Sent(p) : Newest(r, Sent(p))).plan
Targets == [p \in Projects |-> Target(p)]

\* Short of a stray edit or a loss: one tab has requests under way, it shows what
\* they lead to, and one import at most is at work.
Tidy ==
    ~strayed =>
        /\ \A p \in Projects : Sent(p) # {} => \E r \in Sent(p) : Newest(r, Sent(p))
        /\ \A p, q \in Projects : \A r \in Sent(p), s \in Sent(q) : r.tab = s.tab
        /\ \A p \in Projects : \A r \in Sent(p) :
              r.tab # Nothing => Shown(r.tab, p) = Target(p)

\* What an import has still to save is known to its map, and with it nothing has a
\* cycle.
Saving(t) == import[t].plans # <<>>
RestProjects(at) == {at.plans[e].project : e \in DOMAIN at.plans}
RestIds(at) == UNION {at.plans[e].ids : e \in DOMAIN at.plans}
Known(at) ==
    /\ Acyclic(at.map)
    /\ \A q \in Projects \ RestProjects(at) : \A i \in DOMAIN Target(q) \ RestIds(at) :
          i \in DOMAIN at.map /\ Target(q)[i] \subseteq at.map[i]
Sound ==
    (~strayed /\ ~clashed) =>
        /\ \A t, u \in Tabs : (Saving(t) /\ Saving(u)) => t = u
        /\ \A t \in Tabs : Saving(t) => Known(import[t])
        /\ (\A t \in Tabs : ~Saving(t)) => Acyclic(Merged(Targets, Projects))

---------------------------------------------------------------------------
(* Graphs *)

\* What has fewer dependencies has no cycle either.
LEMMA Shrinks ==
    ASSUME NEW g, NEW h, Acyclic(g), DOMAIN h \subseteq DOMAIN g,
           \A i \in DOMAIN h : h[i] \subseteq g[i]
    PROVE  Acyclic(h)
  BY Zenon DEF Acyclic

\* A milestone without dependencies closes no cycle.
LEMMA Grows ==
    ASSUME NEW g, NEW h, Acyclic(g),
           \A i \in DOMAIN h : h[i] = {} \/ (i \in DOMAIN g /\ h[i] \subseteq g[i])
    PROVE  Acyclic(h)
<1> SUFFICES ASSUME NEW S \in (SUBSET DOMAIN h) \ {{}}
             PROVE  \E i \in S : h[i] \cap S = {}
  BY Zenon DEF Acyclic
<1>1. CASE \E i \in S : h[i] = {}
  BY <1>1
<1>2. CASE ~\E i \in S : h[i] = {}
  <2>1. \A i \in S : i \in DOMAIN g /\ h[i] \subseteq g[i]
    BY <1>2
  <2>2. S \in (SUBSET DOMAIN g) \ {{}}
    BY <2>1
  <2>3. PICK i \in S : g[i] \cap S = {}
    BY <2>2 DEF Acyclic
  <2> QED BY <2>1, <2>3
<1> QED BY <1>1, <1>2

\* The searches of isDAGSafe and createsDepCycle are enough: a dependency on
\* `from', from which `to' is not met, closes no cycle, even when the search went
\* through more than the plan has.
LEMMA WithDepAcyclic ==
    ASSUME NEW g, NEW h, NEW from, NEW to \in DOMAIN g, from # to, DOMAIN g \subseteq Ids,
           g = [i \in DOMAIN g |-> g[i]],
           Acyclic(g), ~Reaches(h, from, to), \A i \in DOMAIN g : g[i] \subseteq DepsIn(h, i),
           from \in Ids
    PROVE  Acyclic(WithDep(g, from, to))
<1>1. PICK C \in SUBSET Ids : DepsIn(h, from) \subseteq C /\ Closed(h, C) /\ to \notin C
  BY DEF Reaches
<1> DEFINE B == C \cup {from}
           k == WithDep(g, from, to)
<1>2. /\ DOMAIN k = DOMAIN g
      /\ \A i \in DOMAIN g : i # to => k[i] = g[i]
      /\ k[to] = g[to] \cup {from}
  BY DEF WithDep
<1>3. \A i \in B : i \in DOMAIN g => k[i] \subseteq C
  BY <1>1, <1>2 DEF Closed
<1> HIDE DEF k
<1>4. SUFFICES ASSUME NEW S \in (SUBSET DOMAIN k) \ {{}}
               PROVE  \E i \in S : k[i] \cap S = {}
  BY Zenon DEF Acyclic, k
<1>5. CASE S \cap B # {}
  <2>1. S \cap B \in (SUBSET DOMAIN g) \ {{}}
    BY <1>5, <1>2
  <2>2. PICK i \in S \cap B : g[i] \cap (S \cap B) = {}
    BY <2>1 DEF Acyclic
  <2>3. k[i] \subseteq C /\ k[i] = g[i]
    BY <1>1, <1>2, <1>3, <2>2
  <2> QED BY <2>2, <2>3
<1>6. CASE S \cap B = {}
  <2>1. PICK i \in S : g[i] \cap S = {}
    BY <1>2 DEF Acyclic
  <2>2. k[i] \cap S = {}
    BY <1>2, <1>6, <2>1
  <2> QED BY <2>2
<1> QED BY <1>5, <1>6

\* In a merge of plans without common ids each milestone is its own.
LEMMA MergedIsPlan ==
    ASSUME NEW plans, NEW among \in SUBSET Projects, NEW p \in among, NEW i \in DOMAIN plans[p],
           \A q \in among \ {p} : i \notin DOMAIN plans[q]
    PROVE  Merged(plans, among)[i] = plans[p][i]
<1> DEFINE Holder(j) == CHOOSE x \in among :
                            /\ j \in DOMAIN plans[x]
                            /\ \A q \in among : q > x => j \notin DOMAIN plans[q]
<1>1. Holder(i) = p
  <2>1. ~(p > p)
    BY DEF Projects
  <2>2. \A q \in among : q > p => i \notin DOMAIN plans[q]
    BY <2>1
  <2>3. \E x \in among : i \in DOMAIN plans[x] /\ \A q \in among : q > x => i \notin DOMAIN plans[q]
    BY <2>2
  <2>4. Holder(i) \in among /\ i \in DOMAIN plans[Holder(i)]
    BY <2>3
  <2> QED BY <2>4
<1>2. i \in UNION {DOMAIN plans[q] : q \in among}
  OBVIOUS
<1> QED BY <1>1, <1>2 DEF Merged

LEMMA MergedDomain ==
    ASSUME NEW plans, NEW among
    PROVE  /\ DOMAIN Merged(plans, among) = UNION {DOMAIN plans[p] : p \in among}
           /\ Merged(plans, among) = [i \in DOMAIN Merged(plans, among) |-> Merged(plans, among)[i]]
  BY DEF Merged

---------------------------------------------------------------------------
(* Plans *)

LEMMA PlanFacts ==
    ASSUME NEW x \in Plan
    PROVE  /\ x # Nothing /\ Given(x) = x
           /\ x \in [DOMAIN x -> SUBSET Ids] /\ DOMAIN x \subseteq Ids
           /\ x = [i \in DOMAIN x |-> x[i]]
           /\ \A i \in DOMAIN x : x[i] \subseteq Ids
<1>1. PICK D \in SUBSET Ids : x \in [D -> SUBSET Ids]
  BY DEF Plan
<1>2. x # Nothing
  BY <1>1, PlanningAssumption
<1>3. DOMAIN x = D /\ x = [i \in DOMAIN x |-> x[i]] /\ \A i \in DOMAIN x : x[i] \subseteq Ids
  BY <1>1
<1> QED BY <1>1, <1>2, <1>3 DEF Given

LEMMA PlanMade ==
    ASSUME NEW x, DOMAIN x \subseteq Ids, x = [i \in DOMAIN x |-> x[i]],
           \A i \in DOMAIN x : x[i] \subseteq Ids
    PROVE  x \in Plan
<1>1. x \in [DOMAIN x -> SUBSET Ids]
  OBVIOUS
<1> QED BY <1>1 DEF Plan

LEMMA EmptyPlan == Empty \in Plan /\ DOMAIN Empty = {} /\ Acyclic(Empty)
<1>1. DOMAIN Empty = {} /\ Empty = [i \in DOMAIN Empty |-> Empty[i]]
  BY DEF Empty
<1>2. Empty \in Plan
  BY <1>1, PlanMade
<1>3. Acyclic(Empty)
  BY <1>1, Zenon DEF Acyclic
<1> QED BY <1>1, <1>2, <1>3

LEMMA GivenPlan ==
    ASSUME NEW x \in Plan \cup {Nothing}
    PROVE  Given(x) \in Plan
  BY EmptyPlan DEF Given

LEMMA OwnIds ==
    ASSUME NEW p \in Projects
    PROVE  IdsOf(p) \subseteq Ids
  BY DEF IdsOf, Ids

LEMMA NoImportIsJob == Job(NoImport)
<1>1. NoImport.map = Empty /\ NoImport.plans = <<>>
  BY DEF NoImport
<1>2. NoImport = [map |-> NoImport.map, deps |-> NoImport.deps, plans |-> NoImport.plans,
                  wait |-> NoImport.wait]
  BY DEF NoImport
<1>3. NoImport.plans \in Seq(Item) /\ DOMAIN NoImport.plans = {}
  BY <1>1
<1>4. DOMAIN NoImport.map = {} /\ NoImport.map = [i \in DOMAIN NoImport.map |-> NoImport.map[i]]
  BY <1>1 DEF Empty
<1>5. DOMAIN NoImport.map \subseteq Ids
  BY <1>4
<1>6. \A e \in DOMAIN NoImport.plans :
          /\ NoImport.plans[e].ids \subseteq Presets[NoImport.plans[e].project] \cup Named
          /\ \A i \in NoImport.plans[e].ids : i \in DOMAIN NoImport.map /\ NoImport.map[i] \subseteq Ids
  BY <1>3
<1> QED BY <1>2, <1>3, <1>4, <1>5, <1>6, Zenon DEF Job

\* TypeOK is a part of the types.
LEMMA TypesGive == Types => TypeOK
<1> SUFFICES ASSUME Types PROVE TypeOK
  OBVIOUS
<1> USE DEF Types, States
<1>1. ASSUME NEW p \in Projects, NEW x \in Row, DOMAIN Given(x.plan) \subseteq IdsOf(p)
      PROVE  IsStored(p, x)
  <2>1. x = [plan |-> x.plan, wave |-> x.wave] /\ x.wave \in Waves \cup {Nothing}
        /\ x.plan \in Plan \cup {Nothing}
    BY DEF Row
  <2>2. x.plan # Nothing => IsPlan(p, x.plan)
    BY <1>1, <2>1, PlanFacts DEF IsPlan
  <2> QED BY <2>1, <2>2 DEF IsStored
<1>2. ASSUME NEW p \in Projects PROVE IsStored(p, server[p])
  <2>1. Given(server[p].plan) \in Everywhere(p)
    BY DEF Everywhere
  <2> QED BY <1>1, <2>1 DEF Own
<1>3. ASSUME NEW t \in Tabs, NEW p \in Projects
      PROVE  /\ IsStored(p, live[t][p])
             /\ IsStored(p, first[t][p])
             /\ local[t][p] # Nothing => IsPlan(p, local[t][p])
  <2>1. Given(live[t][p].plan) \in Everywhere(p) /\ Given(local[t][p]) \in Everywhere(p)
    BY DEF Everywhere
  <2>2. live[t][p] \in Row /\ first[t][p] \in Row /\ local[t][p] \in Plan \cup {Nothing}
    OBVIOUS
  <2>3. IsStored(p, live[t][p]) /\ IsStored(p, first[t][p])
    BY <1>1, <2>1, <2>2 DEF Own
  <2>4. local[t][p] # Nothing => IsPlan(p, local[t][p])
    BY <2>1, <2>2, PlanFacts DEF Own, IsPlan
  <2> QED BY <2>3, <2>4
<1>4. ASSUME NEW r \in net
      PROVE  /\ r.tab \in Tabs \cup {Nothing}
             /\ r.kind \in Kinds /\ r.at \in {"sent", "served"}
             /\ IsPlan(r.project, r.plan) /\ IsStored(r.project, r.answer)
  <2>1. r \in Message
    OBVIOUS
  <2>2. r.project \in Projects /\ r.plan \in Plan /\ r.answer \in Row
    BY <2>1 DEF Message
  <2>3. r.plan \in Everywhere(r.project) /\ Given(r.answer.plan) \in Everywhere(r.project)
    BY DEF Everywhere
  <2>4. DOMAIN r.plan \subseteq IdsOf(r.project) /\ DOMAIN Given(r.answer.plan) \subseteq IdsOf(r.project)
    BY <2>2, <2>3 DEF Own
  <2>5. IsStored(r.project, r.answer)
    BY <1>1, <2>2, <2>4
  <2>6. IsPlan(r.project, r.plan)
    BY <2>2, <2>4, PlanFacts DEF IsPlan
  <2> QED BY <2>1, <2>5, <2>6 DEF Message
<1> QED BY <1>2, <1>3, <1>4 DEF TypeOK

LEMMA ShownPlan ==
    ASSUME Types, NEW t \in Tabs, NEW p \in Projects
    PROVE  /\ Shown(t, p) \in Plan /\ Shown(t, p) \in Everywhere(p)
           /\ DOMAIN Shown(t, p) \subseteq IdsOf(p) /\ DOMAIN Shown(t, p) \subseteq Ids
<1>1. live[t][p] \in Row /\ local[t][p] \in Plan \cup {Nothing}
  BY DEF Types, States
<1>2. Given(live[t][p].plan) \in Plan /\ (local[t][p] # Nothing => Given(local[t][p]) = local[t][p])
  BY <1>1, GivenPlan, PlanFacts DEF Row
<1>3. Given(live[t][p].plan) \in Everywhere(p) /\ Given(local[t][p]) \in Everywhere(p)
  BY DEF Everywhere
<1>4. Shown(t, p) \in Plan /\ Shown(t, p) \in Everywhere(p)
  BY <1>1, <1>2, <1>3 DEF Shown
<1> QED BY <1>4, OwnIds DEF Types, Own

---------------------------------------------------------------------------
(* What a step does to rows, copies and requests *)

\* A request as it leaves.
Message1(t, p, kind, plan, wave) ==
    [id |-> used.sends + 1, tab |-> t, project |-> p, kind |-> kind,
     plan |-> plan, wave |-> wave, at |-> "sent", answer |-> NoRecord]

LEMMA NoRecordRow == NoRecord \in Row /\ Given(NoRecord.plan) = Empty
  BY DEF NoRecord, Row, Given

LEMMA Requests ==
    ASSUME Types, NEW t \in Tabs, NEW p \in Projects, NEW kind \in Kinds, NEW plan \in Plan,
           NEW wave \in Waves \cup {Nothing}, Request(t, p, kind, plan, wave),
           used' \in Counters, used'.sends = used.sends + 1
    PROVE  LET m == Message1(t, p, kind, plan, wave) IN
           /\ net' = net \cup {m} /\ m \notin net
           /\ m.id = used.sends + 1 /\ m.tab = t /\ m.project = p /\ m.kind = kind
           /\ m.plan = plan /\ m.wave = wave /\ m.at = "sent" /\ m.answer = NoRecord
           /\ net' \in SUBSET Message
           /\ Numbered'
           /\ \A r \in net : r.id < m.id
           /\ clashed' \in BOOLEAN
           /\ mixed' \in SUBSET Projects
<1> DEFINE m == Message1(t, p, kind, plan, wave)
<1>1. /\ m.id = used.sends + 1 /\ m.tab = t /\ m.project = p /\ m.kind = kind
      /\ m.plan = plan /\ m.wave = wave /\ m.at = "sent" /\ m.answer = NoRecord
  BY DEF Message1
<1>2. used.sends \in Nat
  BY DEF Types, States, Counters
<1>3. m \in Message
  BY <1>2, NoRecordRow DEF Message1, Message
<1>4. net' = net \cup {m}
  BY DEF Request, Message1
<1> HIDE DEF m
<1>5. \A r \in net : r.id \in Nat /\ r.id < m.id
  <2> TAKE r \in net
  <2>1. r.id \in Nat /\ r.id =< used.sends
    BY DEF Types, States, Message, Numbered
  <2> QED BY <2>1, <1>1, <1>2
<1>6. m \notin net
  BY <1>5, <1>1, <1>2
<1>7. Numbered'
  <2>1. \A r \in net' : r.id =< used'.sends
    BY <1>1, <1>2, <1>4, <1>5
  <2>2. \A r, s \in net' : r.id = s.id => r = s
    BY <1>1, <1>2, <1>4, <1>5 DEF Types, Numbered
  <2> QED BY <2>1, <2>2 DEF Numbered
<1>8. clashed' \in BOOLEAN /\ mixed' \in SUBSET Projects
  BY DEF Request, Types, States
<1>9. net' \in SUBSET Message
  BY <1>3, <1>4 DEF Types, States
<1> QED BY <1>1, <1>4, <1>5, <1>6, <1>7, <1>8, <1>9 DEF m

\* What handleUpdatePlanning does for an edit, a reset and an import.
Puts(t, p, kind, plan) ==
    /\ Open(t)
    /\ kind = "reset" => plan = Empty
    /\ local' = [local EXCEPT ![t][p] = IF kind = "plan" THEN plan ELSE Nothing]
    /\ live' = [live EXCEPT ![t][p].plan = plan]
    /\ Request(t, p, kind, plan, Nothing)
    /\ strayed' = (strayed \/ Unaware(t))
    /\ used' \in Counters /\ used'.sends = used.sends + 1
    /\ UNCHANGED <<server, page, first, last>>

LEMMA RowWithPlan ==
    ASSUME NEW x \in Row, NEW plan \in Plan \cup {Nothing}
    PROVE  /\ [x EXCEPT !.plan = plan] \in Row
           /\ [x EXCEPT !.plan = plan].plan = plan
           /\ [x EXCEPT !.plan = plan].wave = x.wave
  BY DEF Row

LEMMA RowWithWave ==
    ASSUME NEW x \in Row, NEW w \in Waves \cup {Nothing}
    PROVE  /\ [x EXCEPT !.wave = w] \in Row
           /\ [x EXCEPT !.wave = w].plan = x.plan
           /\ [x EXCEPT !.wave = w].wave = w
  BY DEF Row

LEMMA PutsCopies ==
    ASSUME Types, NEW t \in Tabs, NEW p \in Projects, NEW kind \in {"plan", "reset"},
           NEW plan \in Plan, Puts(t, p, kind, plan)
    PROVE  /\ live' \in [Tabs -> [Projects -> Row]]
           /\ local' \in [Tabs -> [Projects -> Plan \cup {Nothing}]]
           /\ \A u \in Tabs, q \in Projects : ~(u = t /\ q = p) =>
                /\ live'[u][q] = live[u][q] /\ local'[u][q] = local[u][q]
                /\ Shown(u, q)' = Shown(u, q)
           /\ live'[t][p].plan = plan /\ live'[t][p].wave = live[t][p].wave
           /\ local'[t][p] \in {plan, Nothing}
           /\ Shown(t, p)' = plan
<1>1. live \in [Tabs -> [Projects -> Row]] /\ local \in [Tabs -> [Projects -> Plan \cup {Nothing}]]
  BY DEF Types, States
<1>2. live' = [live EXCEPT ![t][p].plan = plan]
  BY DEF Puts
<1>3. local' = [local EXCEPT ![t][p] = IF kind = "plan" THEN plan ELSE Nothing]
  BY DEF Puts
<1>4. local' \in [Tabs -> [Projects -> Plan \cup {Nothing}]]
      /\ (\A u \in Tabs, q \in Projects : ~(u = t /\ q = p) => local'[u][q] = local[u][q])
      /\ local'[t][p] = IF kind = "plan" THEN plan ELSE Nothing
  BY <1>1, <1>3
<1>5. live[t][p] \in Row
  BY <1>1
<1>6. [live[t][p] EXCEPT !.plan = plan] \in Row
      /\ [live[t][p] EXCEPT !.plan = plan].plan = plan
      /\ [live[t][p] EXCEPT !.plan = plan].wave = live[t][p].wave
  BY <1>5, RowWithPlan
<1>7. live'[t][p] = [live[t][p] EXCEPT !.plan = plan]
  BY <1>1, <1>2
<1>8. live' \in [Tabs -> [Projects -> Row]]
      /\ (\A u \in Tabs, q \in Projects : ~(u = t /\ q = p) => live'[u][q] = live[u][q])
  <2> DEFINE y == [live[t][p] EXCEPT !.plan = plan]
  <2>1. live' = [live EXCEPT ![t] = [@ EXCEPT ![p] = y]]
    BY <1>1, <1>2
  <2>2. y \in Row
    BY <1>6
  <2> HIDE DEF y
  <2> QED BY <1>1, <2>1, <2>2
<1>9. \A u \in Tabs, q \in Projects : ~(u = t /\ q = p) => Shown(u, q)' = Shown(u, q)
  BY <1>4, <1>8 DEF Shown
<1>10. Shown(t, p)' = plan
  <2>1. plan # Nothing /\ Given(plan) = plan
    BY PlanFacts
  <2>2. Shown(t, p)' = IF local'[t][p] # Nothing THEN local'[t][p] ELSE Given(live'[t][p].plan)
    BY DEF Shown
  <2> QED BY <1>4, <1>6, <1>7, <2>1, <2>2
<1> QED BY <1>4, <1>6, <1>7, <1>8, <1>9, <1>10

\* The plans of a project come from the save, or they were there.
LEMMA PutsSources ==
    ASSUME Types, NEW t \in Tabs, NEW p \in Projects, NEW kind \in {"plan", "reset"},
           NEW plan \in Plan, Puts(t, p, kind, plan), NEW q \in Projects,
           NEW x \in Everywhere(q)'
    PROVE  x \in Everywhere(q) \/ x = Empty \/ (q = p /\ x = plan)
<1> DEFINE m == Message1(t, p, kind, plan, Nothing)
<1>1. net' = net \cup {m} /\ m.project = p /\ m.plan = plan /\ m.answer = NoRecord
  BY Requests DEF Puts, Kinds
<1> HIDE DEF m
<1>2. \/ x = Given(server[q].plan)'
      \/ \E u \in Tabs : x = Given(live'[u][q].plan)
      \/ \E u \in Tabs : x = Given(local'[u][q])
      \/ \E r \in net' : r.project = q /\ x = r.plan
      \/ \E r \in net' : r.project = q /\ x = Given(r.answer.plan)
  BY DEF Everywhere
<1>3. server' = server
  BY DEF Puts
<1>4. CASE x = Given(server[q].plan)'
  BY <1>3, <1>4 DEF Everywhere
<1>5. ASSUME NEW u \in Tabs, x = Given(live'[u][q].plan) \/ x = Given(local'[u][q])
      PROVE  x \in Everywhere(q) \/ x = Empty \/ (q = p /\ x = plan)
  <2>1. CASE ~(u = t /\ q = p)
    <3>1. live'[u][q] = live[u][q] /\ local'[u][q] = local[u][q]
      BY <2>1, PutsCopies
    <3> QED BY <3>1, <1>5 DEF Everywhere
  <2>2. CASE u = t /\ q = p
    <3>1. live'[t][p].plan = plan /\ local'[t][p] \in {plan, Nothing}
      BY PutsCopies
    <3>2. Given(plan) = plan /\ Given(Nothing) = Empty
      BY PlanFacts DEF Given
    <3> QED BY <3>1, <3>2, <2>2, <1>5
  <2> QED BY <2>1, <2>2
<1>6. ASSUME NEW r \in net', r.project = q, x = r.plan \/ x = Given(r.answer.plan)
      PROVE  x \in Everywhere(q) \/ x = Empty \/ (q = p /\ x = plan)
  <2>1. CASE r \in net
    BY <2>1, <1>6 DEF Everywhere
  <2>2. CASE r = m
    BY <2>2, <1>1, <1>6, NoRecordRow
  <2> QED BY <2>1, <2>2, <1>1
<1> QED BY <1>2, <1>4, <1>5, <1>6

LEMMA PutsTypes ==
    ASSUME Types, NEW t \in Tabs, NEW p \in Projects, NEW kind \in {"plan", "reset"},
           NEW plan \in Plan, Puts(t, p, kind, plan), DOMAIN plan \subseteq IdsOf(p),
           \A u \in Tabs : ~Open(u) => import'[u] = import[u], Jobs'
    PROVE  Types'
<1> DEFINE m == Message1(t, p, kind, plan, Nothing)
<1>1. /\ net' = net \cup {m} /\ m.tab = t
      /\ net' \in SUBSET Message /\ Numbered' /\ clashed' \in BOOLEAN /\ mixed' \in SUBSET Projects
  BY Requests DEF Puts, Kinds
<1> HIDE DEF m
<1>2. UNCHANGED <<server, page, first, last>> /\ used' \in Counters /\ strayed' \in BOOLEAN
  BY DEF Puts, Types, States
<1>3. States'
  BY <1>1, <1>2, PutsCopies DEF Types, States
<1>4. Shut'
  <2> SUFFICES ASSUME NEW u \in Tabs, ~Open(u)'
               PROVE  /\ \A q \in Projects : local'[u][q] = Nothing
                      /\ import'[u] = NoImport
                      /\ \A r \in net' : r.tab # u
    BY DEF Shut
  <2>1. ~Open(u)
    BY <1>2 DEF Open
  <2>2. u # t
    BY <2>1 DEF Puts
  <2>3. \A q \in Projects : local'[u][q] = local[u][q]
    BY <2>2, PutsCopies
  <2> QED BY <1>1, <2>1, <2>2, <2>3 DEF Types, Shut
<1>5. Own'
  <2>1. ASSUME NEW q \in Projects, NEW x \in Everywhere(q)' PROVE DOMAIN x \subseteq IdsOf(q)
    <3>1. x \in Everywhere(q) \/ x = Empty \/ (q = p /\ x = plan)
      BY PutsSources
    <3> QED BY <3>1, EmptyPlan DEF Types, Own
  <2>2. first' = first
    BY <1>2
  <2> QED BY <2>1, <2>2 DEF Types, Own
<1> QED BY <1>1, <1>3, <1>4, <1>5 DEF Types

\* The plans of a step that stores and shows nothing new.
Calm == \A q \in Projects : \A x \in Everywhere(q)' : x \in Everywhere(q) \/ x = Empty

LEMMA CalmTypes ==
    ASSUME Types, Calm, States', Numbered', Shut', Jobs',
           \A q \in Projects, t \in Tabs :
              first'[t][q] \in {first[t][q], server[q], NoRecord}
    PROVE  Types'
<1>1. ASSUME NEW q \in Projects, NEW x \in Everywhere(q)' PROVE DOMAIN x \subseteq IdsOf(q)
  BY EmptyPlan DEF Types, Own, Calm
<1>2. ASSUME NEW q \in Projects, NEW t \in Tabs
      PROVE  DOMAIN Given(first'[t][q].plan) \subseteq IdsOf(q)
  <2>1. Given(server[q].plan) \in Everywhere(q)
    BY DEF Everywhere
  <2>2. CASE first'[t][q] = first[t][q]
    BY <2>2 DEF Types, Own
  <2>3. CASE first'[t][q] = server[q]
    BY <2>1, <2>3 DEF Types, Own
  <2>4. CASE first'[t][q] = NoRecord
    BY <2>4, NoRecordRow, EmptyPlan
  <2> QED BY <2>2, <2>3, <2>4
<1> QED BY <1>1, <1>2 DEF Types, Own

\* Where the plans of a project are.
LEMMA Places ==
    ASSUME NEW q \in Projects, NEW x
    PROVE  /\ x \in Everywhere(q) <=>
                \/ x = Given(server[q].plan)
                \/ \E u \in Tabs : x = Given(live[u][q].plan)
                \/ \E u \in Tabs : x = Given(local[u][q])
                \/ \E r \in net : r.project = q /\ x = r.plan
                \/ \E r \in net : r.project = q /\ x = Given(r.answer.plan)
           /\ x \in Everywhere(q)' <=>
                \/ x = Given(server'[q].plan)
                \/ \E u \in Tabs : x = Given(live'[u][q].plan)
                \/ \E u \in Tabs : x = Given(local'[u][q])
                \/ \E r \in net' : r.project = q /\ x = r.plan
                \/ \E r \in net' : r.project = q /\ x = Given(r.answer.plan)
  BY DEF Everywhere

\* A step is calm when it only moves plans of a project about.
LEMMA CalmMoves ==
    ASSUME \A q \in Projects : server'[q].plan = server[q].plan \/
               \E r \in net : r.project = q /\ server'[q].plan = r.plan,
           \A q \in Projects, u \in Tabs :
               live'[u][q].plan \in {live[u][q].plan, server[q].plan, Nothing} \/
               \E r \in net : r.project = q /\ live'[u][q].plan = r.answer.plan,
           \A q \in Projects, u \in Tabs : local'[u][q] \in {local[u][q], Nothing},
           \A s \in net' : \/ s.plan = Empty /\ s.answer.plan = Nothing
                           \/ \E r \in net : /\ r.project = s.project /\ r.plan = s.plan
                                             /\ s.answer.plan \in
                                                  {r.answer.plan, r.plan, server[s.project].plan},
           Types
    PROVE  Calm
<1> SUFFICES ASSUME NEW q \in Projects, NEW x \in Everywhere(q)'
             PROVE  x \in Everywhere(q) \/ x = Empty
  BY DEF Calm
<1>1. \A r \in net : r.plan \in Plan /\ r.answer.plan \in Plan \cup {Nothing}
  BY DEF Types, States, Message, Row
<1>2. ASSUME NEW r \in net, r.project = q
      PROVE  Given(r.plan) \in Everywhere(q) /\ Given(r.answer.plan) \in Everywhere(q)
             /\ r.plan \in Everywhere(q)
  <2>1. Given(r.plan) = r.plan
    BY <1>1, PlanFacts
  <2> QED BY <1>2, <2>1, Places
<1>3. Given(server[q].plan) \in Everywhere(q)
      /\ \A u \in Tabs : Given(live[u][q].plan) \in Everywhere(q) /\ Given(local[u][q]) \in Everywhere(q)
  BY DEF Everywhere
<1>4. Given(Nothing) = Empty
  BY DEF Given
<1>5. CASE x = Given(server'[q].plan)
  BY <1>2, <1>3, <1>5
<1>6. ASSUME NEW u \in Tabs, x = Given(live'[u][q].plan) PROVE x \in Everywhere(q) \/ x = Empty
  BY <1>2, <1>3, <1>4, <1>6
<1>7. ASSUME NEW u \in Tabs, x = Given(local'[u][q]) PROVE x \in Everywhere(q) \/ x = Empty
  BY <1>3, <1>4, <1>7
<1>8. ASSUME NEW s \in net', s.project = q, x = s.plan \/ x = Given(s.answer.plan)
      PROVE  x \in Everywhere(q) \/ x = Empty
  <2>1. CASE s.plan = Empty /\ s.answer.plan = Nothing
    BY <1>4, <1>8, <2>1
  <2>2. CASE \E r \in net : /\ r.project = s.project /\ r.plan = s.plan
                            /\ s.answer.plan \in {r.answer.plan, r.plan, server[s.project].plan}
    <3>1. PICK r \in net : /\ r.project = s.project /\ r.plan = s.plan
                           /\ s.answer.plan \in {r.answer.plan, r.plan, server[s.project].plan}
      BY <2>2
    <3>2. r.project = q
      BY <3>1, <1>8
    <3>3. Given(r.plan) \in Everywhere(q) /\ Given(r.answer.plan) \in Everywhere(q)
             /\ r.plan \in Everywhere(q)
      BY <1>2, <3>2
    <3>4. server[s.project] = server[q]
      BY <1>8
    <3> QED BY <1>3, <1>8, <3>1, <3>3, <3>4
  <2> QED BY <2>1, <2>2
<1> QED BY <1>5, <1>6, <1>7, <1>8, Places

---------------------------------------------------------------------------
(* Types: the steps that save nothing *)

\* A tab shows a wave.
PutsWave(t, p, w) == live' = [live EXCEPT ![t][p].wave = w]

LEMMA AssignCopies ==
    ASSUME Types, NEW t \in Tabs, NEW p \in Projects, NEW w \in Waves \cup {Nothing},
           PutsWave(t, p, w)
    PROVE  /\ live' \in [Tabs -> [Projects -> Row]]
           /\ \A u \in Tabs, q \in Projects :
                /\ live'[u][q].plan = live[u][q].plan
                /\ ~(u = t /\ q = p) => live'[u][q] = live[u][q]
           /\ live'[t][p].wave = w
<1>1. live \in [Tabs -> [Projects -> Row]]
  BY DEF Types, States
<1> DEFINE y == [live[t][p] EXCEPT !.wave = w]
<1>2. y \in Row /\ y.plan = live[t][p].plan /\ y.wave = w
  <2>1. live[t][p] \in Row
    BY <1>1
  <2> QED BY <2>1, RowWithWave
<1>3. live' = [live EXCEPT ![t] = [@ EXCEPT ![p] = y]]
  BY <1>1 DEF PutsWave
<1> HIDE DEF y
<1>4. live' \in [Tabs -> [Projects -> Row]]
  BY <1>1, <1>2, <1>3
<1>5. \A u \in Tabs, q \in Projects : ~(u = t /\ q = p) => live'[u][q] = live[u][q]
  BY <1>1, <1>3
<1>6. live'[t][p] = y
  BY <1>1, <1>3
<1> QED BY <1>2, <1>4, <1>5, <1>6

\* The parts of an assignment that the lemmas below need.
Assigns(t, p, w) ==
    /\ Open(t)
    /\ PutsWave(t, p, w)
    /\ Request(t, p, "wave", Empty, w)
    /\ used' \in Counters /\ used'.sends = used.sends + 1
    /\ UNCHANGED <<server, page, first, local, import, last, strayed>>

LEMMA AssignTypes ==
    ASSUME Types, NEW t \in Tabs, NEW p \in Projects, NEW w \in Waves \cup {Nothing},
           Assigns(t, p, w)
    PROVE  Types' /\ Calm
<1> DEFINE m == Message1(t, p, "wave", Empty, w)
<1>1. /\ net' = net \cup {m} /\ m.tab = t /\ m.plan = Empty /\ m.answer = NoRecord
      /\ net' \in SUBSET Message /\ Numbered' /\ clashed' \in BOOLEAN /\ mixed' \in SUBSET Projects
  BY Requests, EmptyPlan DEF Assigns, Kinds
<1> HIDE DEF m
<1>2. UNCHANGED <<server, page, first, local, import, last, strayed>> /\ used' \in Counters
  BY DEF Assigns
<1>3. PutsWave(t, p, w)
  BY DEF Assigns
<1>4. live' \in [Tabs -> [Projects -> Row]]
      /\ \A u \in Tabs, q \in Projects : live'[u][q].plan = live[u][q].plan
  BY <1>3, AssignCopies
<1>5. States'
  BY <1>1, <1>2, <1>4 DEF Types, States
<1>6. Shut'
  <2>1. Open(t)
    BY DEF Assigns
  <2> QED BY <1>1, <1>2, <2>1 DEF Types, Shut, Open
<1>7. Jobs'
  BY <1>2 DEF Types, Jobs
<1>8. Calm
  <2>1. m.answer.plan = Nothing
    BY <1>1 DEF NoRecord
  <2>2. \A s \in net' : \/ s.plan = Empty /\ s.answer.plan = Nothing
                        \/ \E r \in net : /\ r.project = s.project /\ r.plan = s.plan
                                          /\ s.answer.plan \in
                                                {r.answer.plan, r.plan, server[s.project].plan}
    BY <1>1, <2>1
  <2> QED BY <1>2, <1>4, <2>2, CalmMoves
<1>9. \A q \in Projects, u \in Tabs : first'[u][q] \in {first[u][q], server[q], NoRecord}
  BY <1>2
<1> QED BY <1>1, <1>5, <1>6, <1>7, <1>8, <1>9, CalmTypes

LEMMA OpenPageTypes ==
    ASSUME Types, NEW t \in Tabs, OpenPage(t)
    PROVE  Types' /\ Calm
<1>1. /\ page[t] = "closed" /\ page' = [page EXCEPT ![t] = "loading"]
      /\ live' = [live EXCEPT ![t] = server] /\ first' = [first EXCEPT ![t] = server]
      /\ used' = [used EXCEPT !.opens = @ + 1]
      /\ UNCHANGED <<server, local, import, net, spent, last, clashed, strayed, mixed>>
  BY DEF OpenPage
<1>2. used' \in Counters /\ used'.sends = used.sends
  BY <1>1 DEF Types, States, Counters
<1>3. page' \in [Tabs -> {"closed", "loading", "open"}]
      /\ live' \in [Tabs -> [Projects -> Row]] /\ first' \in [Tabs -> [Projects -> Row]]
  BY <1>1 DEF Types, States
<1>4. States'
  BY <1>1, <1>2, <1>3 DEF Types, States
<1>5. \A u \in Tabs : Open(u)' <=> Open(u)
  BY <1>1 DEF Types, States, Open
<1>6. Shut'
  BY <1>1, <1>5 DEF Types, Shut
<1>7. Jobs' /\ Numbered'
  BY <1>1, <1>2 DEF Types, Jobs, Numbered
<1>8. \A u \in Tabs, q \in Projects : live'[u][q] \in {live[u][q], server[q]}
                                      /\ first'[u][q] \in {first[u][q], server[q]}
  BY <1>1 DEF Types, States
<1>9. Calm
  BY <1>1, <1>8, CalmMoves
<1> QED BY <1>4, <1>6, <1>7, <1>8, <1>9, CalmTypes

LEMMA ArriveTypes ==
    ASSUME Types, NEW t \in Tabs, Arrive(t)
    PROVE  Types' /\ Calm
<1>1. /\ page[t] = "loading" /\ page' = [page EXCEPT ![t] = "open"]
      /\ UNCHANGED <<server, live, first, local, import, net, used, spent, last, clashed,
                     strayed, mixed>>
  BY DEF Arrive
<1>2. States'
  BY <1>1 DEF Types, States
<1>3. \A u \in Tabs : Open(u) => Open(u)'
  BY <1>1 DEF Types, States, Open
<1>4. Shut'
  BY <1>1, <1>3 DEF Types, Shut
<1>5. Jobs' /\ Numbered'
  BY <1>1 DEF Types, Jobs, Numbered
<1>6. Calm
  BY <1>1, CalmMoves
<1> QED BY <1>1, <1>2, <1>4, <1>5, <1>6, CalmTypes

\* A request goes on when its tab is left.
Left(t, r) == IF r.tab = t THEN [r EXCEPT !.tab = Nothing] ELSE r

LEMMA LeftFields ==
    ASSUME NEW t, NEW r \in Message
    PROVE  /\ Left(t, r) \in Message
           /\ Left(t, r).id = r.id /\ Left(t, r).project = r.project /\ Left(t, r).kind = r.kind
           /\ Left(t, r).plan = r.plan /\ Left(t, r).wave = r.wave /\ Left(t, r).at = r.at
           /\ Left(t, r).answer = r.answer
           /\ Left(t, r).tab = IF r.tab = t THEN Nothing ELSE r.tab
<1>1. CASE r.tab = t
  <2>1. Left(t, r) = [r EXCEPT !.tab = Nothing]
    BY <1>1 DEF Left
  <2> QED BY <1>1, <2>1 DEF Message
<1>2. CASE r.tab # t
  BY <1>2 DEF Left
<1> QED BY <1>1, <1>2

LEMMA LeaveEffects ==
    ASSUME Types, NEW t \in Tabs, Leave(t)
    PROVE  /\ net' = {Left(t, r) : r \in net} /\ net' \in SUBSET Message
           /\ page' = [page EXCEPT ![t] = "closed"]
           /\ \A u \in Tabs, q \in Projects :
                /\ u # t => live'[u][q] = live[u][q] /\ local'[u][q] = local[u][q]
                            /\ Shown(u, q)' = Shown(u, q) /\ import'[u] = import[u]
                /\ live'[t][q] = NoRecord /\ local'[t][q] = Nothing
           /\ import'[t] = NoImport
           /\ UNCHANGED <<server, last, clashed, mixed, used>>
           /\ live' \in [Tabs -> [Projects -> Row]]
           /\ local' \in [Tabs -> [Projects -> Plan \cup {Nothing}]]
<1>1. /\ live' = [live EXCEPT ![t] = [p \in Projects |-> NoRecord]]
      /\ local' = [local EXCEPT ![t] = [p \in Projects |-> Nothing]]
      /\ import' = [import EXCEPT ![t] = NoImport]
      /\ net' = {IF r.tab = t THEN [r EXCEPT !.tab = Nothing] ELSE r : r \in net}
      /\ page' = [page EXCEPT ![t] = "closed"]
      /\ UNCHANGED <<server, used, spent, last, clashed, mixed>>
  BY DEF Leave
<1>2. net' = {Left(t, r) : r \in net}
  BY <1>1 DEF Left
<1>3. net' \in SUBSET Message
  BY <1>2, LeftFields DEF Types, States
<1>4. live' \in [Tabs -> [Projects -> Row]] /\ local' \in [Tabs -> [Projects -> Plan \cup {Nothing}]]
  BY <1>1, NoRecordRow DEF Types, States
<1>5. \A u \in Tabs, q \in Projects :
        /\ u # t => live'[u][q] = live[u][q] /\ local'[u][q] = local[u][q]
                    /\ import'[u] = import[u]
        /\ live'[t][q] = NoRecord /\ local'[t][q] = Nothing
  BY <1>1 DEF Types, States, Jobs
<1>6. import'[t] = NoImport
  BY <1>1 DEF Types, Jobs
<1>7. \A u \in Tabs, q \in Projects : u # t => Shown(u, q)' = Shown(u, q)
  BY <1>5 DEF Shown
<1> QED BY <1>1, <1>2, <1>3, <1>4, <1>5, <1>6, <1>7

LEMMA LeaveTypes ==
    ASSUME Types, NEW t \in Tabs, Leave(t)
    PROVE  Types' /\ Calm
<1>1. /\ net' = {Left(t, r) : r \in net} /\ net' \in SUBSET Message
      /\ page' = [page EXCEPT ![t] = "closed"]
      /\ live' \in [Tabs -> [Projects -> Row]] /\ local' \in [Tabs -> [Projects -> Plan \cup {Nothing}]]
      /\ UNCHANGED <<server, last, clashed, mixed, used>>
      /\ import'[t] = NoImport
  BY LeaveEffects
<1>2. \A r \in net : r \in Message
  BY DEF Types, States
<1>3. first' = [first EXCEPT ![t] = [p \in Projects |-> NoRecord]] /\ strayed' \in BOOLEAN
  BY DEF Leave, Types, States
<1>4. first' \in [Tabs -> [Projects -> Row]]
      /\ \A u \in Tabs, q \in Projects : first'[u][q] \in {first[u][q], server[q], NoRecord}
  BY <1>3, NoRecordRow DEF Types, States
<1>5. page' \in [Tabs -> {"closed", "loading", "open"}]
  BY <1>1 DEF Types, States
<1>6. States'
  BY <1>1, <1>3, <1>4, <1>5 DEF Types, States
<1>7. Numbered'
  <2>1. ASSUME NEW r \in net, NEW s \in net, Left(t, r).id = Left(t, s).id
        PROVE  Left(t, r) = Left(t, s)
    BY <2>1, <1>2, LeftFields DEF Types, Numbered
  <2>2. \A r \in net : Left(t, r).id =< used'.sends
    BY <1>1, <1>2, LeftFields DEF Types, Numbered
  <2> QED BY <1>1, <2>1, <2>2 DEF Numbered
<1>8. Shut'
  <2> SUFFICES ASSUME NEW u \in Tabs, ~Open(u)'
               PROVE  /\ \A q \in Projects : local'[u][q] = Nothing
                      /\ import'[u] = NoImport
                      /\ \A r \in net' : r.tab # u
    BY DEF Shut
  <2>0. Nothing \notin Tabs
    BY PlanningAssumption
  <2>1. CASE u = t
    <3>1. \A r \in net : Left(t, r).tab # t
      BY <1>2, <2>0, LeftFields
    <3> QED BY <1>1, <2>1, <3>1, LeaveEffects
  <2>2. CASE u # t
    <3>1. ~Open(u)
      BY <1>1, <2>2 DEF Open, Types, States
    <3>2. \A r \in net : r.tab # u
      BY <3>1 DEF Types, Shut
    <3>3. \A r \in net : Left(t, r).tab # u
      BY <1>2, <2>0, <3>2, LeftFields
    <3>4. \A q \in Projects : local'[u][q] = local[u][q]
      BY <2>2, LeaveEffects
    <3>5. import'[u] = import[u]
      BY <2>2 DEF Leave, Types, Jobs
    <3> QED BY <1>1, <3>1, <3>3, <3>4, <3>5 DEF Types, Shut
  <2> QED BY <2>1, <2>2
<1>9. Jobs'
  <2>1. import' = [import EXCEPT ![t] = NoImport]
    BY DEF Leave
  <2> QED BY <2>1, NoImportIsJob DEF Types, Jobs
<1>10. Calm
  <2>1. \A s \in net' : \E r \in net : /\ r.project = s.project /\ r.plan = s.plan
                                       /\ s.answer.plan \in {r.answer.plan, r.plan, server[s.project].plan}
    BY <1>1, <1>2, LeftFields
  <2>2. \A q \in Projects, u \in Tabs : /\ live'[u][q].plan \in {live[u][q].plan, server[q].plan, Nothing}
                                        /\ local'[u][q] \in {local[u][q], Nothing}
    BY LeaveEffects DEF NoRecord
  <2> QED BY <1>1, <2>1, <2>2, CalmMoves
<1> QED BY <1>4, <1>6, <1>7, <1>8, <1>9, <1>10, CalmTypes

\* A request as it has been served.
RowOf(r) == IF r.kind = "wave" THEN [server[r.project] EXCEPT !.wave = r.wave]
                               ELSE [server[r.project] EXCEPT !.plan = r.plan]
ServedAs(r) == [r EXCEPT !.at = "served", !.answer = RowOf(r)]

LEMMA ServeEffects ==
    ASSUME Types, NEW r \in net, Serve(r)
    PROVE  LET s == ServedAs(r) IN
           /\ r.at = "sent" /\ r.project \in Projects
           /\ net' = (net \ {r}) \cup {s} /\ net' \in SUBSET Message
           /\ s.id = r.id /\ s.tab = r.tab /\ s.project = r.project /\ s.kind = r.kind
           /\ s.plan = r.plan /\ s.wave = r.wave /\ s.at = "served"
           /\ s.answer = server'[r.project]
           /\ server' \in [Projects -> Row]
           /\ \A q \in Projects : q # r.project => server'[q] = server[q]
           /\ r.kind = "wave" => /\ server'[r.project].plan = server[r.project].plan
                                 /\ server'[r.project].wave = r.wave
           /\ r.kind # "wave" => /\ server'[r.project].plan = r.plan
                                 /\ server'[r.project].wave = server[r.project].wave
           /\ UNCHANGED <<page, live, first, local, import, used, clashed, mixed>>
           /\ \A u \in Tabs, q \in Projects : Shown(u, q)' = Shown(u, q)
<1> DEFINE p == r.project
           row == RowOf(r)
           s == ServedAs(r)
<1>1. r \in Message /\ p \in Projects /\ server \in [Projects -> Row]
  BY DEF Types, States, Message
<1>2. /\ r.at = "sent" /\ server' = [server EXCEPT ![p] = row]
      /\ net' = (net \ {r}) \cup {s}
      /\ UNCHANGED <<page, live, first, local, import, used, clashed, mixed>>
  BY DEF Serve, RowOf, ServedAs
<1>3. /\ row \in Row
      /\ r.kind = "wave" => row.plan = server[p].plan /\ row.wave = r.wave
      /\ r.kind # "wave" => row.plan = r.plan /\ row.wave = server[p].wave
  <2>1. server[p] \in Row /\ r.plan \in Plan /\ r.wave \in Waves \cup {Nothing}
    BY <1>1 DEF Message
  <2>2. CASE r.kind = "wave"
    <3>1. row = [server[p] EXCEPT !.wave = r.wave]
      BY <2>2 DEF RowOf
    <3> QED BY <2>1, <2>2, <3>1, RowWithWave
  <2>3. CASE r.kind # "wave"
    <3>1. row = [server[p] EXCEPT !.plan = r.plan]
      BY <2>3 DEF RowOf
    <3> QED BY <2>1, <2>3, <3>1, RowWithPlan
  <2> QED BY <2>2, <2>3
<1> HIDE DEF row
<1>4. /\ s \in Message /\ s.id = r.id /\ s.tab = r.tab /\ s.project = r.project /\ s.kind = r.kind
      /\ s.plan = r.plan /\ s.wave = r.wave /\ s.at = "served" /\ s.answer = row
  <2>1. s = [r EXCEPT !.at = "served", !.answer = row]
    BY DEF ServedAs, row
  <2> QED BY <1>1, <1>3, <2>1 DEF Message
<1> HIDE DEF s
<1>5. server' \in [Projects -> Row] /\ server'[p] = row
      /\ \A q \in Projects : q # p => server'[q] = server[q]
  BY <1>1, <1>2, <1>3
<1>6. \A u \in Tabs, q \in Projects : Shown(u, q)' = Shown(u, q)
  BY <1>2 DEF Shown
<1>7. net' \in SUBSET Message
  BY <1>2, <1>4 DEF Types, States
<1>8. s.answer = server'[p]
  BY <1>4, <1>5
<1> HIDE DEF p
<1>9. /\ r.kind = "wave" => server'[p].plan = server[p].plan /\ server'[p].wave = r.wave
      /\ r.kind # "wave" => server'[p].plan = r.plan /\ server'[p].wave = server[p].wave
  BY <1>3, <1>5
<1> QED BY <1>1, <1>2, <1>4, <1>5, <1>6, <1>7, <1>8, <1>9 DEF p, s

LEMMA ServeTypes ==
    ASSUME Types, NEW r \in net, Serve(r)
    PROVE  Types' /\ Calm
<1> DEFINE s == ServedAs(r)
<1>1. /\ net' = (net \ {r}) \cup {s} /\ net' \in SUBSET Message
      /\ s.id = r.id /\ s.tab = r.tab /\ s.project = r.project /\ s.plan = r.plan
      /\ s.answer = server'[r.project] /\ r.project \in Projects
      /\ server' \in [Projects -> Row]
      /\ \A q \in Projects : q # r.project => server'[q] = server[q]
      /\ server'[r.project].plan \in {server[r.project].plan, r.plan}
      /\ UNCHANGED <<page, live, first, local, import, used, clashed, mixed>>
  BY ServeEffects
<1> HIDE DEF s
<1>2. strayed' \in BOOLEAN
  BY DEF Serve, Types, States
<1>3. last' \in [Projects -> Writers]
  <2> DEFINE old == last[r.project]
             w == IF r.kind = "wave" THEN [old EXCEPT !.wave = r.tab]
                                     ELSE [old EXCEPT !.plan = r.tab]
  <2>1. last' = [last EXCEPT ![r.project] = w]
    BY DEF Serve
  <2>2. old \in Writers /\ r.tab \in Tabs \cup {Nothing}
    BY <1>1 DEF Types, States, Message
  <2> HIDE DEF old
  <2>3. w \in Writers
    BY <2>2 DEF Writers
  <2> HIDE DEF w
  <2> QED BY <2>1, <2>3 DEF Types, States
<1>4. States'
  BY <1>1, <1>2, <1>3 DEF Types, States
<1>5. Numbered'
  BY <1>1 DEF Types, Numbered
<1>6. Shut'
  BY <1>1 DEF Types, Shut, Open
<1>7. Jobs'
  BY <1>1 DEF Types, Jobs
<1>8. Calm
  <2>1. \A x \in net' : \E y \in net : /\ y.project = x.project /\ y.plan = x.plan
                                       /\ x.answer.plan \in {y.answer.plan, y.plan, server[x.project].plan}
    <3> TAKE x \in net'
    <3>1. CASE x \in net
      BY <3>1
    <3>2. CASE x = s
      BY <1>1, <3>2
    <3> QED BY <1>1, <3>1, <3>2
  <2>2. \A q \in Projects : server'[q].plan = server[q].plan \/
             \E y \in net : y.project = q /\ server'[q].plan = y.plan
    BY <1>1
  <2> QED BY <1>1, <2>1, <2>2, CalmMoves
<1>9. \A q \in Projects, u \in Tabs : first'[u][q] \in {first[u][q], server[q], NoRecord}
  BY <1>1
<1> QED BY <1>4, <1>5, <1>6, <1>7, <1>8, <1>9, CalmTypes

\* The import that a request was for goes on or ends.
LEMMA GoesOn ==
    ASSUME Jobs, NEW r, ImportGoesOn(r)
    PROVE  /\ Jobs'
           /\ \A u \in Tabs :
                /\ import[u] = NoImport /\ r.id # 0 => import'[u] = NoImport
                /\ import[u].plans # <<>> \/ import'[u].plans # <<>> =>
                      import'[u].plans = import[u].plans /\ import'[u].map = import[u].map
<1>1. ASSUME NEW u \in Tabs
      PROVE  /\ Job(import'[u])
             /\ import[u] = NoImport /\ r.id # 0 => import'[u] = NoImport
             /\ import[u].plans # <<>> \/ import'[u].plans # <<>> =>
                   import'[u].plans = import[u].plans /\ import'[u].map = import[u].map
  <2> DEFINE at == import[u]
  <2>1. import'[u] = IF at.wait # r.id THEN at ELSE IF at.plans = <<>> THEN NoImport
                     ELSE [at EXCEPT !.wait = 0]
    BY DEF ImportGoesOn
  <2>2. Job(at)
    BY DEF Jobs
  <2>3. NoImport.wait = 0 /\ NoImport.plans = <<>>
    BY DEF NoImport
  <2> HIDE DEF at
  <2>4. CASE at.wait # r.id
    BY <2>1, <2>2, <2>4 DEF at
  <2>5. CASE at.wait = r.id /\ at.plans = <<>>
    BY <2>1, <2>3, <2>5, NoImportIsJob DEF at
  <2>6. CASE at.wait = r.id /\ at.plans # <<>>
    <3>1. at = [map |-> at.map, deps |-> at.deps, plans |-> at.plans, wait |-> at.wait]
      BY <2>2 DEF Job
    <3>2. import'[u] = [at EXCEPT !.wait = 0]
      BY <2>1, <2>6
    <3>3. import'[u] = [map |-> at.map, deps |-> at.deps, plans |-> at.plans, wait |-> 0]
      BY <3>1, <3>2
    <3>4. import'[u].map = at.map /\ import'[u].plans = at.plans
          /\ import'[u] = [map |-> import'[u].map, deps |-> import'[u].deps,
                           plans |-> import'[u].plans, wait |-> import'[u].wait]
      BY <3>3
    <3>5. Job(import'[u])
      BY <2>2, <3>4 DEF Job
    <3> QED BY <2>3, <2>6, <3>4, <3>5 DEF at
  <2> QED BY <2>4, <2>5, <2>6
<1>2. import' = [u \in Tabs |-> import'[u]]
  BY DEF ImportGoesOn
<1> QED BY <1>1, <1>2 DEF Jobs

LEMMA ReplyEffects ==
    ASSUME Types, NEW r \in net, Reply(r)
    PROVE  /\ r \in Message /\ r.at = "served" /\ r.id # 0 /\ net' = net \ {r}
           /\ live' \in [Tabs -> [Projects -> Row]]
           /\ \A u \in Tabs, q \in Projects :
                live'[u][q] = IF u = r.tab /\ q = r.project /\ r.kind # "wave" THEN r.answer
                              ELSE live[u][q]
           /\ ImportGoesOn(r)
           /\ UNCHANGED <<server, page, first, local, used, last, clashed, mixed>>
           /\ strayed' = (strayed \/ ShowsOlder(r))
<1>1. r \in Message /\ live \in [Tabs -> [Projects -> Row]]
  BY DEF Types, States
<1>2. r.id # 0 /\ r.answer \in Row /\ r.tab \in Tabs \cup {Nothing} /\ r.project \in Projects
  BY <1>1 DEF Message
<1>3. Nothing \notin Tabs
  BY PlanningAssumption
<1>4. live' = IF r.tab = Nothing \/ r.kind = "wave" THEN live
              ELSE [live EXCEPT ![r.tab][r.project] = r.answer]
  BY DEF Reply
<1>5. live' \in [Tabs -> [Projects -> Row]]
      /\ \A u \in Tabs, q \in Projects :
                live'[u][q] = IF u = r.tab /\ q = r.project /\ r.kind # "wave" THEN r.answer
                              ELSE live[u][q]
  BY <1>1, <1>2, <1>3, <1>4
<1> QED BY <1>1, <1>2, <1>5 DEF Reply

LEMMA FailEffects ==
    ASSUME Types, NEW r \in net, Fail(r)
    PROVE  /\ r \in Message /\ r.id # 0 /\ net' = net \ {r}
           /\ live' \in [Tabs -> [Projects -> Row]]
           /\ local' \in [Tabs -> [Projects -> Plan \cup {Nothing}]]
           /\ \A u \in Tabs, q \in Projects :
                /\ live'[u][q].plan = live[u][q].plan
                /\ local'[u][q] \in {local[u][q], Nothing}
                /\ q # r.project => live'[u][q] = live[u][q] /\ local'[u][q] = local[u][q]
           /\ ImportGoesOn(r) /\ strayed' = TRUE /\ mixed' = mixed \cup {r.project}
           /\ UNCHANGED <<server, page, first, last, clashed>>
           /\ used' \in Counters /\ used'.sends = used.sends
<1>1. r \in Message /\ live \in [Tabs -> [Projects -> Row]]
      /\ local \in [Tabs -> [Projects -> Plan \cup {Nothing}]]
  BY DEF Types, States
<1>2. r.id # 0 /\ r.tab \in Tabs \cup {Nothing} /\ r.project \in Projects
  BY <1>1 DEF Message
<1>3. Nothing \notin Tabs
  BY PlanningAssumption
<1>4. local' = IF r.tab = Nothing \/ r.kind # "plan" THEN local
               ELSE [local EXCEPT ![r.tab][r.project] = Nothing]
  BY DEF Fail
<1>5. local' \in [Tabs -> [Projects -> Plan \cup {Nothing}]]
      /\ \A u \in Tabs, q \in Projects :
           /\ local'[u][q] \in {local[u][q], Nothing}
           /\ q # r.project => local'[u][q] = local[u][q]
  BY <1>1, <1>2, <1>4
<1>6. live' \in [Tabs -> [Projects -> Row]]
      /\ \A u \in Tabs, q \in Projects :
           /\ live'[u][q].plan = live[u][q].plan
           /\ q # r.project => live'[u][q] = live[u][q]
  <2>1. CASE r.tab = Nothing \/ r.kind # "wave"
    <3>1. live' = live
      BY <2>1 DEF Fail
    <3> QED BY <1>1, <3>1
  <2>2. CASE ~(r.tab = Nothing \/ r.kind # "wave")
    <3>1. r.tab \in Tabs
      BY <1>2, <2>2
    <3>2. first[r.tab][r.project] \in Row
      BY <1>2, <3>1 DEF Types, States
    <3>3. first[r.tab][r.project].wave \in Waves \cup {Nothing}
      BY <3>2 DEF Row
    <3>4. live' = [live EXCEPT ![r.tab][r.project].wave = first[r.tab][r.project].wave]
      BY <2>2 DEF Fail
    <3> DEFINE t == r.tab
               p == r.project
               w == first[t][p].wave
    <3>5. t \in Tabs /\ p \in Projects /\ w \in Waves \cup {Nothing}
      BY <1>2, <3>1, <3>3
    <3>6. PutsWave(t, p, w)
      BY <3>4 DEF PutsWave
    <3> HIDE DEF t, p, w
    <3>7. live' \in [Tabs -> [Projects -> Row]]
          /\ \A u \in Tabs, q \in Projects :
                /\ live'[u][q].plan = live[u][q].plan
                /\ ~(u = t /\ q = p) => live'[u][q] = live[u][q]
      BY <3>5, <3>6, AssignCopies
    <3> QED BY <3>7 DEF p
  <2> QED BY <2>1, <2>2
<1>7. used' \in Counters /\ used'.sends = used.sends
  <2>1. used' = [used EXCEPT !.failures = @ + 1]
    BY DEF Fail
  <2>2. used \in Counters
    BY DEF Types, States
  <2> QED BY <2>1, <2>2 DEF Counters
<1> QED BY <1>1, <1>2, <1>5, <1>6, <1>7 DEF Fail

LEMMA AnswerTypes ==
    ASSUME Types, NEW r \in net, Reply(r) \/ Fail(r)
    PROVE  Types' /\ Calm
<1>1. /\ r \in Message /\ r.id # 0 /\ net' = net \ {r} /\ ImportGoesOn(r)
      /\ live' \in [Tabs -> [Projects -> Row]]
      /\ local' \in [Tabs -> [Projects -> Plan \cup {Nothing}]]
      /\ UNCHANGED <<server, page, first, last, clashed>>
      /\ used' \in Counters /\ used'.sends = used.sends
      /\ mixed' \in SUBSET Projects /\ strayed' \in BOOLEAN
  <2>1. CASE Reply(r)
    BY <2>1, ReplyEffects DEF Types, States
  <2>2. CASE Fail(r)
    <3>1. r \in Message
      BY DEF Types, States
    <3>2. r.project \in Projects
      BY <3>1 DEF Message
    <3>3. /\ r \in Message /\ r.id # 0 /\ net' = net \ {r} /\ ImportGoesOn(r)
          /\ live' \in [Tabs -> [Projects -> Row]]
          /\ local' \in [Tabs -> [Projects -> Plan \cup {Nothing}]]
          /\ UNCHANGED <<server, page, first, last, clashed>>
          /\ used' \in Counters /\ used'.sends = used.sends
          /\ mixed' = mixed \cup {r.project} /\ strayed' = TRUE
      BY <2>2, FailEffects
    <3>4. mixed' \in SUBSET Projects
      BY <3>2, <3>3 DEF Types, States
    <3> QED BY <3>3, <3>4
  <2> QED BY <2>1, <2>2
<1>2. \A q \in Projects, u \in Tabs :
        /\ \/ live'[u][q].plan = live[u][q].plan
           \/ r.project = q /\ live'[u][q].plan = r.answer.plan
        /\ local'[u][q] \in {local[u][q], Nothing}
  <2>1. CASE Reply(r)
    BY <2>1, ReplyEffects
  <2>2. CASE Fail(r)
    BY <2>2, FailEffects
  <2> QED BY <2>1, <2>2
<1>3. States'
  BY <1>1 DEF Types, States
<1>4. Numbered'
  BY <1>1 DEF Types, Numbered
<1>5. Jobs' /\ \A u \in Tabs : import[u] = NoImport => import'[u] = NoImport
  BY <1>1, GoesOn DEF Types
<1>6. Shut'
  BY <1>1, <1>2, <1>5 DEF Types, Shut, Open
<1>7. Calm
  BY <1>1, <1>2, CalmMoves
<1>8. \A q \in Projects, u \in Tabs : first'[u][q] \in {first[u][q], server[q], NoRecord}
  BY <1>1
<1> QED BY <1>3, <1>4, <1>5, <1>6, <1>7, <1>8, CalmTypes

---------------------------------------------------------------------------
(* Types: edits and imports *)

\* The plan that an edit leads to has at most one new dependency, and that one was
\* searched for a cycle.
Less(t, p, plan) ==
    \A i \in DOMAIN plan :
        plan[i] = {} \/ (i \in DOMAIN Shown(t, p) /\ plan[i] \subseteq Shown(t, p)[i])
OneMore(t, p, plan) ==
    \E from \in DOMAIN ShownMap(t), to \in DOMAIN Shown(t, p) :
        DagSafe(t, from, to) /\ plan = WithDep(Shown(t, p), from, to)
Edits(t, p) ==
    \/ AddPreset(t, p) \/ AddCustom(t, p) \/ DeleteMilestone(t, p)
    \/ AddDep(t, p) \/ RemoveDep(t, p) \/ Change(t, p) \/ ResetPlanning(t, p)

LEMMA ShownMapIds ==
    ASSUME Types, NEW t \in Tabs
    PROVE  DOMAIN ShownMap(t) \subseteq Ids
<1>1. DOMAIN ShownMap(t) = UNION {DOMAIN ShownPlans(t)[p] : p \in Projects}
  BY MergedDomain DEF ShownMap
<1>2. \A p \in Projects : DOMAIN ShownPlans(t)[p] \subseteq Ids
  BY ShownPlan DEF ShownPlans
<1> QED BY <1>1, <1>2

LEMMA WithDepPlan ==
    ASSUME NEW g \in Plan, NEW from \in Ids, NEW to \in DOMAIN g
    PROVE  WithDep(g, from, to) \in Plan /\ DOMAIN WithDep(g, from, to) = DOMAIN g
<1> DEFINE k == WithDep(g, from, to)
<1>1. DOMAIN g \subseteq Ids /\ g = [i \in DOMAIN g |-> g[i]] /\ \A i \in DOMAIN g : g[i] \subseteq Ids
  BY PlanFacts
<1>2. /\ DOMAIN k = DOMAIN g /\ k = [i \in DOMAIN k |-> k[i]]
      /\ \A i \in DOMAIN k : k[i] \subseteq Ids
  BY <1>1 DEF WithDep
<1> HIDE DEF k
<1>3. k \in Plan
  BY <1>1, <1>2, PlanMade
<1> QED BY <1>2, <1>3 DEF k

LEMMA AddedPlan ==
    ASSUME NEW g \in Plan, NEW i \in Ids
    PROVE  LET k == WithNew(g, {i}) IN
           /\ k \in Plan /\ DOMAIN k = DOMAIN g \cup {i}
           /\ \A j \in DOMAIN k : k[j] = {} \/ (j \in DOMAIN g /\ k[j] \subseteq g[j])
<1> DEFINE k == WithNew(g, {i})
<1>1. DOMAIN g \subseteq Ids /\ \A j \in DOMAIN g : g[j] \subseteq Ids
  BY PlanFacts
<1>2. k = [j \in {i} \cup DOMAIN g |-> IF j \in {i} THEN {} ELSE g[j]]
  BY DEF WithNew
<1>3. /\ DOMAIN k = DOMAIN g \cup {i} /\ k = [j \in DOMAIN k |-> k[j]]
      /\ \A j \in DOMAIN k : k[j] = {} \/ (j \in DOMAIN g /\ k[j] = g[j])
  BY <1>2
<1> HIDE DEF k
<1>4. k \in Plan
  BY <1>1, <1>3, PlanMade
<1> QED BY <1>3, <1>4 DEF k

LEMMA LessPlan ==
    ASSUME NEW g \in Plan, NEW k, DOMAIN k \subseteq DOMAIN g, k = [j \in DOMAIN k |-> k[j]],
           \A j \in DOMAIN k : k[j] \subseteq g[j]
    PROVE  k \in Plan
<1>1. DOMAIN g \subseteq Ids /\ \A j \in DOMAIN g : g[j] \subseteq Ids
  BY PlanFacts
<1>2. DOMAIN k \subseteq Ids /\ \A j \in DOMAIN k : k[j] \subseteq Ids
  BY <1>1
<1> QED BY <1>2, PlanMade

LEMMA Count1 ==
    ASSUME NEW u \in Counters
    PROVE  /\ [u EXCEPT !.edits = @ + 1, !.sends = @ + 1] \in Counters
           /\ [u EXCEPT !.edits = @ + 1, !.sends = @ + 1].sends = u.sends + 1
<1> DEFINE v == [u EXCEPT !.edits = @ + 1]
<1>1. v \in Counters /\ v.sends = u.sends
  BY DEF Counters
<1> HIDE DEF v
<1>2. [v EXCEPT !.sends = u.sends + 1] \in Counters /\ [v EXCEPT !.sends = u.sends + 1].sends = u.sends + 1
  BY <1>1 DEF Counters
<1> QED BY <1>2 DEF v

LEMMA EditPuts ==
    ASSUME Types, NEW t \in Tabs, NEW p \in Projects, NEW plan, Edit(t, p, plan)
    PROVE  Puts(t, p, "plan", plan) /\ UNCHANGED import
<1>1. Open(t) /\ Save(t, p, plan) /\ UNCHANGED import
      /\ used' = [used EXCEPT !.edits = @ + 1, !.sends = @ + 1]
  BY DEF Edit, MayEdit
<1>2. used \in Counters
  BY DEF Types, States
<1>3. used' \in Counters /\ used'.sends = used.sends + 1
  BY <1>1, <1>2, Count1
<1> QED BY <1>1, <1>3 DEF Save, Puts

LEMMA EditsPut ==
    ASSUME Types, NEW t \in Tabs, NEW p \in Projects, Edits(t, p)
    PROVE  /\ MayEdit(t) /\ UNCHANGED import
           /\ \E kind \in {"plan", "reset"}, plan \in Plan :
                /\ Puts(t, p, kind, plan) /\ DOMAIN plan \subseteq IdsOf(p)
                /\ Less(t, p, plan) \/ OneMore(t, p, plan)
<1> DEFINE g == Shown(t, p)
<1>1. g \in Plan /\ DOMAIN g \subseteq IdsOf(p) /\ DOMAIN g \subseteq Ids
      /\ g = [i \in DOMAIN g |-> g[i]]
  BY ShownPlan, PlanFacts
<1>2. IdsOf(p) \subseteq Ids
  BY OwnIds
<1>3. ASSUME NEW plan \in Plan, Edit(t, p, plan), DOMAIN plan \subseteq IdsOf(p),
             Less(t, p, plan) \/ OneMore(t, p, plan)
      PROVE  /\ MayEdit(t) /\ UNCHANGED import
             /\ \E kind \in {"plan", "reset"}, x \in Plan :
                  /\ Puts(t, p, kind, x) /\ DOMAIN x \subseteq IdsOf(p)
                  /\ Less(t, p, x) \/ OneMore(t, p, x)
  BY <1>3, EditPuts DEF Edit
<1>4. ASSUME NEW i \in Presets[p] \cup Random, Edit(t, p, WithNew(g, {i}))
      PROVE  /\ MayEdit(t) /\ UNCHANGED import
             /\ \E kind \in {"plan", "reset"}, x \in Plan :
                  /\ Puts(t, p, kind, x) /\ DOMAIN x \subseteq IdsOf(p)
                  /\ Less(t, p, x) \/ OneMore(t, p, x)
  <2> DEFINE k == WithNew(g, {i})
  <2>1. i \in IdsOf(p) /\ i \in Ids
    BY <1>2 DEF IdsOf
  <2>2. k \in Plan /\ DOMAIN k = DOMAIN g \cup {i}
        /\ \A j \in DOMAIN k : k[j] = {} \/ (j \in DOMAIN g /\ k[j] \subseteq g[j])
    BY <1>1, <2>1, AddedPlan
  <2>3. Edit(t, p, k)
    BY <1>4
  <2> HIDE DEF k
  <2>4. Less(t, p, k)
    BY <2>2 DEF Less
  <2>5. DOMAIN k \subseteq IdsOf(p)
    BY <1>1, <2>1, <2>2
  <2> QED BY <1>3, <2>2, <2>3, <2>4, <2>5
<1>5. ASSUME NEW k, DOMAIN k \subseteq DOMAIN g, k = [j \in DOMAIN k |-> k[j]],
             \A j \in DOMAIN k : k[j] \subseteq g[j], Edit(t, p, k)
      PROVE  /\ MayEdit(t) /\ UNCHANGED import
             /\ \E kind \in {"plan", "reset"}, x \in Plan :
                  /\ Puts(t, p, kind, x) /\ DOMAIN x \subseteq IdsOf(p)
                  /\ Less(t, p, x) \/ OneMore(t, p, x)
  <2>1. k \in Plan
    BY <1>1, <1>5, LessPlan
  <2>2. Less(t, p, k)
    BY <1>5 DEF Less
  <2>3. DOMAIN k \subseteq IdsOf(p)
    BY <1>1, <1>5
  <2> HIDE DEF g
  <2> QED BY <1>3, <1>5, <2>1, <2>2, <2>3
<1>6. CASE AddPreset(t, p)
  BY <1>4, <1>6 DEF AddPreset
<1>7. CASE AddCustom(t, p)
  BY <1>4, <1>7 DEF AddCustom
<1>8. CASE DeleteMilestone(t, p)
  <2>1. PICK i \in DOMAIN g : Edit(t, p, [j \in DOMAIN g \ {i} |-> g[j] \ {i}])
    BY <1>8 DEF DeleteMilestone
  <2> DEFINE k == [j \in DOMAIN g \ {i} |-> g[j] \ {i}]
  <2>2. /\ DOMAIN k \subseteq DOMAIN g /\ k = [j \in DOMAIN k |-> k[j]]
        /\ \A j \in DOMAIN k : k[j] \subseteq g[j]
    OBVIOUS
  <2>3. Edit(t, p, k)
    BY <2>1
  <2> HIDE DEF k
  <2> QED BY <1>5, <2>2, <2>3
<1>9. CASE AddDep(t, p)
  <2>1. PICK from \in DOMAIN ShownMap(t), to \in DOMAIN g :
           DagSafe(t, from, to) /\ Edit(t, p, WithDep(g, from, to))
    BY <1>9 DEF AddDep
  <2>2. from \in Ids
    BY ShownMapIds
  <2>3. WithDep(g, from, to) \in Plan /\ DOMAIN WithDep(g, from, to) \subseteq IdsOf(p)
    BY <1>1, <2>2, WithDepPlan
  <2>4. OneMore(t, p, WithDep(g, from, to))
    BY <2>1 DEF OneMore
  <2> HIDE DEF g
  <2> QED BY <1>3, <2>1, <2>3, <2>4
<1>10. CASE RemoveDep(t, p)
  <2>1. PICK from \in DOMAIN ShownMap(t), to \in DOMAIN g :
           Edit(t, p, [g EXCEPT ![to] = @ \ {from}])
    BY <1>10 DEF RemoveDep
  <2> DEFINE k == [g EXCEPT ![to] = @ \ {from}]
  <2>2. /\ DOMAIN k \subseteq DOMAIN g /\ k = [j \in DOMAIN k |-> k[j]]
        /\ \A j \in DOMAIN k : k[j] \subseteq g[j]
    BY <1>1
  <2>3. Edit(t, p, k)
    BY <2>1
  <2> HIDE DEF k
  <2> QED BY <1>5, <2>2, <2>3
<1>11. CASE Change(t, p)
  <2>1. Edit(t, p, g)
    BY <1>11 DEF Change
  <2>2. Less(t, p, g)
    BY DEF Less
  <2> QED BY <1>1, <1>3, <2>1, <2>2
<1>12. CASE ResetPlanning(t, p)
  <2>1. /\ MayEdit(t) /\ Open(t)
        /\ local' = [local EXCEPT ![t][p] = Nothing]
        /\ live' = [live EXCEPT ![t][p].plan = Empty]
        /\ Request(t, p, "reset", Empty, Nothing)
        /\ strayed' = (strayed \/ Unaware(t))
        /\ used' = [used EXCEPT !.edits = @ + 1, !.sends = @ + 1]
        /\ UNCHANGED <<server, page, first, import, last, spent>>
    BY <1>12 DEF ResetPlanning, MayEdit
  <2>2. used \in Counters
    BY DEF Types, States
  <2>3. used' \in Counters /\ used'.sends = used.sends + 1
    BY <2>1, <2>2, Count1
  <2>4. Puts(t, p, "reset", Empty)
    BY <2>1, <2>3 DEF Puts
  <2>5. Less(t, p, Empty) /\ DOMAIN Empty \subseteq IdsOf(p) /\ Empty \in Plan
    BY EmptyPlan DEF Less
  <2> QED BY <2>1, <2>4, <2>5
<1> QED BY <1>6, <1>7, <1>8, <1>9, <1>10, <1>11, <1>12 DEF Edits

LEMMA EditsTypes ==
    ASSUME Types, NEW t \in Tabs, NEW p \in Projects, Edits(t, p)
    PROVE  Types'
<1>1. MayEdit(t) /\ UNCHANGED import
  BY EditsPut
<1>2. PICK kind \in {"plan", "reset"}, plan \in Plan :
         Puts(t, p, kind, plan) /\ DOMAIN plan \subseteq IdsOf(p)
  BY EditsPut
<1>3. Jobs'
  BY <1>1 DEF Types, Jobs
<1> QED BY <1>1, <1>2, <1>3, PutsTypes

LEMMA JobWithMap ==
    ASSUME NEW at, NEW map, NEW deps,
           at = [map |-> at.map, deps |-> at.deps, plans |-> at.plans, wait |-> at.wait]
    PROVE  [at EXCEPT !.map = map, !.deps = deps]
               = [map |-> map, deps |-> deps, plans |-> at.plans, wait |-> at.wait]
<1>1. [at EXCEPT !.map = map] = [map |-> map, deps |-> at.deps, plans |-> at.plans, wait |-> at.wait]
  OBVIOUS
<1>2. [[map |-> map, deps |-> at.deps, plans |-> at.plans, wait |-> at.wait] EXCEPT !.deps = deps]
        = [map |-> map, deps |-> deps, plans |-> at.plans, wait |-> at.wait]
  OBVIOUS
<1> QED BY <1>1, <1>2, Zenon

LEMMA JobWithPlans ==
    ASSUME NEW at, NEW plans, NEW wait,
           at = [map |-> at.map, deps |-> at.deps, plans |-> at.plans, wait |-> at.wait]
    PROVE  [at EXCEPT !.plans = plans, !.wait = wait]
               = [map |-> at.map, deps |-> at.deps, plans |-> plans, wait |-> wait]
<1>1. [at EXCEPT !.plans = plans] = [map |-> at.map, deps |-> at.deps, plans |-> plans, wait |-> at.wait]
  OBVIOUS
<1>2. [[map |-> at.map, deps |-> at.deps, plans |-> plans, wait |-> at.wait] EXCEPT !.wait = wait]
        = [map |-> at.map, deps |-> at.deps, plans |-> plans, wait |-> wait]
  OBVIOUS
<1> QED BY <1>1, <1>2, Zenon

\* What an import starts with.
LEMMA ImportEffects ==
    ASSUME Types, NEW t \in Tabs, Import(t)
    PROVE  /\ MayEdit(t) /\ Jobs'
           /\ \A u \in Tabs : u # t => import'[u] = import[u]
           /\ strayed' = (strayed \/ Unaware(t))
           /\ LET at == import'[t]
                  old == Merged(ShownPlans(t), Projects \ RestProjects(at))
              IN  at.map = WithNew(old, RestIds(at))
           /\ used' \in Counters /\ used'.sends = used.sends
           /\ UNCHANGED <<server, page, live, first, local, net, last, clashed, mixed>>
<1>1. PICK f \in Files :
        LET planned == DOMAIN f.entries
            others == Projects \ {f.entries[e].project : e \in planned}
            fresh == UNION {Accepted(t, f, e) : e \in planned}
        IN  /\ MayEdit(t)
            /\ import' = [import EXCEPT ![t] =
                  [map |-> WithNew(Merged(ShownPlans(t), others), fresh),
                   deps |-> FlattenSeq([e \in planned |->
                                SelectSeq(f.entries[e].deps, LAMBDA d : d[1] \in Accepted(t, f, e))]),
                   plans |-> [e \in planned |->
                                [project |-> f.entries[e].project, ids |-> Accepted(t, f, e)]],
                   wait |-> 0]]
            /\ strayed' = (strayed \/ Unaware(t))
            /\ Counted
            /\ UNCHANGED <<server, page, live, first, local, net, spent, last, clashed, mixed>>
  BY Zenon DEF Import
<1> DEFINE planned == DOMAIN f.entries
           projects == {f.entries[e].project : e \in planned}
           fresh == UNION {Accepted(t, f, e) : e \in planned}
           map == WithNew(Merged(ShownPlans(t), Projects \ projects), fresh)
           deps == FlattenSeq([e \in planned |->
                       SelectSeq(f.entries[e].deps, LAMBDA d : d[1] \in Accepted(t, f, e))])
           plans == [e \in planned |->
                       [project |-> f.entries[e].project, ids |-> Accepted(t, f, e)]]
           at == [map |-> map, deps |-> deps, plans |-> plans, wait |-> 0]
<1>2. import' = [import EXCEPT ![t] = at] /\ MayEdit(t)
      /\ strayed' = (strayed \/ Unaware(t)) /\ Counted
      /\ UNCHANGED <<server, page, live, first, local, net, spent, last, clashed, mixed>>
  BY <1>1
<1>3. f.entries \in Seq([project : Projects, ids : SUBSET Ids, deps : Seq(Ids \X Ids)])
      /\ \A e \in planned : f.entries[e].ids \subseteq Presets[f.entries[e].project] \cup Named
  BY PlanningAssumption
<1>4. \A e \in planned : /\ f.entries[e] \in [project : Projects, ids : SUBSET Ids, deps : Seq(Ids \X Ids)]
                         /\ f.entries[e].project \in Projects /\ f.entries[e].ids \subseteq Ids
  <2> TAKE e \in planned
  <2> DEFINE R == [project : Projects, ids : SUBSET Ids, deps : Seq(Ids \X Ids)]
  <2>1. f.entries \in Seq(R)
    BY <1>3
  <2> HIDE DEF R
  <2>2. f.entries[e] \in R
    BY <2>1
  <2> QED BY <2>2 DEF R
<1>5. \A e \in planned : Accepted(t, f, e) \subseteq f.entries[e].ids
  BY DEF Accepted
<1>6. plans \in Seq(Item) /\ DOMAIN plans = planned
      /\ \A e \in planned : plans[e].project = f.entries[e].project /\ plans[e].ids = Accepted(t, f, e)
  <2>1. PICK n \in Nat : planned = 1 .. n
    BY <1>3
  <2>2. \A e \in planned : plans[e] \in Item
    BY <1>4, <1>5 DEF Item
  <2>3. DOMAIN plans = planned /\ plans = [e \in planned |-> plans[e]]
        /\ \A e \in planned : plans[e].project = f.entries[e].project /\ plans[e].ids = Accepted(t, f, e)
    OBVIOUS
  <2> HIDE DEF plans
  <2>4. plans \in [1 .. n -> Item]
    BY <2>1, <2>2, <2>3
  <2> QED BY <2>1, <2>3, <2>4
<1>7. DOMAIN map = fresh \cup UNION {DOMAIN ShownPlans(t)[p] : p \in Projects \ projects}
      /\ map = [i \in DOMAIN map |-> map[i]] /\ \A i \in fresh : map[i] = {}
  BY MergedDomain DEF WithNew
<1> HIDE DEF map, deps, plans
<1>8. at.map = map /\ at.deps = deps /\ at.plans = plans /\ at.wait = 0
      /\ at = [map |-> at.map, deps |-> at.deps, plans |-> at.plans, wait |-> at.wait]
  OBVIOUS
<1> HIDE DEF at
<1>9. RestProjects(at) = projects /\ RestIds(at) = fresh
  BY <1>6, <1>8 DEF RestProjects, RestIds
<1>10. \A p \in Projects : DOMAIN ShownPlans(t)[p] \subseteq Ids
  BY ShownPlan DEF ShownPlans
<1>11. fresh \subseteq Ids
  BY <1>4, <1>5
<1>12. DOMAIN map \subseteq Ids
  BY <1>7, <1>10, <1>11
<1>13. \A e \in planned : /\ plans[e].ids \subseteq Presets[plans[e].project] \cup Named
                          /\ \A i \in plans[e].ids : i \in fresh
  BY <1>3, <1>5, <1>6
<1>14. Job(at)
  <2>1. \A e \in planned : \A i \in plans[e].ids : i \in DOMAIN map /\ map[i] \subseteq Ids
    BY <1>7, <1>13
  <2> QED BY <1>6, <1>7, <1>8, <1>12, <1>13, <2>1 DEF Job
<1>15. import = [u \in Tabs |-> import[u]] /\ \A u \in Tabs : Job(import[u])
  BY DEF Types, Jobs
<1>16. import' = [u \in Tabs |-> import'[u]] /\ import'[t] = at
       /\ \A u \in Tabs : u # t => import'[u] = import[u]
  BY <1>2, <1>15
<1>17. Jobs'
  BY <1>14, <1>15, <1>16 DEF Jobs
<1>18. used' \in Counters /\ used'.sends = used.sends
  <2>1. used \in Counters /\ used' = [used EXCEPT !.edits = @ + 1]
    BY <1>2 DEF Types, States, Counted
  <2> QED BY <2>1 DEF Counters
<1>19. at.map = WithNew(Merged(ShownPlans(t), Projects \ RestProjects(at)), RestIds(at))
  BY <1>8, <1>9 DEF map
<1> QED BY <1>2, <1>16, <1>17, <1>18, <1>19

\* A dependency changes the map of its import only.
LEMMA ImportDepEffects ==
    ASSUME Types, NEW t \in Tabs, ImportDep(t)
    PROVE  /\ Jobs'
           /\ \A u \in Tabs : u # t => import'[u] = import[u]
           /\ import'[t].plans = import[t].plans
           /\ \/ import'[t].map = import[t].map
              \/ \E to, from \in DOMAIN import[t].map :
                    /\ Resolves(import[t].map, to, from)
                    /\ import'[t].map = WithDep(import[t].map, from, to)
           /\ UNCHANGED <<server, page, live, first, local, net, used, last, clashed, strayed, mixed>>
           /\ import[t] # NoImport
<1> DEFINE at == import[t]
           to == Head(at.deps)[1]
           from == Head(at.deps)[2]
           map == IF Resolves(at.map, to, from) THEN WithDep(at.map, from, to) ELSE at.map
           new == [at EXCEPT !.map = map, !.deps = Tail(at.deps)]
<1>1. /\ at.deps # <<>> /\ import' = [import EXCEPT ![t] = new]
      /\ UNCHANGED <<server, page, live, first, local, net, used, spent, last, clashed,
                     strayed, mixed>>
  BY Zenon DEF ImportDep
<1>2. Job(at)
  BY DEF Types, Jobs
<1>3. at = [map |-> at.map, deps |-> at.deps, plans |-> at.plans, wait |-> at.wait]
  BY <1>2 DEF Job
<1>4. /\ DOMAIN map = DOMAIN at.map /\ map = [i \in DOMAIN map |-> map[i]]
      /\ \A i \in DOMAIN map : at.map[i] \subseteq Ids => map[i] \subseteq Ids
  <2>1. CASE Resolves(at.map, to, from)
    <3>1. map = WithDep(at.map, from, to)
      BY <2>1
    <3>2. from \in Ids
      BY <2>1, <1>2 DEF Resolves, Job
    <3>3. at.map = [i \in DOMAIN at.map |-> at.map[i]]
      BY <1>2 DEF Job
    <3> HIDE DEF at, to, from, map
    <3> QED BY <3>1, <3>2, <3>3 DEF WithDep
  <2>2. CASE ~Resolves(at.map, to, from)
    BY <2>2, <1>2 DEF Job
  <2> QED BY <2>1, <2>2
<1>5. \/ map = at.map
      \/ /\ to \in DOMAIN at.map /\ from \in DOMAIN at.map
         /\ Resolves(at.map, to, from)
         /\ map = WithDep(at.map, from, to)
  BY DEF Resolves
<1> HIDE DEF map, to, from
<1>6. new = [map |-> map, deps |-> Tail(at.deps), plans |-> at.plans, wait |-> at.wait]
  BY <1>3, JobWithMap, Zenon
<1> HIDE DEF new
<1>7. new.map = map /\ new.plans = at.plans
      /\ new = [map |-> new.map, deps |-> new.deps, plans |-> new.plans, wait |-> new.wait]
  BY <1>6
<1>8. Job(new)
  BY <1>2, <1>4, <1>7 DEF Job
<1>9. import = [u \in Tabs |-> import[u]] /\ \A u \in Tabs : Job(import[u])
  BY DEF Types, Jobs
<1>10. import' = [u \in Tabs |-> import'[u]] /\ import'[t] = new
       /\ \A u \in Tabs : u # t => import'[u] = import[u]
  BY <1>1, <1>9
<1>11. Jobs'
  BY <1>8, <1>9, <1>10 DEF Jobs
<1>12. at # NoImport
  BY <1>1 DEF NoImport
<1> QED BY <1>1, <1>5, <1>7, <1>10, <1>11, <1>12

\* A project is saved with what its import has resolved.
LEMMA ImportSaveEffects ==
    ASSUME Types, NEW t \in Tabs, ImportSave(t)
    PROVE  LET at == import[t]
               p == Head(at.plans).project
               plan == Part(at.map, Head(at.plans).ids)
           IN  /\ at.plans # <<>> /\ Head(at.plans) \in Item /\ p \in Projects
               /\ plan \in Plan /\ DOMAIN plan \subseteq IdsOf(p)
               /\ Puts(t, p, "plan", plan)
               /\ Jobs'
               /\ \A u \in Tabs : u # t => import'[u] = import[u]
               /\ import'[t].plans = Tail(at.plans) /\ import'[t].map = at.map
<1> DEFINE at == import[t]
           h == Head(at.plans)
           p == h.project
           plan == Part(at.map, h.ids)
           new == [at EXCEPT !.plans = Tail(at.plans), !.wait = used.sends + 1]
<1>1. /\ at.deps = <<>> /\ at.plans # <<>> /\ at.wait = 0
      /\ Save(t, p, plan)
      /\ import' = [import EXCEPT ![t] = new]
      /\ used' = [used EXCEPT !.sends = @ + 1]
  BY DEF ImportSave, Part
<1>2. Job(at)
  BY DEF Types, Jobs
<1>3. at = [map |-> at.map, deps |-> at.deps, plans |-> at.plans, wait |-> at.wait]
      /\ at.plans \in Seq(Item) /\ DOMAIN at.map \subseteq Ids /\ at.map = [i \in DOMAIN at.map |-> at.map[i]]
  BY <1>2 DEF Job
<1>4. h = at.plans[1] /\ 1 \in DOMAIN at.plans /\ h \in Item
      /\ Tail(at.plans) \in Seq(Item)
      /\ \A e \in DOMAIN Tail(at.plans) : e + 1 \in DOMAIN at.plans /\ Tail(at.plans)[e] = at.plans[e + 1]
  BY <1>1, <1>3
<1>5. h.ids \subseteq Presets[p] \cup Named /\ p \in Projects
      /\ \A i \in h.ids : i \in DOMAIN at.map /\ at.map[i] \subseteq Ids
  BY <1>2, <1>4 DEF Job, Item
<1>6. DOMAIN plan = h.ids /\ plan = [i \in DOMAIN plan |-> plan[i]] /\ \A i \in h.ids : plan[i] = at.map[i]
  BY DEF Part
<1> HIDE DEF plan
<1>7. plan \in Plan /\ DOMAIN plan \subseteq IdsOf(p)
  <2>1. DOMAIN plan \subseteq IdsOf(p)
    BY <1>5, <1>6 DEF IdsOf
  <2>2. DOMAIN plan \subseteq Ids /\ \A i \in DOMAIN plan : plan[i] \subseteq Ids
    BY <1>5, <1>6, <2>1, OwnIds
  <2> QED BY <1>6, <2>1, <2>2, PlanMade
<1>8. Puts(t, p, "plan", plan)
  <2>1. used \in Counters
    BY DEF Types, States
  <2>2. used' \in Counters /\ used'.sends = used.sends + 1
    BY <1>1, <2>1 DEF Counters
  <2>3. Open(t)
    <3>1. at # NoImport
      BY <1>1 DEF NoImport
    <3> QED BY <3>1 DEF Types, Shut
  <2> QED BY <1>1, <2>2, <2>3 DEF Save, Puts
<1>9. new = [map |-> at.map, deps |-> at.deps, plans |-> Tail(at.plans), wait |-> used.sends + 1]
  <2> DEFINE rest == Tail(at.plans)
             wait == used.sends + 1
  <2>1. new = [at EXCEPT !.plans = rest, !.wait = wait]
    OBVIOUS
  <2>2. at = [map |-> at.map, deps |-> at.deps, plans |-> at.plans, wait |-> at.wait]
    BY <1>3
  <2> HIDE DEF new, at, rest, wait
  <2>3. new = [map |-> at.map, deps |-> at.deps, plans |-> rest, wait |-> wait]
    BY <2>1, <2>2, JobWithPlans
  <2> QED BY <2>3 DEF rest, wait
<1> HIDE DEF new
<1>10. new.map = at.map /\ new.plans = Tail(at.plans)
       /\ new = [map |-> new.map, deps |-> new.deps, plans |-> new.plans, wait |-> new.wait]
  BY <1>9
<1>11. Job(new)
  <2>1. \A e \in DOMAIN new.plans :
          /\ new.plans[e].ids \subseteq Presets[new.plans[e].project] \cup Named
          /\ \A i \in new.plans[e].ids : i \in DOMAIN new.map /\ new.map[i] \subseteq Ids
    BY <1>2, <1>4, <1>10 DEF Job
  <2>2. new.plans \in Seq(Item) /\ DOMAIN new.map \subseteq Ids
        /\ new.map = [i \in DOMAIN new.map |-> new.map[i]]
    BY <1>3, <1>4, <1>10
  <2> HIDE DEF at
  <2> QED BY <1>10, <2>1, <2>2 DEF Job
<1>12. import = [u \in Tabs |-> import[u]] /\ \A u \in Tabs : Job(import[u])
  BY DEF Types, Jobs
<1>13. import' = [u \in Tabs |-> import'[u]] /\ import'[t] = new
       /\ \A u \in Tabs : u # t => import'[u] = import[u]
  BY <1>1, <1>12
<1>14. Jobs'
  BY <1>11, <1>12, <1>13 DEF Jobs
<1> QED BY <1>1, <1>4, <1>5, <1>7, <1>8, <1>10, <1>13, <1>14 DEF plan

\* An import that starts or resolves a dependency changes nothing but itself.
LEMMA OnlyImport ==
    ASSUME Types, NEW t \in Tabs, Open(t), Jobs', \A u \in Tabs : u # t => import'[u] = import[u],
           UNCHANGED <<server, page, live, first, local, net, last, clashed, mixed>>,
           used' \in Counters, used'.sends = used.sends, strayed' \in BOOLEAN
    PROVE  Types' /\ Calm
<1>1. States' /\ Numbered'
  BY DEF Types, States, Numbered
<1>2. Shut'
  BY DEF Types, Shut, Open
<1>3. Calm
  BY CalmMoves
<1>4. \A q \in Projects, u \in Tabs : first'[u][q] \in {first[u][q], server[q], NoRecord}
  OBVIOUS
<1> QED BY <1>1, <1>2, <1>3, <1>4, CalmTypes

LEMMA ImportTypes ==
    ASSUME Types, NEW t \in Tabs, Import(t)
    PROVE  Types' /\ Calm
<1>1. Open(t) /\ Jobs' /\ (\A u \in Tabs : u # t => import'[u] = import[u])
      /\ UNCHANGED <<server, page, live, first, local, net, last, clashed, mixed>>
      /\ used' \in Counters /\ used'.sends = used.sends
      /\ strayed' = (strayed \/ Unaware(t))
  BY ImportEffects DEF MayEdit
<1>2. strayed' \in BOOLEAN
  BY <1>1 DEF Types, States
<1> QED BY <1>1, <1>2, OnlyImport

LEMMA ImportDepTypes ==
    ASSUME Types, NEW t \in Tabs, ImportDep(t)
    PROVE  Types' /\ Calm
<1>1. Jobs' /\ (\A u \in Tabs : u # t => import'[u] = import[u]) /\ import[t] # NoImport
      /\ UNCHANGED <<server, page, live, first, local, net, used, last, clashed, strayed, mixed>>
  BY ImportDepEffects
<1>2. used' \in Counters /\ used'.sends = used.sends /\ strayed' \in BOOLEAN
  BY <1>1 DEF Types, States
<1>3. Open(t)
  BY <1>1 DEF Types, Shut
<1> QED BY <1>1, <1>2, <1>3, OnlyImport

LEMMA ImportSaveTypes ==
    ASSUME Types, NEW t \in Tabs, ImportSave(t)
    PROVE  Types'
<1> DEFINE p == Head(import[t].plans).project
           plan == Part(import[t].map, Head(import[t].plans).ids)
<1>1. /\ p \in Projects /\ plan \in Plan /\ DOMAIN plan \subseteq IdsOf(p)
      /\ Puts(t, p, "plan", plan) /\ Jobs'
      /\ \A u \in Tabs : u # t => import'[u] = import[u]
  BY ImportSaveEffects
<1>2. \A u \in Tabs : ~Open(u) => import'[u] = import[u]
  BY <1>1 DEF Puts
<1> HIDE DEF p, plan
<1> QED BY <1>1, <1>2, PutsTypes

\* The steps of the system as the proofs sort them.
LEMMA StepKinds ==
    ASSUME Next
    PROVE  \/ \E t \in Tabs :
                \/ OpenPage(t) \/ Arrive(t) \/ Leave(t)
                \/ Import(t) \/ ImportDep(t) \/ ImportSave(t)
           \/ \E t \in Tabs, p \in Projects : Edits(t, p) \/ Assign(t, p)
           \/ \E r \in net : Serve(r) \/ Reply(r) \/ Fail(r)
  BY Zenon DEF Next, Edits

LEMMA AssignAssigns ==
    ASSUME Types, NEW t \in Tabs, NEW p \in Projects, Assign(t, p)
    PROVE  \E w \in Waves \cup {Nothing} : Assigns(t, p, w)
<1>1. PICK w \in Waves \cup {Nothing} :
        /\ MayEdit(t)
        /\ live' = [live EXCEPT ![t][p].wave = w]
        /\ Request(t, p, "wave", Empty, w)
        /\ used' = [used EXCEPT !.edits = @ + 1, !.sends = @ + 1]
        /\ UNCHANGED <<server, page, first, local, import, last, spent, strayed>>
  BY DEF Assign
<1>2. used \in Counters
  BY DEF Types, States
<1>3. used' \in Counters /\ used'.sends = used.sends + 1
  BY <1>1, <1>2, Count1
<1> QED BY <1>1, <1>3 DEF Assigns, MayEdit, PutsWave

LEMMA TypesStep == Types /\ [Next]_vars => Types'
<1> SUFFICES ASSUME Types, [Next]_vars PROVE Types'
  OBVIOUS
<1>1. CASE UNCHANGED vars
  <2>1. UNCHANGED <<server, page, live, first, local, import, net, used, last, clashed, strayed, mixed>>
    BY <1>1 DEF vars
  <2>2. States' /\ Numbered' /\ Shut' /\ Jobs'
    BY <2>1 DEF Types, States, Numbered, Shut, Jobs, Open
  <2>3. Calm
    BY <2>1, CalmMoves
  <2>4. \A q \in Projects, u \in Tabs : first'[u][q] \in {first[u][q], server[q], NoRecord}
    BY <2>1
  <2> QED BY <2>2, <2>3, <2>4, CalmTypes
<1>2. CASE Next
  <2>1. ASSUME NEW t \in Tabs, OpenPage(t) \/ Arrive(t) \/ Leave(t) PROVE Types'
    BY <2>1, OpenPageTypes, ArriveTypes, LeaveTypes
  <2>2. ASSUME NEW t \in Tabs, Import(t) \/ ImportDep(t) \/ ImportSave(t) PROVE Types'
    BY <2>2, ImportTypes, ImportDepTypes, ImportSaveTypes
  <2>3. ASSUME NEW t \in Tabs, NEW p \in Projects, Edits(t, p) PROVE Types'
    BY <2>3, EditsTypes
  <2>4. ASSUME NEW t \in Tabs, NEW p \in Projects, Assign(t, p) PROVE Types'
    BY <2>4, AssignAssigns, AssignTypes
  <2>5. ASSUME NEW r \in net, Serve(r) PROVE Types'
    BY <2>5, ServeTypes
  <2>6. ASSUME NEW r \in net, Reply(r) \/ Fail(r) PROVE Types'
    BY <2>6, AnswerTypes
  <2> QED BY <1>2, <2>1, <2>2, <2>3, <2>4, <2>5, <2>6, StepKinds
<1> QED BY <1>1, <1>2

LEMMA StartRows ==
    ASSUME Init
    PROVE  /\ server \in [Projects -> Row]
           /\ \A p \in Projects : DOMAIN Given(server[p].plan) \subseteq Presets[p]
           /\ Acyclic(Merged([p \in Projects |-> Given(server[p].plan)], Projects))
<1>1. server \in Start
  BY DEF Init
<1>2. /\ server = [p \in Projects |-> server[p]]
      /\ \A p \in Projects : /\ IsStored(p, server[p])
                             /\ server[p].plan # Nothing => DOMAIN server[p].plan \subseteq Presets[p]
      /\ Acyclic(Merged([p \in Projects |-> Given(server[p].plan)], Projects))
  BY <1>1, PlanningAssumption
<1>3. ASSUME NEW p \in Projects PROVE server[p] \in Row /\ DOMAIN Given(server[p].plan) \subseteq Presets[p]
  <2>1. IsStored(p, server[p])
    BY <1>2
  <2>2. server[p] = [plan |-> server[p].plan, wave |-> server[p].wave]
        /\ server[p].wave \in Waves \cup {Nothing}
        /\ (server[p].plan # Nothing => IsPlan(p, server[p].plan))
    BY <2>1 DEF IsStored
  <2>3. server[p].plan \in Plan \cup {Nothing}
    <3>1. ASSUME IsPlan(p, server[p].plan) PROVE server[p].plan \in Plan
      BY <3>1, OwnIds DEF IsPlan, Plan
    <3> QED BY <2>2, <3>1
  <2>4. DOMAIN Given(server[p].plan) \subseteq Presets[p]
    BY <1>2, EmptyPlan DEF Given
  <2> QED BY <2>2, <2>3, <2>4 DEF Row
<1> QED BY <1>2, <1>3

LEMMA TypesInit == Init => Types
<1> SUFFICES ASSUME Init PROVE Types
  OBVIOUS
<1>1. /\ page = [t \in Tabs |-> "closed"]
      /\ live = [t \in Tabs |-> [p \in Projects |-> NoRecord]]
      /\ first = [t \in Tabs |-> [p \in Projects |-> NoRecord]]
      /\ local = [t \in Tabs |-> [p \in Projects |-> Nothing]]
      /\ import = [t \in Tabs |-> NoImport]
      /\ net = {}
      /\ used = [edits |-> 0, sends |-> 0, failures |-> 0, opens |-> 0]
      /\ last = [p \in Projects |-> [plan |-> Nothing, wave |-> Nothing]]
      /\ clashed = FALSE /\ strayed = FALSE /\ mixed = {}
  BY DEF Init
<1>2. live \in [Tabs -> [Projects -> Row]] /\ first \in [Tabs -> [Projects -> Row]]
  BY <1>1, NoRecordRow
<1>3. used \in Counters /\ last \in [Projects -> Writers]
  BY <1>1 DEF Counters, Writers
<1>4. States
  BY <1>1, <1>2, <1>3, StartRows DEF States
<1>5. Numbered
  BY <1>1 DEF Numbered
<1>6. Shut
  BY <1>1 DEF Shut
<1>7. Own
  <2>1. ASSUME NEW p \in Projects, NEW x \in Everywhere(p) PROVE DOMAIN x \subseteq IdsOf(p)
    <3>1. x = Given(server[p].plan) \/ x = Empty
      BY <1>1, Places, NoRecordRow DEF Given
    <3> QED BY <3>1, StartRows, EmptyPlan DEF IdsOf
  <2>2. ASSUME NEW p \in Projects, NEW t \in Tabs PROVE DOMAIN Given(first[t][p].plan) \subseteq IdsOf(p)
    <3>1. first[t][p] = NoRecord
      BY <1>1
    <3> QED BY <3>1, NoRecordRow, EmptyPlan
  <2> QED BY <2>1, <2>2 DEF Own
<1>8. Jobs
  <2>1. \A t \in Tabs : Job(import[t])
    BY <1>1, NoImportIsJob
  <2> QED BY <1>1, <2>1 DEF Jobs
<1> QED BY <1>4, <1>5, <1>6, <1>7, <1>8 DEF Types

LEMMA TypesHold == Spec => []Types
<1> QED BY TypesInit, TypesStep, PTL DEF Spec

\* The types: the plans of a project have ids of that project's milestones only,
\* wherever they are, in the database, in the copies of tabs and in requests
\* (fixedMilestoneId, addMilestone, handleImportFile).
THEOREM TypeCorrect == Spec => []TypeOK
<1> QED BY TypesHold, TypesGive, PTL

---------------------------------------------------------------------------
(* No plan has a cycle *)

Plans == JobsAcyclic /\ Apart /\ PlansAcyclic

\* Steps that bring no new plan, and at most let clashed become true.
LEMMA CalmPlans ==
    ASSUME Types, Apart, PlansAcyclic, Calm, clashed => clashed'
    PROVE  Apart' /\ PlansAcyclic'
<1>1. ASSUME ~clashed', NEW p \in Projects, NEW x \in Everywhere(p)' PROVE Acyclic(x)
  BY <1>1, EmptyPlan DEF Calm, PlansAcyclic
<1>2. ASSUME ~clashed', NEW p \in Projects, NEW q \in Projects, p # q,
             NEW x \in Everywhere(p)', NEW y \in Everywhere(q)'
      PROVE  DOMAIN x \cap DOMAIN y = {}
  <2>1. x \in Everywhere(p) \/ DOMAIN x = {}
    BY EmptyPlan DEF Calm
  <2>2. y \in Everywhere(q) \/ DOMAIN y = {}
    BY EmptyPlan DEF Calm
  <2>3. ~clashed
    BY <1>2
  <2> QED BY <1>2, <2>1, <2>2, <2>3 DEF Apart
<1> QED BY <1>1, <1>2 DEF Apart, PlansAcyclic

\* A save of a plan without cycles.
LEMMA PutsPlans ==
    ASSUME Types, Apart, PlansAcyclic, NEW t \in Tabs, NEW p \in Projects,
           NEW kind \in {"plan", "reset"}, NEW plan \in Plan, Puts(t, p, kind, plan),
           ~clashed' => Acyclic(plan)
    PROVE  Apart' /\ PlansAcyclic'
<1>1. clashed' = (clashed \/ \E q \in Projects \ {p} : \E other \in Everywhere(q) :
                                DOMAIN plan \cap DOMAIN other # {})
  BY DEF Puts, Request
<1>2. ASSUME NEW q \in Projects, NEW x \in Everywhere(q)'
      PROVE  x \in Everywhere(q) \/ x = Empty \/ (q = p /\ x = plan)
  BY <1>2, PutsSources
<1>3. ASSUME ~clashed', NEW q \in Projects, NEW x \in Everywhere(q)' PROVE Acyclic(x)
  BY <1>1, <1>2, <1>3, EmptyPlan DEF PlansAcyclic
<1>4. ASSUME ~clashed', NEW q1 \in Projects, NEW q2 \in Projects, q1 # q2,
             NEW x \in Everywhere(q1)', NEW y \in Everywhere(q2)'
      PROVE  DOMAIN x \cap DOMAIN y = {}
  <2>1. x \in Everywhere(q1) \/ DOMAIN x = {} \/ (q1 = p /\ x = plan)
    BY <1>2, EmptyPlan
  <2>2. y \in Everywhere(q2) \/ DOMAIN y = {} \/ (q2 = p /\ y = plan)
    BY <1>2, EmptyPlan
  <2>3. ASSUME NEW q \in Projects, q # p, NEW other \in Everywhere(q)
        PROVE  DOMAIN plan \cap DOMAIN other = {}
    BY <1>1, <1>4, <2>3
  <2>4. CASE x \in Everywhere(q1) /\ y \in Everywhere(q2)
    BY <1>1, <1>4, <2>4 DEF Apart
  <2>5. CASE DOMAIN x = {} \/ DOMAIN y = {}
    BY <2>5
  <2>6. CASE q1 = p /\ x = plan /\ y \in Everywhere(q2)
    BY <1>4, <2>3, <2>6
  <2>7. CASE q2 = p /\ y = plan /\ x \in Everywhere(q1)
    BY <1>4, <2>3, <2>7
  <2> QED BY <1>4, <2>1, <2>2, <2>4, <2>5, <2>6, <2>7
<1> QED BY <1>3, <1>4 DEF Apart, PlansAcyclic

\* While no id is in two projects, a tab finds each plan it shows in its map.
LEMMA ShownInMap ==
    ASSUME Types, Apart, ~clashed, NEW t \in Tabs, NEW p \in Projects, NEW i \in DOMAIN Shown(t, p)
    PROVE  i \in DOMAIN ShownMap(t) /\ ShownMap(t)[i] = Shown(t, p)[i]
<1>1. \A q \in Projects : ShownPlans(t)[q] = Shown(t, q) /\ Shown(t, q) \in Everywhere(q)
  BY ShownPlan DEF ShownPlans
<1>2. \A q \in Projects \ {p} : i \notin DOMAIN ShownPlans(t)[q]
  BY <1>1 DEF Apart
<1>3. Merged(ShownPlans(t), Projects)[i] = ShownPlans(t)[p][i]
  BY <1>1, <1>2, MergedIsPlan
<1>4. i \in DOMAIN ShownMap(t)
  <2>1. DOMAIN ShownMap(t) = UNION {DOMAIN ShownPlans(t)[q] : q \in Projects}
    BY MergedDomain DEF ShownMap
  <2> QED BY <1>1, <2>1
<1> QED BY <1>1, <1>3, <1>4 DEF ShownMap

LEMMA EditsPlans ==
    ASSUME Types, Plans, NEW t \in Tabs, NEW p \in Projects, Edits(t, p)
    PROVE  Plans'
<1>1. UNCHANGED import
  BY EditsPut
<1>2. PICK kind \in {"plan", "reset"}, plan \in Plan :
         /\ Puts(t, p, kind, plan) /\ DOMAIN plan \subseteq IdsOf(p)
         /\ Less(t, p, plan) \/ OneMore(t, p, plan)
  BY EditsPut
<1> DEFINE g == Shown(t, p)
<1>3. g \in Plan /\ g \in Everywhere(p) /\ DOMAIN g \subseteq Ids /\ g = [i \in DOMAIN g |-> g[i]]
  BY ShownPlan, PlanFacts
<1>4. ASSUME ~clashed' PROVE Acyclic(plan)
  <2>1. ~clashed
    BY <1>2, <1>4 DEF Puts, Request
  <2>2. Acyclic(g)
    BY <1>3, <2>1 DEF Plans, PlansAcyclic
  <2>3. CASE Less(t, p, plan)
    <3>1. \A i \in DOMAIN plan : plan[i] = {} \/ (i \in DOMAIN g /\ plan[i] \subseteq g[i])
      BY <2>3 DEF Less
    <3> HIDE DEF g
    <3> QED BY <2>2, <3>1, Grows
  <2>4. CASE OneMore(t, p, plan)
    <3>1. PICK from \in DOMAIN ShownMap(t), to \in DOMAIN g :
             DagSafe(t, from, to) /\ plan = WithDep(g, from, to)
      BY <2>4 DEF OneMore
    <3>2. from # to /\ ~Reaches(ShownMap(t), from, to) /\ from \in Ids
      BY <3>1, ShownMapIds DEF DagSafe
    <3>3. \A i \in DOMAIN g : g[i] \subseteq DepsIn(ShownMap(t), i)
      BY <2>1, ShownInMap DEF Plans, DepsIn
    <3> HIDE DEF g
    <3>4. Acyclic(WithDep(g, from, to))
      BY <1>3, <2>2, <3>1, <3>2, <3>3, WithDepAcyclic
    <3> QED BY <3>1, <3>4
  <2> QED BY <1>2, <2>3, <2>4
<1>5. Apart' /\ PlansAcyclic'
  BY <1>2, <1>4, PutsPlans DEF Plans
<1>6. JobsAcyclic'
  BY <1>1 DEF Plans, JobsAcyclic
<1> QED BY <1>5, <1>6 DEF Plans

LEMMA ImportPlans ==
    ASSUME Types, Plans, NEW t \in Tabs, Import(t)
    PROVE  Plans'
<1>1. Apart' /\ PlansAcyclic'
  BY ImportTypes, ImportEffects, CalmPlans DEF Plans
<1>2. /\ \A u \in Tabs : u # t => import'[u] = import[u]
      /\ LET at == import'[t]
             old == Merged(ShownPlans(t), Projects \ RestProjects(at))
         IN  at.map = WithNew(old, RestIds(at))
  BY ImportEffects
<1>3. ASSUME NEW e \in DOMAIN import'[t].plans
      PROVE  Acyclic(Part(import'[t].map, import'[t].plans[e].ids))
  <2> DEFINE at == import'[t]
             g == Part(at.map, at.plans[e].ids)
  <2>1. DOMAIN g = at.plans[e].ids /\ \A i \in DOMAIN g : g[i] = at.map[i]
    BY DEF Part
  <2>2. at.plans[e].ids \subseteq RestIds(at)
    BY <1>3 DEF RestIds
  <2>3. \A i \in RestIds(at) : at.map[i] = {}
    BY <1>2 DEF WithNew
  <2>4. \A i \in DOMAIN g : g[i] = {}
    BY <2>1, <2>2, <2>3
  <2> HIDE DEF g
  <2>5. Acyclic(g)
    BY <2>4, EmptyPlan, Grows
  <2> QED BY <2>5 DEF g
<1>4. JobsAcyclic'
  BY <1>2, <1>3 DEF Plans, JobsAcyclic
<1> QED BY <1>1, <1>4 DEF Plans

LEMMA ImportDepPlans ==
    ASSUME Types, Plans, NEW t \in Tabs, ImportDep(t)
    PROVE  Plans'
<1>1. Apart' /\ PlansAcyclic'
  BY ImportDepTypes, ImportDepEffects, CalmPlans DEF Plans
<1> DEFINE map == import[t].map
<1>2. /\ \A u \in Tabs : u # t => import'[u] = import[u]
      /\ import'[t].plans = import[t].plans
      /\ \/ import'[t].map = map
         \/ \E to, from \in DOMAIN map :
               Resolves(map, to, from) /\ import'[t].map = WithDep(map, from, to)
  BY ImportDepEffects
<1>3. Job(import[t])
  BY DEF Types, Jobs
<1>4. ASSUME NEW e \in DOMAIN import[t].plans
      PROVE  Acyclic(Part(import'[t].map, import[t].plans[e].ids))
  <2> DEFINE S == import[t].plans[e].ids
             g == Part(map, S)
  <2>1. Acyclic(g)
    BY DEF Plans, JobsAcyclic
  <2>2. DOMAIN map \subseteq Ids /\ map = [i \in DOMAIN map |-> map[i]] /\ S \subseteq DOMAIN map
    BY <1>3 DEF Job
  <2>3. DOMAIN g = S /\ g = [i \in DOMAIN g |-> g[i]] /\ \A i \in S : g[i] = map[i]
    BY DEF Part
  <2>4. CASE import'[t].map = map
    BY <2>1, <2>4
  <2>5. ASSUME NEW to \in DOMAIN map, NEW from \in DOMAIN map, Resolves(map, to, from),
               import'[t].map = WithDep(map, from, to)
        PROVE  Acyclic(Part(import'[t].map, S))
    <3> DEFINE k == Part(WithDep(map, from, to), S)
    <3>1. from # to /\ ~Reaches(map, from, to) /\ from \in Ids
      BY <2>2, <2>5 DEF Resolves
    <3>2. DOMAIN k = S /\ \A i \in S : k[i] = IF i = to THEN map[i] \cup {from} ELSE map[i]
      BY <2>2 DEF Part, WithDep
    <3> HIDE DEF k, map, S
    <3>3. CASE to \in S
      <4>1. \A i \in DOMAIN g : g[i] \subseteq DepsIn(map, i)
        BY <2>2, <2>3 DEF DepsIn
      <4> HIDE DEF g
      <4>2. Acyclic(WithDep(g, from, to))
        BY <2>1, <2>2, <2>3, <3>1, <3>3, <4>1, WithDepAcyclic
      <4>3. DOMAIN WithDep(g, from, to) = S
            /\ \A i \in S : WithDep(g, from, to)[i] = IF i = to THEN map[i] \cup {from} ELSE map[i]
        BY <2>3 DEF WithDep
      <4>4. Acyclic(k)
        BY <3>2, <4>2, <4>3, Shrinks
      <4> QED BY <2>5, <4>4 DEF k
    <3>4. CASE to \notin S
      <4>1. \A i \in DOMAIN k : k[i] \subseteq g[i]
        BY <2>3, <3>2, <3>4
      <4> HIDE DEF g
      <4>2. Acyclic(k)
        BY <2>1, <2>3, <3>2, <4>1, Shrinks
      <4> QED BY <2>5, <4>2 DEF k
    <3> QED BY <3>3, <3>4
  <2> QED BY <1>2, <2>4, <2>5
<1>5. JobsAcyclic'
  BY <1>2, <1>4 DEF Plans, JobsAcyclic
<1> QED BY <1>1, <1>5 DEF Plans

LEMMA ImportSavePlans ==
    ASSUME Types, Plans, NEW t \in Tabs, ImportSave(t)
    PROVE  Plans'
<1> DEFINE at == import[t]
           p == Head(at.plans).project
           plan == Part(at.map, Head(at.plans).ids)
<1>1. /\ at.plans # <<>> /\ p \in Projects /\ plan \in Plan
      /\ Puts(t, p, "plan", plan)
      /\ \A u \in Tabs : u # t => import'[u] = import[u]
      /\ import'[t].plans = Tail(at.plans) /\ import'[t].map = at.map
  BY ImportSaveEffects
<1>2. at.plans \in Seq(Item)
  BY DEF Types, Jobs, Job
<1>3. Head(at.plans) = at.plans[1] /\ 1 \in DOMAIN at.plans
      /\ \A e \in DOMAIN Tail(at.plans) : e + 1 \in DOMAIN at.plans /\ Tail(at.plans)[e] = at.plans[e + 1]
  BY <1>1, <1>2
<1>4. Acyclic(plan)
  BY <1>3 DEF Plans, JobsAcyclic
<1>5. JobsAcyclic'
  <2> SUFFICES ASSUME NEW u \in Tabs, NEW e \in DOMAIN import'[u].plans
               PROVE  Acyclic(Part(import'[u].map, import'[u].plans[e].ids))
    BY DEF JobsAcyclic
  <2>1. CASE u # t
    BY <1>1, <2>1 DEF Plans, JobsAcyclic
  <2>2. CASE u = t
    <3>1. e + 1 \in DOMAIN at.plans /\ import'[u].plans[e] = at.plans[e + 1] /\ import'[u].map = at.map
      BY <1>1, <1>3, <2>2
    <3>2. Acyclic(Part(at.map, at.plans[e + 1].ids))
      BY <3>1 DEF Plans, JobsAcyclic
    <3> QED BY <3>1, <3>2
  <2> QED BY <2>1, <2>2
<1> HIDE DEF p, plan
<1>6. Apart' /\ PlansAcyclic'
  BY <1>1, <1>4, PutsPlans DEF Plans
<1> QED BY <1>5, <1>6 DEF Plans

LEMMA PlansStep == Types /\ Plans /\ [Next]_vars => Plans'
<1> SUFFICES ASSUME Types, Plans, [Next]_vars PROVE Plans'
  OBVIOUS
<1>1. ASSUME Calm, clashed => clashed', UNCHANGED import PROVE Plans'
  <2>1. JobsAcyclic'
    BY <1>1 DEF Plans, JobsAcyclic
  <2> QED BY <1>1, <2>1, CalmPlans DEF Plans
<1>2. CASE UNCHANGED vars
  <2>1. UNCHANGED <<server, live, local, net, import, clashed>>
    BY <1>2 DEF vars
  <2>2. Calm
    BY <2>1, CalmMoves
  <2> QED BY <1>1, <2>1, <2>2
<1>3. CASE Next
  <2>1. ASSUME NEW t \in Tabs, OpenPage(t) \/ Arrive(t) PROVE Plans'
    <3>1. UNCHANGED <<clashed, import>>
      BY <2>1 DEF OpenPage, Arrive
    <3> QED BY <1>1, <2>1, <3>1, OpenPageTypes, ArriveTypes
  <2>2. ASSUME NEW t \in Tabs, Leave(t) PROVE Plans'
    <3>1. UNCHANGED clashed /\ import' = [import EXCEPT ![t] = NoImport]
      BY <2>2 DEF Leave
    <3>2. \A u \in Tabs : import'[u] \in {import[u], NoImport}
      BY <3>1 DEF Types, Jobs
    <3>3. DOMAIN NoImport.plans = {}
      BY DEF NoImport
    <3>4. JobsAcyclic'
      BY <3>2, <3>3 DEF Plans, JobsAcyclic
    <3> QED BY <2>2, <3>1, <3>4, LeaveTypes, CalmPlans DEF Plans
  <2>3. ASSUME NEW t \in Tabs, Import(t) \/ ImportDep(t) \/ ImportSave(t) PROVE Plans'
    BY <2>3, ImportPlans, ImportDepPlans, ImportSavePlans
  <2>4. ASSUME NEW t \in Tabs, NEW p \in Projects, Edits(t, p) PROVE Plans'
    BY <2>4, EditsPlans
  <2>5. ASSUME NEW t \in Tabs, NEW p \in Projects, Assign(t, p) PROVE Plans'
    <3>1. PICK w \in Waves \cup {Nothing} : Assigns(t, p, w)
      BY <2>5, AssignAssigns
    <3>2. UNCHANGED import /\ (clashed => clashed')
      BY <3>1 DEF Assigns, Request
    <3> QED BY <1>1, <3>1, <3>2, AssignTypes
  <2>6. ASSUME NEW r \in net, Serve(r) PROVE Plans'
    <3>1. UNCHANGED <<import, clashed>>
      BY <2>6, ServeEffects
    <3> QED BY <1>1, <2>6, <3>1, ServeTypes
  <2>7. ASSUME NEW r \in net, Reply(r) \/ Fail(r) PROVE Plans'
    <3>1. ImportGoesOn(r) /\ UNCHANGED clashed
      BY <2>7, ReplyEffects, FailEffects
    <3>2. \A u \in Tabs : import'[u].plans = <<>> \/
             (import'[u].plans = import[u].plans /\ import'[u].map = import[u].map)
      BY <3>1, GoesOn DEF Types
    <3>3. JobsAcyclic'
      BY <3>2 DEF Plans, JobsAcyclic
    <3> QED BY <2>7, <3>1, <3>3, AnswerTypes, CalmPlans DEF Plans
  <2> QED BY <1>3, <2>1, <2>2, <2>3, <2>4, <2>5, <2>6, <2>7, StepKinds
<1> QED BY <1>2, <1>3

LEMMA PlansInit == Init => Plans
<1> SUFFICES ASSUME Init PROVE Plans
  OBVIOUS
<1> DEFINE given == [p \in Projects |-> Given(server[p].plan)]
<1>1. Acyclic(Merged(given, Projects)) /\ \A p \in Projects : DOMAIN given[p] \subseteq Presets[p]
  BY StartRows
<1>2. \A p \in Projects : \A x \in Everywhere(p) : x = given[p] \/ x = Empty
  <2>1. /\ live = [t \in Tabs |-> [p \in Projects |-> NoRecord]]
        /\ local = [t \in Tabs |-> [p \in Projects |-> Nothing]]
        /\ net = {}
    BY DEF Init
  <2> QED BY <2>1, Places, NoRecordRow DEF Given
<1>3. \A p, q \in Projects : p # q => DOMAIN given[p] \cap DOMAIN given[q] = {}
  BY <1>1, PlanningAssumption
<1>4. ASSUME NEW p \in Projects PROVE Acyclic(given[p])
  <2>1. \A i \in DOMAIN given[p] : Merged(given, Projects)[i] = given[p][i]
    <3> TAKE i \in DOMAIN given[p]
    <3>1. \A q \in Projects \ {p} : i \notin DOMAIN given[q]
      BY <1>3
    <3> HIDE DEF given
    <3> QED BY <3>1, MergedIsPlan
  <2>2. DOMAIN given[p] \subseteq DOMAIN Merged(given, Projects)
    <3> HIDE DEF given
    <3>1. DOMAIN Merged(given, Projects) = UNION {DOMAIN given[q] : q \in Projects}
      BY MergedDomain
    <3> QED BY <3>1
  <2> HIDE DEF given
  <2> QED BY <1>1, <2>1, <2>2, Shrinks
<1> HIDE DEF given
<1>5. PlansAcyclic
  BY <1>2, <1>4, EmptyPlan DEF PlansAcyclic
<1>6. Apart
  BY <1>2, <1>3, EmptyPlan DEF Apart
<1>7. JobsAcyclic
  <2>1. \A t \in Tabs : DOMAIN import[t].plans = {}
    BY DEF Init, NoImport
  <2> QED BY <2>1 DEF JobsAcyclic
<1> QED BY <1>5, <1>6, <1>7 DEF Plans

\* No plan that the database, a tab or a request holds ever has a cycle, as long as
\* no id has been used in two projects: isDAGSafe searches what its tab shows,
\* handleImportFile what it has read so far, and that is enough for each plan of its
\* own, however old it is and whatever fails or comes from another tab.
THEOREM PlansStayAcyclic == Spec => []PlansAcyclic
<1>1. Types /\ Plans => PlansAcyclic
  BY DEF Plans
<1>2. Init => Types /\ Plans
  BY TypesInit, PlansInit
<1>3. Types /\ Plans /\ [Next]_vars => (Types /\ Plans)'
  BY TypesStep, PlansStep
<1> QED BY <1>1, <1>2, <1>3, PTL DEF Spec

---------------------------------------------------------------------------
(* Whoever stored last sees it *)

\* Edits, imports and assignments send a request and show its plan or wave.
LEMMA SendsSeen ==
    ASSUME Types, Seen, NEW t \in Tabs, NEW p \in Projects, NEW m,
           m.tab = t, m.project = p, m.at = "sent", net' = net \cup {m},
           mixed' = IF InFlight(p) # {} THEN mixed \cup {p} ELSE mixed,
           UNCHANGED <<server, page, last>>,
           \A u \in Tabs, q \in Projects : ~(u = t /\ q = p) =>
               Shown(u, q)' = Shown(u, q) /\ live'[u][q].wave = live[u][q].wave,
           m.kind # "wave" => Shown(t, p)' = m.plan /\ live'[t][p].wave = live[t][p].wave,
           m.kind = "wave" => Shown(t, p)' = Shown(t, p) /\ live'[t][p].wave = m.wave
    PROVE  Seen'
<1>1. \A q \in Projects \ mixed' : q \notin mixed /\ (q = p => \A r \in net : r.project # p)
  BY DEF InFlight
<1>2. \A r \in net : r.project \in Projects
  BY DEF Types, States, Message
<1>3. OneAtATime'
  <2> SUFFICES ASSUME NEW r \in net', NEW s \in net', r.project = s.project, r.project \notin mixed'
               PROVE  r = s
    BY DEF OneAtATime
  <2>1. r.project \in Projects
    BY <1>2
  <2> QED BY <1>1, <2>1 DEF Seen, OneAtATime
<1>4. Answered'
  <2> SUFFICES ASSUME NEW r \in net', r.project \notin mixed', r.at = "served"
               PROVE  /\ r.answer = server'[r.project]
                      /\ r.kind # "wave" => r.answer.plan = r.plan
                      /\ r.kind = "wave" => r.answer.wave = r.wave
    BY DEF Answered
  <2>1. r \in net /\ r.project \notin mixed
    BY <1>1, <1>2
  <2> QED BY <2>1 DEF Seen, Answered
<1>5. Awaited'
  <2> SUFFICES ASSUME NEW r \in net', r.project \notin mixed', r.tab # Nothing
               PROVE  /\ r.kind # "wave" => Shown(r.tab, r.project)' = r.plan
                      /\ r.kind = "wave" => live'[r.tab][r.project].wave = r.wave
    BY DEF Awaited
  <2>1. CASE r = m
    BY <2>1
  <2>2. CASE r # m
    <3>1. r \in net /\ r.project \in Projects /\ r.project # p /\ r.project \notin mixed /\ r.tab \in Tabs
      BY <1>1, <1>2, <2>2 DEF Types, States, Message
    <3>2. Shown(r.tab, r.project)' = Shown(r.tab, r.project)
          /\ live'[r.tab][r.project].wave = live[r.tab][r.project].wave
      BY <3>1
    <3> QED BY <3>1, <3>2 DEF Seen, Awaited
  <2> QED BY <2>1, <2>2
<1>6. Stored'
  <2> SUFFICES ASSUME NEW u \in Tabs, NEW q \in Projects \ mixed', page'[u] # "closed"
               PROVE  /\ (last'[q].plan = u /\ ~Waits(u, q, FALSE)') =>
                            Shown(u, q)' = Given(server'[q].plan)
                      /\ (last'[q].wave = u /\ ~Waits(u, q, TRUE)') =>
                            live'[u][q].wave = server'[q].wave
    BY Zenon DEF Stored
  <2>1. /\ (last[q].plan = u /\ ~Waits(u, q, FALSE)) => Shown(u, q) = Given(server[q].plan)
        /\ (last[q].wave = u /\ ~Waits(u, q, TRUE)) => live[u][q].wave = server[q].wave
    BY <1>1 DEF Seen, Stored
  <2>2. \A w \in BOOLEAN : ~Waits(u, q, w)' => ~Waits(u, q, w)
    BY DEF Waits
  <2>3. CASE ~(u = t /\ q = p)
    <3>1. Shown(u, q)' = Shown(u, q) /\ live'[u][q].wave = live[u][q].wave
      BY <2>3
    <3> QED BY <2>1, <2>2, <3>1
  <2>4. CASE u = t /\ q = p
    <3>1. m.kind # "wave" => Waits(u, q, FALSE)'
      BY <2>4 DEF Waits
    <3>2. m.kind = "wave" => Waits(u, q, TRUE)'
      BY <2>4 DEF Waits
    <3> QED BY <2>1, <2>2, <2>4, <3>1, <3>2
  <2> QED BY <2>3, <2>4
<1> QED BY <1>3, <1>4, <1>5, <1>6 DEF Seen

LEMMA PutsSeen ==
    ASSUME Types, Seen, NEW t \in Tabs, NEW p \in Projects, NEW kind \in {"plan", "reset"},
           NEW plan \in Plan, Puts(t, p, kind, plan)
    PROVE  Seen'
<1> DEFINE m == Message1(t, p, kind, plan, Nothing)
<1>1. /\ net' = net \cup {m} /\ m.tab = t /\ m.project = p /\ m.at = "sent"
      /\ m.kind = kind /\ m.plan = plan
  BY Requests DEF Puts, Kinds
<1> HIDE DEF m
<1>2. UNCHANGED <<server, page, last>>
      /\ mixed' = IF InFlight(p) # {} THEN mixed \cup {p} ELSE mixed
  BY DEF Puts, Request
<1>3. /\ \A u \in Tabs, q \in Projects : ~(u = t /\ q = p) =>
            Shown(u, q)' = Shown(u, q) /\ live'[u][q].wave = live[u][q].wave
      /\ Shown(t, p)' = plan /\ live'[t][p].wave = live[t][p].wave
  BY PutsCopies
<1>4. m.kind # "wave"
  BY <1>1
<1> QED BY <1>1, <1>2, <1>3, <1>4, SendsSeen

LEMMA AssignSeen ==
    ASSUME Types, Seen, NEW t \in Tabs, NEW p \in Projects, NEW w \in Waves \cup {Nothing},
           Assigns(t, p, w)
    PROVE  Seen'
<1> DEFINE m == Message1(t, p, "wave", Empty, w)
<1>1. /\ net' = net \cup {m} /\ m.tab = t /\ m.project = p /\ m.at = "sent"
      /\ m.kind = "wave" /\ m.wave = w
  BY Requests, EmptyPlan DEF Assigns, Kinds
<1> HIDE DEF m
<1>2. /\ PutsWave(t, p, w) /\ UNCHANGED <<server, page, last, local>>
      /\ mixed' = IF InFlight(p) # {} THEN mixed \cup {p} ELSE mixed
  BY DEF Assigns, Request
<1>3. /\ \A u \in Tabs, q \in Projects :
            /\ live'[u][q].plan = live[u][q].plan
            /\ ~(u = t /\ q = p) => live'[u][q] = live[u][q]
      /\ live'[t][p].wave = w
  BY <1>2, AssignCopies
<1>4. \A u \in Tabs, q \in Projects : Shown(u, q)' = Shown(u, q)
  BY <1>2, <1>3 DEF Shown
<1> QED BY <1>1, <1>2, <1>3, <1>4, SendsSeen

\* A save shows its plan until it is stored.
LEMMA ServeSeen ==
    ASSUME Types, Seen, NEW r \in net, Serve(r)
    PROVE  Seen'
<1> DEFINE s == ServedAs(r)
           p == r.project
<1>1. /\ r.at = "sent" /\ p \in Projects
      /\ net' = (net \ {r}) \cup {s}
      /\ s.tab = r.tab /\ s.project = p /\ s.kind = r.kind
      /\ s.plan = r.plan /\ s.wave = r.wave /\ s.at = "served" /\ s.answer = server'[p]
      /\ \A q \in Projects : q # p => server'[q] = server[q]
      /\ r.kind = "wave" => server'[p].plan = server[p].plan /\ server'[p].wave = r.wave
      /\ r.kind # "wave" => server'[p].plan = r.plan /\ server'[p].wave = server[p].wave
      /\ UNCHANGED <<page, live, local, mixed>>
      /\ \A u \in Tabs, q \in Projects : Shown(u, q)' = Shown(u, q)
  BY ServeEffects
<1>2. \A x \in net : x.project \in Projects /\ x.tab \in Tabs \cup {Nothing} /\ x.plan \in Plan
  BY DEF Types, States, Message
<1>3. /\ \A q \in Projects : q # p => last'[q] = last[q]
      /\ r.kind = "wave" => last'[p].plan = last[p].plan
      /\ r.kind # "wave" => last'[p].plan = r.tab /\ last'[p].wave = last[p].wave
  <2> DEFINE old == last[p]
             w == IF r.kind = "wave" THEN [old EXCEPT !.wave = r.tab] ELSE [old EXCEPT !.plan = r.tab]
  <2>1. last' = [last EXCEPT ![p] = w]
    BY DEF Serve
  <2>2. old \in Writers /\ last \in [Projects -> Writers]
    BY <1>1 DEF Types, States
  <2> HIDE DEF old
  <2>3. /\ r.kind = "wave" => w.plan = old.plan
        /\ r.kind # "wave" => w.plan = r.tab /\ w.wave = old.wave
    BY <2>2 DEF Writers
  <2> HIDE DEF w
  <2> QED BY <1>1, <2>1, <2>2, <2>3 DEF old
<1>4. r.kind = "wave" => last'[p].wave = r.tab
  <2>1. CASE r.kind = "wave"
    <3>1. last' = [last EXCEPT ![p] = [@ EXCEPT !.wave = r.tab]]
      BY <2>1 DEF Serve
    <3>2. last[p] \in Writers /\ last \in [Projects -> Writers]
      BY <1>1 DEF Types, States
    <3> QED BY <1>1, <3>1, <3>2 DEF Writers
  <2> QED BY <2>1
<1> HIDE DEF s, p
<1>5. OneAtATime'
  <2> SUFFICES ASSUME NEW x \in net', NEW y \in net', x.project = y.project, x.project \notin mixed'
               PROVE  x = y
    BY DEF OneAtATime
  <2> QED BY <1>1 DEF Seen, OneAtATime, p
<1>6. \A x \in net' : (x # s /\ x.project \notin mixed) => x.project # p
  BY <1>1 DEF Seen, OneAtATime, p
<1>7. Answered'
  <2> SUFFICES ASSUME NEW x \in net', x.project \notin mixed', x.at = "served"
               PROVE  /\ x.answer = server'[x.project]
                      /\ x.kind # "wave" => x.answer.plan = x.plan
                      /\ x.kind = "wave" => x.answer.wave = x.wave
    BY DEF Answered
  <2>1. CASE x = s
    BY <1>1, <2>1
  <2>2. CASE x # s
    BY <1>1, <1>2, <1>6, <2>2 DEF Seen, Answered
  <2> QED BY <2>1, <2>2
<1>8. Awaited'
  <2> SUFFICES ASSUME NEW x \in net', x.project \notin mixed', x.tab # Nothing
               PROVE  /\ x.kind # "wave" => Shown(x.tab, x.project)' = x.plan
                      /\ x.kind = "wave" => live'[x.tab][x.project].wave = x.wave
    BY DEF Awaited
  <2>1. PICK y \in net : /\ y.tab = x.tab /\ y.project = x.project /\ y.kind = x.kind
                         /\ y.plan = x.plan /\ y.wave = x.wave
    BY <1>1 DEF p
  <2>2. /\ y.kind # "wave" => Shown(y.tab, y.project) = y.plan
        /\ y.kind = "wave" => live[y.tab][y.project].wave = y.wave
    BY <1>1, <2>1 DEF Seen, Awaited
  <2>3. y.tab \in Tabs /\ y.project \in Projects
    BY <1>2, <2>1
  <2> QED BY <1>1, <2>1, <2>2, <2>3
<1>9. Stored'
  <2> SUFFICES ASSUME NEW u \in Tabs, NEW q \in Projects \ mixed', page'[u] # "closed"
               PROVE  /\ (last'[q].plan = u /\ ~Waits(u, q, FALSE)') =>
                            Shown(u, q)' = Given(server'[q].plan)
                      /\ (last'[q].wave = u /\ ~Waits(u, q, TRUE)') =>
                            live'[u][q].wave = server'[q].wave
    BY Zenon DEF Stored
  <2>1. /\ (last[q].plan = u /\ ~Waits(u, q, FALSE)) => Shown(u, q) = Given(server[q].plan)
        /\ (last[q].wave = u /\ ~Waits(u, q, TRUE)) => live[u][q].wave = server[q].wave
    BY <1>1 DEF Seen, Stored
  <2>2. \A w \in BOOLEAN : (q # p \/ w # (r.kind = "wave")) =>
            (~Waits(u, q, w)' => ~Waits(u, q, w))
    BY <1>1 DEF Waits, p
  <2>3. CASE q # p
    BY <1>1, <1>3, <2>1, <2>2, <2>3
  <2>4. CASE q = p /\ r.kind # "wave"
    <3>1. last'[q].plan = u => Shown(u, q) = r.plan /\ Given(r.plan) = r.plan
      <4>1. Nothing \notin Tabs
        BY PlanningAssumption
      <4> QED BY <1>1, <1>2, <1>3, <2>4, <4>1, PlanFacts DEF Seen, Awaited, p
    <3> QED BY <1>1, <1>3, <2>1, <2>2, <2>4, <3>1
  <2>5. CASE q = p /\ r.kind = "wave"
    <3>1. last'[q].wave = u => live[u][q].wave = r.wave
      <4>1. Nothing \notin Tabs
        BY PlanningAssumption
      <4> QED BY <1>1, <1>4, <2>5, <4>1 DEF Seen, Awaited, p
    <3> QED BY <1>1, <1>3, <2>1, <2>2, <2>5, <3>1
  <2> QED BY <2>3, <2>4, <2>5
<1> QED BY <1>5, <1>7, <1>8, <1>9 DEF Seen

\* The whole project that an answer puts in place is the one that was stored.
LEMMA ReplySeen ==
    ASSUME Types, Seen, NEW r \in net, Reply(r)
    PROVE  Seen'
<1> DEFINE p == r.project
<1>1. /\ r.at = "served" /\ net' = net \ {r}
      /\ \A u \in Tabs, q \in Projects :
            live'[u][q] = IF u = r.tab /\ q = p /\ r.kind # "wave" THEN r.answer ELSE live[u][q]
      /\ UNCHANGED <<server, page, local, last, mixed>>
  BY ReplyEffects
<1>2. \A x \in net : x.project \in Projects /\ x.tab \in Tabs \cup {Nothing} /\ x.plan \in Plan
  BY DEF Types, States, Message
<1>3. Nothing \notin Tabs
  BY PlanningAssumption
<1>4. OneAtATime' /\ Answered'
  BY <1>1 DEF Seen, OneAtATime, Answered
<1>5. \A u \in Tabs, q \in Projects : ~(u = r.tab /\ q = p /\ r.kind # "wave") =>
          Shown(u, q)' = Shown(u, q) /\ live'[u][q] = live[u][q]
  BY <1>1 DEF Shown
<1>6. \A x \in net' : x.project \notin mixed => x.project # p
  BY <1>1 DEF Seen, OneAtATime
<1>7. Awaited'
  <2> SUFFICES ASSUME NEW x \in net', x.project \notin mixed', x.tab # Nothing
               PROVE  /\ x.kind # "wave" => Shown(x.tab, x.project)' = x.plan
                      /\ x.kind = "wave" => live'[x.tab][x.project].wave = x.wave
    BY DEF Awaited
  <2>1. x \in net /\ x.project # p /\ x.tab \in Tabs /\ x.project \in Projects
    BY <1>1, <1>2, <1>6
  <2>2. Shown(x.tab, x.project)' = Shown(x.tab, x.project)
        /\ live'[x.tab][x.project] = live[x.tab][x.project]
    BY <1>5, <2>1
  <2> QED BY <1>1, <2>1, <2>2 DEF Seen, Awaited
<1>8. Stored'
  <2> SUFFICES ASSUME NEW u \in Tabs, NEW q \in Projects \ mixed', page'[u] # "closed"
               PROVE  /\ (last'[q].plan = u /\ ~Waits(u, q, FALSE)') =>
                            Shown(u, q)' = Given(server'[q].plan)
                      /\ (last'[q].wave = u /\ ~Waits(u, q, TRUE)') =>
                            live'[u][q].wave = server'[q].wave
    BY Zenon DEF Stored
  <2>1. CASE u = r.tab /\ q = p /\ r.kind # "wave"
    <3>1. r.answer = server[q] /\ r.answer.plan = r.plan /\ Shown(u, q) = r.plan
      BY <1>1, <1>3, <2>1 DEF Seen, Answered, Awaited
    <3>2. live'[u][q] = server[q]
      BY <1>1, <2>1, <3>1
    <3>3. Given(r.plan) = r.plan
      BY <1>2, PlanFacts
    <3>4. Shown(u, q)' = IF local[u][q] # Nothing THEN local[u][q] ELSE Given(live'[u][q].plan)
      BY <1>1 DEF Shown
    <3>5. Shown(u, q) = IF local[u][q] # Nothing THEN local[u][q] ELSE Given(live[u][q].plan)
      BY DEF Shown
    <3> QED BY <1>1, <3>1, <3>2, <3>3, <3>4, <3>5
  <2>2. CASE ~(u = r.tab /\ q = p /\ r.kind # "wave")
    <3>1. \A w \in BOOLEAN : ~Waits(u, q, w)' => ~Waits(u, q, w)
      BY <1>1 DEF Waits
    <3>2. /\ (last[q].plan = u /\ ~Waits(u, q, FALSE)) => Shown(u, q) = Given(server[q].plan)
          /\ (last[q].wave = u /\ ~Waits(u, q, TRUE)) => live[u][q].wave = server[q].wave
      BY <1>1 DEF Seen, Stored
    <3>3. Shown(u, q)' = Shown(u, q) /\ live'[u][q] = live[u][q]
      BY <1>5, <2>2
    <3> QED BY <1>1, <3>1, <3>2, <3>3
  <2> QED BY <2>1, <2>2
<1> QED BY <1>4, <1>7, <1>8 DEF Seen

\* A loss leaves the other projects alone.
LEMMA FailSeen ==
    ASSUME Types, Seen, NEW r \in net, Fail(r)
    PROVE  Seen'
<1> DEFINE p == r.project
<1>1. /\ net' = net \ {r} /\ mixed' = mixed \cup {p}
      /\ \A u \in Tabs, q \in Projects :
            q # p => live'[u][q] = live[u][q] /\ local'[u][q] = local[u][q]
      /\ UNCHANGED <<server, page, last>>
  BY FailEffects
<1> HIDE DEF p
<1>2. \A x \in net : x.project \in Projects /\ x.tab \in Tabs \cup {Nothing}
  BY DEF Types, States, Message
<1>3. OneAtATime' /\ Answered'
  BY <1>1 DEF Seen, OneAtATime, Answered
<1>4. \A u \in Tabs, q \in Projects : q # p => Shown(u, q)' = Shown(u, q)
  BY <1>1 DEF Shown
<1>5. Awaited'
  <2> SUFFICES ASSUME NEW x \in net', x.project \notin mixed', x.tab # Nothing
               PROVE  /\ x.kind # "wave" => Shown(x.tab, x.project)' = x.plan
                      /\ x.kind = "wave" => live'[x.tab][x.project].wave = x.wave
    BY DEF Awaited
  <2>1. x \in net /\ x.project # p /\ x.tab \in Tabs /\ x.project \in Projects /\ x.project \notin mixed
    BY <1>1, <1>2
  <2>2. Shown(x.tab, x.project)' = Shown(x.tab, x.project)
        /\ live'[x.tab][x.project] = live[x.tab][x.project]
    BY <1>1, <1>4, <2>1
  <2> QED BY <2>1, <2>2 DEF Seen, Awaited
<1>6. Stored'
  <2> SUFFICES ASSUME NEW u \in Tabs, NEW q \in Projects \ mixed', page'[u] # "closed"
               PROVE  /\ (last'[q].plan = u /\ ~Waits(u, q, FALSE)') =>
                            Shown(u, q)' = Given(server'[q].plan)
                      /\ (last'[q].wave = u /\ ~Waits(u, q, TRUE)') =>
                            live'[u][q].wave = server'[q].wave
    BY Zenon DEF Stored
  <2>1. q # p /\ q \notin mixed
    BY <1>1
  <2>2. \A w \in BOOLEAN : ~Waits(u, q, w)' => ~Waits(u, q, w)
    <3>1. \A x \in net : x.project = q => x \in net'
      BY <1>1, <2>1 DEF p
    <3> QED BY <3>1 DEF Waits
  <2>3. /\ (last[q].plan = u /\ ~Waits(u, q, FALSE)) => Shown(u, q) = Given(server[q].plan)
        /\ (last[q].wave = u /\ ~Waits(u, q, TRUE)) => live[u][q].wave = server[q].wave
    BY <1>1, <2>1 DEF Seen, Stored
  <2>4. Shown(u, q)' = Shown(u, q) /\ live'[u][q] = live[u][q]
    BY <1>1, <1>4, <2>1
  <2> QED BY <1>1, <2>2, <2>3, <2>4
<1> QED BY <1>3, <1>5, <1>6 DEF Seen

\* A page as it is read shows what is stored.
LEMMA OpenPageSeen ==
    ASSUME Types, Seen, NEW t \in Tabs, OpenPage(t)
    PROVE  Seen'
<1>1. /\ page[t] = "closed" /\ page' = [page EXCEPT ![t] = "loading"]
      /\ live' = [live EXCEPT ![t] = server]
      /\ UNCHANGED <<server, local, net, last, mixed>>
  BY DEF OpenPage
<1>2. (\A q \in Projects : local[t][q] = Nothing) /\ \A r \in net : r.tab # t
  BY <1>1 DEF Types, Shut, Open
<1>3. \A u \in Tabs, q \in Projects :
        /\ u # t => live'[u][q] = live[u][q] /\ Shown(u, q)' = Shown(u, q) /\ page'[u] = page[u]
        /\ u = t => live'[u][q] = server[q] /\ Shown(u, q)' = Given(server[q].plan)
  BY <1>1, <1>2 DEF Types, States, Shown
<1>4. \A x \in net : x.project \in Projects /\ x.tab \in Tabs \cup {Nothing}
  BY DEF Types, States, Message
<1>5. OneAtATime' /\ Answered'
  BY <1>1 DEF Seen, OneAtATime, Answered
<1>6. Awaited'
  BY <1>1, <1>2, <1>3, <1>4 DEF Seen, Awaited
<1>7. Stored'
  <2> SUFFICES ASSUME NEW u \in Tabs, NEW q \in Projects \ mixed', page'[u] # "closed"
               PROVE  /\ (last'[q].plan = u /\ ~Waits(u, q, FALSE)') =>
                            Shown(u, q)' = Given(server'[q].plan)
                      /\ (last'[q].wave = u /\ ~Waits(u, q, TRUE)') =>
                            live'[u][q].wave = server'[q].wave
    BY Zenon DEF Stored
  <2>1. CASE u = t
    <3>1. live'[u][q] = server[q] /\ Shown(u, q)' = Given(server[q].plan) /\ server' = server
      BY <1>1, <1>3, <2>1
    <3> QED BY <3>1
  <2>2. CASE u # t
    <3>1. \A w \in BOOLEAN : ~Waits(u, q, w)' => ~Waits(u, q, w)
      BY <1>1 DEF Waits
    <3>2. /\ (last[q].plan = u /\ ~Waits(u, q, FALSE)) => Shown(u, q) = Given(server[q].plan)
          /\ (last[q].wave = u /\ ~Waits(u, q, TRUE)) => live[u][q].wave = server[q].wave
      BY <1>1, <1>3, <2>2 DEF Seen, Stored
    <3> QED BY <1>1, <1>3, <2>2, <3>1, <3>2
  <2> QED BY <2>1, <2>2
<1> QED BY <1>5, <1>6, <1>7 DEF Seen

LEMMA LeaveSeen ==
    ASSUME Types, Seen, NEW t \in Tabs, Leave(t)
    PROVE  Seen'
<1>1. /\ net' = {Left(t, r) : r \in net}
      /\ page' = [page EXCEPT ![t] = "closed"]
      /\ \A u \in Tabs, q \in Projects :
           u # t => live'[u][q] = live[u][q] /\ Shown(u, q)' = Shown(u, q)
      /\ UNCHANGED <<server, last, mixed>>
  BY LeaveEffects
<1>2. \A x \in net : /\ x.project \in Projects /\ x.tab \in Tabs \cup {Nothing}
                     /\ Left(t, x).project = x.project /\ Left(t, x).kind = x.kind
                     /\ Left(t, x).plan = x.plan /\ Left(t, x).wave = x.wave
                     /\ Left(t, x).at = x.at /\ Left(t, x).answer = x.answer
                     /\ Left(t, x).tab = IF x.tab = t THEN Nothing ELSE x.tab
  BY LeftFields DEF Types, States, Message
<1>3. OneAtATime'
  BY <1>1, <1>2 DEF Seen, OneAtATime
<1>4. Answered'
  <2> SUFFICES ASSUME NEW y \in net', y.project \notin mixed', y.at = "served"
               PROVE  /\ y.answer = server'[y.project]
                      /\ y.kind # "wave" => y.answer.plan = y.plan
                      /\ y.kind = "wave" => y.answer.wave = y.wave
    BY DEF Answered
  <2>1. PICK x \in net : y = Left(t, x)
    BY <1>1
  <2> QED BY <1>1, <1>2, <2>1 DEF Seen, Answered
<1>5. Awaited'
  <2> SUFFICES ASSUME NEW y \in net', y.project \notin mixed', y.tab # Nothing
               PROVE  /\ y.kind # "wave" => Shown(y.tab, y.project)' = y.plan
                      /\ y.kind = "wave" => live'[y.tab][y.project].wave = y.wave
    BY DEF Awaited
  <2>1. PICK x \in net : y = Left(t, x)
    BY <1>1
  <2>2. x.tab # t /\ x.tab \in Tabs /\ x.project \in Projects /\ y.tab = x.tab /\ y.project = x.project
    BY <1>2, <2>1
  <2>3. Shown(x.tab, x.project)' = Shown(x.tab, x.project)
        /\ live'[x.tab][x.project] = live[x.tab][x.project]
    BY <1>1, <2>2
  <2>4. /\ x.kind # "wave" => Shown(x.tab, x.project) = x.plan
        /\ x.kind = "wave" => live[x.tab][x.project].wave = x.wave
    BY <1>1, <2>2 DEF Seen, Awaited
  <2> QED BY <1>2, <2>1, <2>2, <2>3, <2>4
<1>6. Stored'
  <2> SUFFICES ASSUME NEW u \in Tabs, NEW q \in Projects \ mixed', page'[u] # "closed"
               PROVE  /\ (last'[q].plan = u /\ ~Waits(u, q, FALSE)') =>
                            Shown(u, q)' = Given(server'[q].plan)
                      /\ (last'[q].wave = u /\ ~Waits(u, q, TRUE)') =>
                            live'[u][q].wave = server'[q].wave
    BY Zenon DEF Stored
  <2>1. u # t /\ page[u] # "closed"
    BY <1>1 DEF Types, States
  <2>2. \A w \in BOOLEAN : ~Waits(u, q, w)' => ~Waits(u, q, w)
    BY <1>1, <1>2, <2>1 DEF Waits
  <2>3. /\ (last[q].plan = u /\ ~Waits(u, q, FALSE)) => Shown(u, q) = Given(server[q].plan)
        /\ (last[q].wave = u /\ ~Waits(u, q, TRUE)) => live[u][q].wave = server[q].wave
    BY <1>1, <2>1 DEF Seen, Stored
  <2> QED BY <1>1, <2>1, <2>2, <2>3
<1> QED BY <1>3, <1>4, <1>5, <1>6 DEF Seen

\* Steps that show and send nothing.
LEMMA SameSeen ==
    ASSUME Types, Seen, UNCHANGED <<server, live, local, net, last, mixed>>,
           \A u \in Tabs : page'[u] = "closed" <=> page[u] = "closed"
    PROVE  Seen'
<1>1. \A u \in Tabs, q \in Projects : Shown(u, q)' = Shown(u, q)
  BY DEF Shown
<1>2. OneAtATime' /\ Answered'
  BY DEF Seen, OneAtATime, Answered
<1>3. \A x \in net : x.project \in Projects /\ x.tab \in Tabs \cup {Nothing}
  BY DEF Types, States, Message
<1>4. Awaited'
  BY <1>1, <1>3 DEF Seen, Awaited
<1>5. \A u \in Tabs, q \in Projects, w \in BOOLEAN : Waits(u, q, w)' <=> Waits(u, q, w)
  BY DEF Waits
<1>6. Stored'
  BY <1>1, <1>5 DEF Seen, Stored
<1> QED BY <1>2, <1>4, <1>6 DEF Seen

LEMMA SeenStep == Types /\ Seen /\ [Next]_vars => Seen'
<1> SUFFICES ASSUME Types, Seen, [Next]_vars PROVE Seen'
  OBVIOUS
<1>1. CASE UNCHANGED vars
  <2>1. UNCHANGED <<server, live, local, net, last, mixed, page>>
    BY <1>1 DEF vars
  <2> QED BY <2>1, SameSeen
<1>2. CASE Next
  <2>1. ASSUME NEW t \in Tabs, OpenPage(t) \/ Leave(t) PROVE Seen'
    BY <2>1, OpenPageSeen, LeaveSeen
  <2>2. ASSUME NEW t \in Tabs, Arrive(t) PROVE Seen'
    <3>1. UNCHANGED <<server, live, local, net, last, mixed>>
          /\ page[t] = "loading" /\ page' = [page EXCEPT ![t] = "open"]
      BY <2>2 DEF Arrive
    <3>2. \A u \in Tabs : page'[u] = "closed" <=> page[u] = "closed"
      BY <3>1 DEF Types, States
    <3> QED BY <3>1, <3>2, SameSeen
  <2>3. ASSUME NEW t \in Tabs, Import(t) \/ ImportDep(t) PROVE Seen'
    <3>1. UNCHANGED <<server, live, local, net, last, mixed, page>>
      BY <2>3, ImportEffects, ImportDepEffects
    <3> QED BY <3>1, SameSeen
  <2>4. ASSUME NEW t \in Tabs, ImportSave(t) PROVE Seen'
    <3> DEFINE p == Head(import[t].plans).project
               plan == Part(import[t].map, Head(import[t].plans).ids)
    <3>1. p \in Projects /\ plan \in Plan /\ Puts(t, p, "plan", plan)
      BY <2>4, ImportSaveEffects
    <3> HIDE DEF p, plan
    <3> QED BY <3>1, PutsSeen
  <2>5. ASSUME NEW t \in Tabs, NEW p \in Projects, Edits(t, p) PROVE Seen'
    <3>1. PICK kind \in {"plan", "reset"}, plan \in Plan : Puts(t, p, kind, plan)
      BY <2>5, EditsPut
    <3> QED BY <3>1, PutsSeen
  <2>6. ASSUME NEW t \in Tabs, NEW p \in Projects, Assign(t, p) PROVE Seen'
    BY <2>6, AssignAssigns, AssignSeen
  <2>7. ASSUME NEW r \in net, Serve(r) \/ Reply(r) \/ Fail(r) PROVE Seen'
    BY <2>7, ServeSeen, ReplySeen, FailSeen
  <2> QED BY <1>2, <2>1, <2>2, <2>3, <2>4, <2>5, <2>6, <2>7, StepKinds
<1> QED BY <1>1, <1>2

LEMMA SeenInit == Init => Seen
<1> SUFFICES ASSUME Init PROVE Seen
  OBVIOUS
<1>1. net = {} /\ page = [t \in Tabs |-> "closed"]
  BY DEF Init
<1> QED BY <1>1 DEF Seen, OneAtATime, Answered, Awaited, Stored

\* Whoever stored a plan or a wave last sees it once its requests are over, as long
\* as no save of the project failed and no two were in flight at once: although each
\* answer replaces the whole project (handleUpdatePlanning), it is then the project
\* as it is stored, and a copy that the chart keeps is the plan that was sent.
THEOREM WritersSeeWhatTheyStored == Spec => []WriterSeesStored
<1>1. Types /\ Seen => WriterSeesStored
  <2> SUFFICES ASSUME Types, Seen, NEW t \in Tabs, NEW p \in Projects \ mixed,
                      Open(t), InFlight(p) = {}
               PROVE  /\ last[p].plan = t => Shown(t, p) = Given(server[p].plan)
                      /\ last[p].wave = t => live[t][p].wave = server[p].wave
    BY DEF WriterSeesStored
  <2>1. ~Waits(t, p, FALSE) /\ ~Waits(t, p, TRUE)
    BY DEF Waits, InFlight
  <2>2. page[t] # "closed"
    BY DEF Open
  <2> QED BY <2>1, <2>2 DEF Seen, Stored
<1>2. Init => Types /\ Seen
  BY TypesInit, SeenInit
<1>3. Types /\ Seen /\ [Next]_vars => (Types /\ Seen)'
  BY TypesStep, SeenStep
<1> QED BY <1>1, <1>2, <1>3, PTL DEF Spec

---------------------------------------------------------------------------
(* The dependencies of all projects together *)

\* Of the newest request there is one.
LEMMA TargetIs ==
    ASSUME NEW S, NEW r, Newest(r, S), \A s \in S : s.id \in Nat,
           \A s, o \in S : s.id = o.id => s = o
    PROVE  (CHOOSE s \in S : Newest(s, S)) = r
<1> DEFINE c == CHOOSE s \in S : Newest(s, S)
<1>1. r \in S /\ \A s \in S : s.id =< r.id
  BY DEF Newest
<1>2. c \in S /\ Newest(c, S)
  BY <1>1
<1> HIDE DEF c
<1>3. r.id =< c.id /\ c.id =< r.id
  BY <1>1, <1>2 DEF Newest
<1>4. r.id = c.id
  BY <1>1, <1>2, <1>3
<1> QED BY <1>1, <1>2, <1>4 DEF c

LEMMA SentFacts ==
    ASSUME Types, NEW p \in Projects
    PROVE  /\ Sent(p) \subseteq net
           /\ \A r \in Sent(p) : /\ r.project = p /\ r.at = "sent" /\ r.kind # "wave"
                                 /\ r.id \in Nat /\ r.plan \in Plan /\ r.tab \in Tabs \cup {Nothing}
           /\ \A r, s \in Sent(p) : r.id = s.id => r = s
<1>1. Sent(p) \subseteq net /\ net \subseteq Message
  BY DEF Sent, Types, States
<1>2. \A r \in net : r.id \in Nat /\ r.plan \in Plan /\ r.tab \in Tabs \cup {Nothing}
  BY <1>1 DEF Message
<1>3. \A r, s \in net : r.id = s.id => r = s
  BY DEF Types, Numbered
<1> QED BY <1>1, <1>2, <1>3 DEF Sent

LEMMA TargetPlan ==
    ASSUME Types, Tidy, ~strayed, NEW p \in Projects
    PROVE  /\ Target(p) \in Plan /\ Target(p) \in Everywhere(p)
           /\ \A r : Newest(r, Sent(p)) => Target(p) = r.plan
<1>1. CASE Sent(p) = {}
  <2>1. server[p] \in Row
    BY DEF Types, States
  <2>2. Given(server[p].plan) \in Plan
    BY <2>1, GivenPlan DEF Row
  <2> QED BY <1>1, <2>2 DEF Target, Everywhere, Newest
<1>2. CASE Sent(p) # {}
  <2>1. PICK n \in Sent(p) : Newest(n, Sent(p))
    BY <1>2 DEF Tidy
  <2>2. ASSUME NEW r, Newest(r, Sent(p)) PROVE Target(p) = r.plan
    <3>1. (CHOOSE s \in Sent(p) : Newest(s, Sent(p))) = r
      BY <2>2, SentFacts, TargetIs
    <3> QED BY <1>2, <3>1 DEF Target
  <2>3. Target(p) = n.plan
    BY <2>1, <2>2
  <2>4. n \in net /\ n.project = p /\ n.plan \in Plan
    BY <2>1, SentFacts
  <2>5. n.plan \in Everywhere(p)
    BY <2>4, Places
  <2> QED BY <2>2, <2>3, <2>4, <2>5
<1> QED BY <1>1, <1>2

\* An edit that is made aware of what is stored and under way shows what that
\* leads to, and nothing else is under way.
LEMMA AwareShows ==
    ASSUME Types, Tidy, ~strayed, NEW t \in Tabs, ~Unaware(t)
    PROVE  /\ \A p \in Projects : Shown(t, p) = Target(p)
           /\ \A p \in Projects : \A r \in Sent(p) : r.tab = t
           /\ \A u \in Tabs : u # t => ~Saving(u)
<1>1. /\ \A r \in net : (r.at = "sent" /\ r.kind # "wave") => r.tab = t
      /\ \A u \in Tabs \ {t} : import[u].plans = <<>>
      /\ \A p \in Projects :
            \/ Shown(t, p) = Given(server[p].plan)
            \/ \E r \in net : r.tab = t /\ r.project = p /\ r.at = "sent" /\ r.kind # "wave"
  BY DEF Unaware
<1>2. \A p \in Projects : \A r \in Sent(p) : r.tab = t
  BY <1>1 DEF Sent
<1>3. ASSUME NEW p \in Projects PROVE Shown(t, p) = Target(p)
  <2>1. CASE Sent(p) = {}
    <3>1. ~\E r \in net : r.tab = t /\ r.project = p /\ r.at = "sent" /\ r.kind # "wave"
      BY <2>1 DEF Sent
    <3> QED BY <1>1, <2>1, <3>1 DEF Target
  <2>2. CASE Sent(p) # {}
    <3>1. PICK r \in Sent(p) : TRUE
      BY <2>2
    <3>2. r.tab = t /\ r.tab # Nothing
      BY <1>2, PlanningAssumption
    <3> QED BY <3>1, <3>2 DEF Tidy
  <2> QED BY <2>1, <2>2
<1> QED BY <1>1, <1>2, <1>3 DEF Saving

\* A merge stays within what has no cycle.
LEMMA MergedWithin ==
    ASSUME NEW plans, NEW among \in SUBSET Projects, NEW g, Acyclic(g),
           \A p, q \in among : p # q => DOMAIN plans[p] \cap DOMAIN plans[q] = {},
           \A q \in among : \A i \in DOMAIN plans[q] :
               plans[q][i] = {} \/ (i \in DOMAIN g /\ plans[q][i] \subseteq g[i])
    PROVE  Acyclic(Merged(plans, among))
<1> DEFINE h == Merged(plans, among)
<1>1. DOMAIN h = UNION {DOMAIN plans[q] : q \in among}
  BY MergedDomain
<1>2. ASSUME NEW i \in DOMAIN h PROVE h[i] = {} \/ (i \in DOMAIN g /\ h[i] \subseteq g[i])
  <2>1. PICK q \in among : i \in DOMAIN plans[q]
    BY <1>1
  <2>2. \A o \in among \ {q} : i \notin DOMAIN plans[o]
    BY <2>1
  <2>3. h[i] = plans[q][i]
    BY <2>1, <2>2, MergedIsPlan
  <2> HIDE DEF h
  <2> QED BY <2>1, <2>3
<1> HIDE DEF h
<1>3. Acyclic(h)
  BY <1>2, Grows
<1> QED BY <1>3 DEF h

\* What the saves under way lead to is in its merge, project by project.
LEMMA TargetsMerge ==
    ASSUME Types, Tidy, ~strayed, Apart, ~clashed
    PROVE  /\ \A p, q \in Projects : p # q => DOMAIN Target(p) \cap DOMAIN Target(q) = {}
           /\ \A p \in Projects : \A i \in DOMAIN Target(p) :
                 i \in DOMAIN Merged(Targets, Projects) /\ Merged(Targets, Projects)[i] = Target(p)[i]
           /\ \A p \in Projects : Targets[p] = Target(p)
<1>1. \A p \in Projects : Targets[p] = Target(p)
  BY DEF Targets
<1>2. \A p, q \in Projects : p # q => DOMAIN Target(p) \cap DOMAIN Target(q) = {}
  BY TargetPlan DEF Apart
<1>3. ASSUME NEW p \in Projects, NEW i \in DOMAIN Target(p)
      PROVE  i \in DOMAIN Merged(Targets, Projects) /\ Merged(Targets, Projects)[i] = Target(p)[i]
  <2>1. \A q \in Projects \ {p} : i \notin DOMAIN Targets[q]
    BY <1>1, <1>2
  <2>2. Merged(Targets, Projects)[i] = Targets[p][i]
    BY <1>1, <2>1, MergedIsPlan
  <2>3. DOMAIN Merged(Targets, Projects) = UNION {DOMAIN Targets[q] : q \in Projects}
    BY MergedDomain
  <2> QED BY <1>1, <2>2, <2>3
<1> QED BY <1>1, <1>2, <1>3

\* Steps that send no plan and start, save and end no import that still has one.
LEMMA SoundKept ==
    ASSUME Sound, strayed => strayed', clashed => clashed',
           ~strayed' => \A p \in Projects : Target(p)' = Target(p),
           ~strayed' => \A u \in Tabs :
               \/ import[u].plans = <<>> /\ import'[u].plans = <<>>
               \/ import'[u].plans = import[u].plans /\ import'[u].map = import[u].map
    PROVE  Sound'
<1> SUFFICES ASSUME ~strayed', ~clashed'
             PROVE  /\ \A t, u \in Tabs : (Saving(t)' /\ Saving(u)') => t = u
                    /\ \A t \in Tabs : Saving(t)' => Known(import[t])'
                    /\ (\A t \in Tabs : ~Saving(t)') => Acyclic(Merged(Targets', Projects))
  BY Zenon DEF Sound
<1>1. \A t \in Tabs : Saving(t)' <=> Saving(t)
  BY DEF Saving
<1>2. Targets' = Targets
  BY DEF Targets
<1>3. /\ \A t, u \in Tabs : (Saving(t) /\ Saving(u)) => t = u
      /\ \A t \in Tabs : Saving(t) => Known(import[t])
      /\ (\A t \in Tabs : ~Saving(t)) => Acyclic(Merged(Targets, Projects))
  BY DEF Sound
<1>4. ASSUME NEW t \in Tabs, Saving(t)' PROVE Known(import[t])'
  <2>1. Known(import[t]) /\ import'[t].plans = import[t].plans /\ import'[t].map = import[t].map
    BY <1>1, <1>3, <1>4 DEF Saving
  <2>2. RestIds(import'[t]) = RestIds(import[t]) /\ RestProjects(import'[t]) = RestProjects(import[t])
    BY <2>1 DEF RestIds, RestProjects
  <2> QED BY <2>1, <2>2 DEF Known
<1> QED BY <1>1, <1>2, <1>3, <1>4

LEMMA TidyKept ==
    ASSUME Tidy, strayed => strayed',
           \A p \in Projects : Sent(p)' = Sent(p),
           \A p \in Projects : server'[p].plan = server[p].plan,
           ~strayed' => \A p \in Projects : \A r \in Sent(p) :
               r.tab # Nothing => Shown(r.tab, p)' = Shown(r.tab, p)
    PROVE  Tidy' /\ \A p \in Projects : Target(p)' = Target(p)
<1>1. ASSUME NEW p \in Projects PROVE Target(p)' = Target(p)
  <2>1. Target(p)' = IF Sent(p)' = {} THEN Given(server'[p].plan)
                     ELSE (CHOOSE r \in Sent(p)' : Newest(r, Sent(p)')).plan
    BY DEF Target
  <2>2. Sent(p)' = Sent(p) /\ server'[p].plan = server[p].plan
    OBVIOUS
  <2> QED BY <2>1, <2>2 DEF Target
<1>2. Tidy'
  <2> SUFFICES ASSUME ~strayed'
               PROVE  /\ \A p \in Projects : Sent(p)' # {} => \E r \in Sent(p)' : Newest(r, Sent(p)')
                      /\ \A p, q \in Projects : \A r \in Sent(p)', s \in Sent(q)' : r.tab = s.tab
                      /\ \A p \in Projects : \A r \in Sent(p)' :
                            r.tab # Nothing => Shown(r.tab, p)' = Target(p)'
    BY Zenon DEF Tidy
  <2>1. /\ \A p \in Projects : Sent(p) # {} => \E r \in Sent(p) : Newest(r, Sent(p))
        /\ \A p, q \in Projects : \A r \in Sent(p), s \in Sent(q) : r.tab = s.tab
        /\ \A p \in Projects : \A r \in Sent(p) :
              r.tab # Nothing => Shown(r.tab, p) = Target(p)
    BY DEF Tidy
  <2> QED BY <1>1, <2>1
<1> QED BY <1>1, <1>2

\* Opening a page sends nothing, and it is no tab's that has requests.
LEMMA OpenPageSound ==
    ASSUME Types, Tidy, Sound, NEW t \in Tabs, OpenPage(t)
    PROVE  Tidy' /\ Sound'
<1>1. /\ page[t] = "closed" /\ live' = [live EXCEPT ![t] = server]
      /\ UNCHANGED <<server, local, import, net, clashed, strayed>>
  BY DEF OpenPage
<1>2. \A r \in net : r.tab # t
  BY <1>1 DEF Types, Shut, Open
<1>3. \A p \in Projects : Sent(p)' = Sent(p)
  BY <1>1 DEF Sent
<1>4. ASSUME NEW p \in Projects, NEW r \in Sent(p), r.tab # Nothing
      PROVE  Shown(r.tab, p)' = Shown(r.tab, p)
  <2>1. r.tab # t /\ r.tab \in Tabs
    BY <1>2, <1>4, SentFacts
  <2> QED BY <1>1, <2>1 DEF Shown, Types, States
<1>5. Tidy' /\ \A p \in Projects : Target(p)' = Target(p)
  BY <1>1, <1>3, <1>4, TidyKept
<1> QED BY <1>1, <1>5, SoundKept

\* Neither does anything that leaves plans, requests and imports alone.
LEMMA SameSound ==
    ASSUME Types, Tidy, Sound, strayed => strayed', clashed => clashed',
           \A p \in Projects : Sent(p)' = Sent(p),
           \A p \in Projects : server'[p].plan = server[p].plan,
           \A u \in Tabs, p \in Projects : Shown(u, p)' = Shown(u, p),
           \A u \in Tabs :
               \/ import[u].plans = <<>> /\ import'[u].plans = <<>>
               \/ import'[u].plans = import[u].plans /\ import'[u].map = import[u].map
    PROVE  Tidy' /\ Sound'
<1>1. \A p \in Projects : \A r \in Sent(p) : r.tab # Nothing => r.tab \in Tabs
  BY SentFacts
<1>2. Tidy' /\ \A p \in Projects : Target(p)' = Target(p)
  BY <1>1, TidyKept
<1> QED BY <1>2, SoundKept

LEMMA AssignSound ==
    ASSUME Types, Tidy, Sound, NEW t \in Tabs, NEW p \in Projects, NEW w \in Waves \cup {Nothing},
           Assigns(t, p, w)
    PROVE  Tidy' /\ Sound'
<1> DEFINE m == Message1(t, p, "wave", Empty, w)
<1>1. net' = net \cup {m} /\ m.kind = "wave"
  BY Requests, EmptyPlan DEF Assigns, Kinds
<1> HIDE DEF m
<1>2. /\ PutsWave(t, p, w) /\ UNCHANGED <<server, local, import, strayed>>
      /\ (clashed => clashed')
  BY DEF Assigns, Request
<1>3. \A u \in Tabs, q \in Projects : live'[u][q].plan = live[u][q].plan
  BY <1>2, AssignCopies
<1>4. \A u \in Tabs, q \in Projects : Shown(u, q)' = Shown(u, q)
  BY <1>2, <1>3 DEF Shown
<1>5. \A q \in Projects : Sent(q)' = Sent(q)
  BY <1>1 DEF Sent
<1> QED BY <1>2, <1>4, <1>5, SameSound

\* An answer that shows no older plan shows nothing new.
LEMMA ReplySound ==
    ASSUME Types, Tidy, Sound, NEW r \in net, Reply(r)
    PROVE  Tidy' /\ Sound'
<1>1. /\ r.at = "served" /\ net' = net \ {r} /\ ImportGoesOn(r)
      /\ \A u \in Tabs, q \in Projects :
            live'[u][q] = IF u = r.tab /\ q = r.project /\ r.kind # "wave" THEN r.answer
                          ELSE live[u][q]
      /\ UNCHANGED <<server, local, clashed>>
      /\ strayed' = (strayed \/ ShowsOlder(r))
  BY ReplyEffects
<1>2. \A u \in Tabs :
          \/ import[u].plans = <<>> /\ import'[u].plans = <<>>
          \/ import'[u].plans = import[u].plans /\ import'[u].map = import[u].map
  BY <1>1, GoesOn DEF Types
<1>3. \A q \in Projects : Sent(q)' = Sent(q)
  BY <1>1 DEF Sent
<1>4. ASSUME ~strayed', NEW u \in Tabs, NEW q \in Projects
      PROVE  Shown(u, q)' = Shown(u, q)
  <2>1. Shown(u, q)' = IF local[u][q] # Nothing THEN local[u][q] ELSE Given(live'[u][q].plan)
    BY <1>1 DEF Shown
  <2>2. CASE u = r.tab /\ q = r.project /\ r.kind # "wave"
    <3>1. u # Nothing
      BY PlanningAssumption
    <3>2. local[u][q] # Nothing \/ Given(r.answer.plan) = Given(live[u][q].plan)
      BY <1>1, <1>4, <2>2, <3>1 DEF ShowsOlder
    <3> QED BY <1>1, <2>1, <2>2, <3>2 DEF Shown
  <2>3. CASE ~(u = r.tab /\ q = r.project /\ r.kind # "wave")
    BY <1>1, <2>1, <2>3 DEF Shown
  <2> QED BY <2>2, <2>3
<1>5. \A p \in Projects : \A s \in Sent(p) : s.tab # Nothing => s.tab \in Tabs
  BY SentFacts
<1>6. Tidy' /\ \A p \in Projects : Target(p)' = Target(p)
  BY <1>1, <1>3, <1>4, <1>5, TidyKept
<1> QED BY <1>1, <1>2, <1>6, SoundKept

\* What is served is the oldest of its project; the newest, or what is stored, stays
\* what it was.
LEMMA ServeSound ==
    ASSUME Types, Tidy, Sound, NEW r \in net, Serve(r)
    PROVE  Tidy' /\ Sound'
<1> DEFINE s == ServedAs(r)
           p == r.project
<1>1. /\ r.at = "sent" /\ p \in Projects
      /\ net' = (net \ {r}) \cup {s} /\ s.at = "served"
      /\ \A q \in Projects : q # p => server'[q] = server[q]
      /\ r.kind = "wave" => server'[p].plan = server[p].plan
      /\ r.kind # "wave" => server'[p].plan = r.plan
      /\ UNCHANGED <<import, clashed>>
      /\ \A u \in Tabs, q \in Projects : Shown(u, q)' = Shown(u, q)
  BY ServeEffects
<1>2. strayed' = (strayed \/ \E o \in InFlight(p) : o.at = "sent" /\ o.id < r.id
                                                     /\ {o.kind, r.kind} \cap {"wave"} = {})
  BY DEF Serve
<1> HIDE DEF s, p
<1>3. \A q \in Projects : Sent(q)' = Sent(q) \ {r}
  BY <1>1 DEF Sent, p
<1>4. CASE r.kind = "wave"
  <2>1. \A q \in Projects : Sent(q)' = Sent(q)
    BY <1>3, <1>4 DEF Sent
  <2>2. \A q \in Projects : server'[q].plan = server[q].plan
    BY <1>1, <1>4
  <2> QED BY <1>1, <1>2, <2>1, <2>2, SameSound
<1>5. CASE r.kind # "wave"
  <2>1. \A q \in Projects : q # p => Sent(q)' = Sent(q)
    BY <1>3 DEF Sent, p
  <2>2. r \in Sent(p)
    BY <1>1, <1>5 DEF Sent, p
  <2>3. ASSUME ~strayed'
        PROVE  /\ \A o \in Sent(p) : r.id =< o.id
               /\ \A q \in Projects :
                    /\ Target(q)' = Target(q)
                    /\ Sent(q)' # {} => \E n \in Sent(q)' : Newest(n, Sent(q)')
    <3>1. ~strayed /\ \A o \in InFlight(p) : ~(o.at = "sent" /\ o.id < r.id
                                                 /\ {o.kind, r.kind} \cap {"wave"} = {})
      BY <1>2, <2>3
    <3>2. ASSUME NEW o \in Sent(p) PROVE r.id =< o.id
      <4>1. o \in InFlight(p) /\ o.at = "sent" /\ {o.kind, r.kind} \cap {"wave"} = {}
        BY <1>5 DEF Sent, InFlight
      <4>2. o.id \in Nat /\ r.id \in Nat
        BY <1>1, <2>2, SentFacts
      <4> QED BY <3>1, <4>1, <4>2
    <3>3. PICK n \in Sent(p) : Newest(n, Sent(p))
      BY <1>1, <2>2, <3>1 DEF Tidy
    <3>4. Target(p) = n.plan
      BY <1>1, <3>1, <3>3, TargetPlan
    <3>5. Sent(p)' = Sent(p) \ {r}
      BY <1>1, <1>3
    <3>6. /\ \A x \in Sent(p) : x.id \in Nat /\ x.plan \in Plan
          /\ \A x, y \in Sent(p) : x.id = y.id => x = y
      BY <1>1, SentFacts
    <3>7. CASE Sent(p)' = {}
      <4>1. n = r
        BY <3>3, <3>5, <3>7
      <4>2. Target(p)' = Given(server'[p].plan)
        BY <3>7 DEF Target
      <4>3. Given(r.plan) = r.plan
        BY <2>2, <3>6, PlanFacts
      <4>4. Target(p)' = Target(p)
        BY <1>1, <1>5, <3>4, <4>1, <4>2, <4>3
      <4>5. ASSUME NEW q \in Projects, q # p PROVE Target(q)' = Target(q)
        <5>1. Sent(q)' = Sent(q) /\ server'[q] = server[q]
          BY <1>1, <2>1, <4>5
        <5> QED BY <5>1 DEF Target
      <4>6. ASSUME NEW q \in Projects, Sent(q)' # {} PROVE \E x \in Sent(q)' : Newest(x, Sent(q)')
        <5>1. q # p /\ Sent(q)' = Sent(q)
          BY <2>1, <3>7, <4>6
        <5> QED BY <3>1, <4>6, <5>1 DEF Tidy
      <4> QED BY <3>2, <4>4, <4>5, <4>6
    <3>8. CASE Sent(p)' # {}
      <4>1. PICK x \in Sent(p) : x # r
        BY <3>5, <3>8
      <4>2. n # r
        <5>1. r.id =< x.id /\ x.id =< n.id
          BY <3>2, <3>3 DEF Newest
        <5> QED BY <2>2, <3>6, <4>1, <5>1
      <4>3. Newest(n, Sent(p)') /\ n \in Sent(p)'
        BY <3>3, <3>5, <4>2 DEF Newest
      <4>4. (CHOOSE y \in Sent(p)' : Newest(y, Sent(p)')) = n
        <5> DEFINE S == Sent(p)'
        <5>1. (\A y \in S : y.id \in Nat) /\ \A y, z \in S : y.id = z.id => y = z
          BY <3>5, <3>6
        <5>2. Newest(n, S)
          BY <4>3
        <5> HIDE DEF S
        <5>3. (CHOOSE y \in S : Newest(y, S)) = n
          BY <5>1, <5>2, TargetIs
        <5> QED BY <5>3 DEF S
      <4>5. Target(p)' = Target(p)
        BY <3>4, <3>8, <4>4 DEF Target
      <4>6. ASSUME NEW q \in Projects, q # p
            PROVE  /\ Target(q)' = Target(q)
                   /\ Sent(q)' # {} => \E y \in Sent(q)' : Newest(y, Sent(q)')
        <5>1. Sent(q)' = Sent(q) /\ server'[q] = server[q]
          BY <1>1, <2>1, <4>6
        <5> QED BY <3>1, <5>1 DEF Target, Tidy
      <4> QED BY <3>2, <4>3, <4>5, <4>6
    <3> QED BY <3>7, <3>8
  <2>4. Tidy'
    <3> SUFFICES ASSUME ~strayed'
                 PROVE  /\ \A q \in Projects : Sent(q)' # {} => \E n \in Sent(q)' : Newest(n, Sent(q)')
                        /\ \A q, o \in Projects : \A x \in Sent(q)', y \in Sent(o)' : x.tab = y.tab
                        /\ \A q \in Projects : \A x \in Sent(q)' :
                              x.tab # Nothing => Shown(x.tab, q)' = Target(q)'
      BY Zenon DEF Tidy
    <3>1. ~strayed
      BY <1>2
    <3>2. \A q, o \in Projects : \A x \in Sent(q)', y \in Sent(o)' : x.tab = y.tab
      BY <1>3, <3>1 DEF Tidy
    <3>3. ASSUME NEW q \in Projects, NEW x \in Sent(q)', x.tab # Nothing
          PROVE  Shown(x.tab, q)' = Target(q)'
      <4>1. x \in Sent(q) /\ x.tab \in Tabs
        BY <1>3, <3>3, SentFacts
      <4>2. Shown(x.tab, q)' = Shown(x.tab, q) /\ Target(q)' = Target(q)
        BY <1>1, <2>3, <4>1
      <4>3. Shown(x.tab, q) = Target(q)
        BY <3>1, <3>3, <4>1 DEF Tidy
      <4> QED BY <4>2, <4>3
    <3> QED BY <2>3, <3>2, <3>3
  <2>5. Sound'
    <3>1. strayed => strayed'
      BY <1>2
    <3>2. ~strayed' => \A q \in Projects : Target(q)' = Target(q)
      BY <2>3
    <3> QED BY <1>1, <3>1, <3>2, SoundKept
  <2> QED BY <2>4, <2>5
<1> QED BY <1>4, <1>5

\* A tab that is left half-way through an import is a stray; else its requests go
\* on and it shows nothing.
LEMMA LeaveSound ==
    ASSUME Types, Tidy, Sound, NEW t \in Tabs, Leave(t)
    PROVE  Tidy' /\ Sound'
<1>1. /\ net' = {Left(t, r) : r \in net}
      /\ \A u \in Tabs, q \in Projects : u # t => Shown(u, q)' = Shown(u, q) /\ import'[u] = import[u]
      /\ import'[t] = NoImport
      /\ UNCHANGED <<server, clashed>>
  BY LeaveEffects
<1>2. strayed' = (strayed \/ import[t] # NoImport)
  BY DEF Leave
<1>3. \A r \in net : /\ Left(t, r).project = r.project /\ Left(t, r).kind = r.kind
                     /\ Left(t, r).at = r.at /\ Left(t, r).id = r.id /\ Left(t, r).plan = r.plan
                     /\ Left(t, r).tab = IF r.tab = t THEN Nothing ELSE r.tab
  BY LeftFields DEF Types, States
<1>4. \A q \in Projects : /\ \A r \in Sent(q) : Left(t, r) \in Sent(q)'
                          /\ \A y \in Sent(q)' : \E r \in Sent(q) : y = Left(t, r)
  BY <1>1, <1>3 DEF Sent
<1>5. ASSUME ~strayed', NEW q \in Projects
      PROVE  /\ Target(q)' = Target(q)
             /\ Sent(q)' # {} => \E n \in Sent(q)' : Newest(n, Sent(q)')
  <2> DEFINE S == Sent(q)'
  <2>1. ~strayed
    BY <1>2, <1>5
  <2>2. CASE S = {}
    <3>1. Sent(q) = {}
      BY <1>4, <2>2
    <3>2. Target(q)' = Given(server'[q].plan)
      BY <2>2 DEF Target
    <3>3. Target(q) = Given(server[q].plan)
      BY <3>1 DEF Target
    <3> QED BY <1>1, <2>2, <3>2, <3>3
  <2>3. CASE S # {}
    <3>1. PICK n \in Sent(q) : Newest(n, Sent(q))
      <4>1. Sent(q) # {}
        BY <1>4, <2>3
      <4> QED BY <2>1, <4>1 DEF Tidy
    <3>2. Target(q) = n.plan
      BY <2>1, <3>1, TargetPlan
    <3>3. /\ \A x \in Sent(q) : x \in net /\ x.id \in Nat
          /\ \A x, y \in Sent(q) : x.id = y.id => x = y
      BY SentFacts
    <3> DEFINE c == Left(t, n)
    <3>4. c \in S /\ c.id = n.id /\ c.plan = n.plan
      BY <1>3, <1>4, <3>1, <3>3
    <3> HIDE DEF c
    <3>5. Newest(c, S)
      BY <1>3, <1>4, <3>1, <3>3, <3>4 DEF Newest
    <3>6. (\A y \in S : y.id \in Nat) /\ \A y, z \in S : y.id = z.id => y = z
      BY <1>3, <1>4, <3>3
    <3>7. Target(q)' = (CHOOSE y \in S : Newest(y, S)).plan
      BY <2>3 DEF Target
    <3> HIDE DEF S
    <3>8. (CHOOSE y \in S : Newest(y, S)) = c
      BY <3>5, <3>6, TargetIs
    <3>9. Target(q)' = Target(q)
      BY <3>2, <3>4, <3>7, <3>8
    <3> QED BY <3>4, <3>5, <3>9 DEF S
  <2> QED BY <2>2, <2>3
<1>6. Tidy'
  <2> SUFFICES ASSUME ~strayed'
               PROVE  /\ \A q \in Projects : Sent(q)' # {} => \E n \in Sent(q)' : Newest(n, Sent(q)')
                      /\ \A q, o \in Projects : \A x \in Sent(q)', y \in Sent(o)' : x.tab = y.tab
                      /\ \A q \in Projects : \A x \in Sent(q)' :
                            x.tab # Nothing => Shown(x.tab, q)' = Target(q)'
    BY Zenon DEF Tidy
  <2>1. ~strayed
    BY <1>2
  <2>2. \A q \in Projects : \A x \in Sent(q) : x \in net /\ x.tab \in Tabs \cup {Nothing}
    BY SentFacts
  <2>3. ASSUME NEW q \in Projects, NEW o \in Projects, NEW x \in Sent(q)', NEW y \in Sent(o)'
        PROVE  x.tab = y.tab
    <3>1. PICK a \in Sent(q) : x = Left(t, a)
      BY <1>4
    <3>2. PICK b \in Sent(o) : y = Left(t, b)
      BY <1>4
    <3>3. a.tab = b.tab
      BY <2>1 DEF Tidy
    <3> QED BY <1>3, <2>2, <3>1, <3>2, <3>3
  <2>4. ASSUME NEW q \in Projects, NEW y \in Sent(q)', y.tab # Nothing
        PROVE  Shown(y.tab, q)' = Target(q)'
    <3>1. PICK x \in Sent(q) : y = Left(t, x)
      BY <1>4
    <3>2. x.tab # t /\ y.tab = x.tab /\ x.tab \in Tabs
      BY <1>3, <2>2, <2>4, <3>1
    <3>3. Shown(x.tab, q)' = Shown(x.tab, q) /\ Target(q)' = Target(q)
      BY <1>1, <1>5, <3>2
    <3>4. Shown(x.tab, q) = Target(q)
      BY <2>1, <2>4, <3>2 DEF Tidy
    <3> QED BY <3>2, <3>3, <3>4
  <2> QED BY <1>5, <2>3, <2>4
<1>7. Sound'
  <2>1. ~strayed' => \A u \in Tabs :
               \/ import[u].plans = <<>> /\ import'[u].plans = <<>>
               \/ import'[u].plans = import[u].plans /\ import'[u].map = import[u].map
    <3>1. ASSUME ~strayed', NEW u \in Tabs PROVE import'[u] = import[u]
      <4>2. u = t => import[u] = NoImport
        BY <1>2, <3>1
      <4>3. u # t => import'[u] = import[u]
        BY DEF Leave, Types, Jobs
      <4> QED BY <1>1, <4>2, <4>3
    <3> QED BY <3>1
  <2>2. (strayed => strayed') /\ (clashed => clashed')
    BY <1>1, <1>2
  <2> QED BY <1>5, <2>1, <2>2, SoundKept
<1> QED BY <1>6, <1>7

\* A save by an aware tab: what its saves lead to changes in one project.
LEMMA PutsTidy ==
    ASSUME Types, Tidy, NEW t \in Tabs, NEW p \in Projects, NEW kind \in {"plan", "reset"},
           NEW plan \in Plan, Puts(t, p, kind, plan)
    PROVE  /\ Tidy'
           /\ ~strayed' => /\ ~strayed /\ ~Unaware(t) /\ Target(p)' = plan
                           /\ \A q \in Projects : q # p => Target(q)' = Target(q)
<1> DEFINE m == Message1(t, p, kind, plan, Nothing)
<1>1. /\ net' = net \cup {m} /\ m.tab = t /\ m.project = p /\ m.at = "sent" /\ m.kind = kind
      /\ m.plan = plan /\ m.id = used.sends + 1 /\ \A r \in net : r.id < m.id
  BY Requests DEF Puts, Kinds
<1> HIDE DEF m
<1>2. m.id \in Nat /\ \A q \in Projects : \A r \in Sent(q) : r.id \in Nat /\ r \in net
  BY <1>1, SentFacts DEF Types, States, Counters
<1>3. strayed' = (strayed \/ Unaware(t)) /\ server' = server
  BY DEF Puts
<1>4. Sent(p)' = Sent(p) \cup {m} /\ \A q \in Projects : q # p => Sent(q)' = Sent(q)
  BY <1>1 DEF Sent
<1>5. Newest(m, Sent(p)') /\ m \in Sent(p)'
  BY <1>1, <1>2, <1>4 DEF Newest
<1>6. Target(p)' = plan
  <2> DEFINE S == Sent(p)'
  <2>1. (\A y \in S : y.id \in Nat) /\ \A y, z \in S : y.id = z.id => y = z
    BY <1>1, <1>2, <1>4, SentFacts
  <2>2. Target(p)' = (CHOOSE y \in S : Newest(y, S)).plan
    BY <1>5 DEF Target
  <2>3. Newest(m, S)
    BY <1>5
  <2> HIDE DEF S
  <2>4. (CHOOSE y \in S : Newest(y, S)) = m
    BY <2>1, <2>3, TargetIs
  <2> QED BY <1>1, <2>2, <2>4
<1>7. ASSUME NEW q \in Projects, q # p PROVE Target(q)' = Target(q)
  <2>1. Sent(q)' = Sent(q) /\ server' = server
    BY <1>3, <1>4, <1>7
  <2> QED BY <2>1 DEF Target
<1>8. Tidy'
  <2> SUFFICES ASSUME ~strayed'
               PROVE  /\ \A q \in Projects : Sent(q)' # {} => \E n \in Sent(q)' : Newest(n, Sent(q)')
                      /\ \A q, o \in Projects : \A x \in Sent(q)', y \in Sent(o)' : x.tab = y.tab
                      /\ \A q \in Projects : \A x \in Sent(q)' :
                            x.tab # Nothing => Shown(x.tab, q)' = Target(q)'
    BY Zenon DEF Tidy
  <2>1. /\ \A q \in Projects : Shown(t, q) = Target(q)
        /\ \A q \in Projects : \A r \in Sent(q) : r.tab = t
    BY <1>3, AwareShows
  <2>2. ASSUME NEW q \in Projects, Sent(q)' # {} PROVE \E n \in Sent(q)' : Newest(n, Sent(q)')
    <3>1. CASE q = p
      BY <1>5, <3>1
    <3>2. CASE q # p
      <4>1. Sent(q)' = Sent(q)
        BY <1>4, <3>2
      <4> QED BY <1>3, <2>2, <4>1 DEF Tidy
    <3> QED BY <3>1, <3>2
  <2>3. \A q \in Projects : \A x \in Sent(q)' : x.tab = t
    BY <1>1, <1>4, <2>1
  <2>4. ASSUME NEW q \in Projects PROVE Shown(t, q)' = Target(q)'
    <3>1. CASE q = p
      BY <1>6, <3>1, PutsCopies
    <3>2. CASE q # p
      <4>1. Shown(t, q)' = Shown(t, q)
        BY <3>2, PutsCopies
      <4> QED BY <1>7, <2>1, <3>2, <4>1
    <3> QED BY <3>1, <3>2
  <2> QED BY <2>2, <2>3, <2>4
<1> QED BY <1>3, <1>6, <1>7, <1>8

\* An edit of what all saves lead to: with the new plan there is still no cycle.
LEMMA EditsSound ==
    ASSUME Types, Plans, Tidy, Sound, NEW t \in Tabs, NEW p \in Projects, Edits(t, p)
    PROVE  Tidy' /\ Sound'
<1>1. MayEdit(t) /\ UNCHANGED import
  BY EditsPut
<1>2. PICK kind \in {"plan", "reset"}, plan \in Plan :
         /\ Puts(t, p, kind, plan)
         /\ Less(t, p, plan) \/ OneMore(t, p, plan)
  BY EditsPut
<1>3. /\ Tidy'
      /\ ~strayed' => /\ ~strayed /\ ~Unaware(t) /\ Target(p)' = plan
                      /\ \A q \in Projects : q # p => Target(q)' = Target(q)
  BY <1>2, PutsTidy
<1>4. ASSUME ~strayed', ~clashed'
      PROVE  /\ \A u \in Tabs : ~Saving(u)
             /\ Acyclic(Merged(Targets', Projects))
  <2> DEFINE g == ShownMap(t)
             new == Targets'
  <2>1. ~strayed /\ ~Unaware(t)
    BY <1>3, <1>4
  <2>2. clashed' = (clashed \/ \E q \in Projects \ {p} : \E other \in Everywhere(q) :
                                   DOMAIN plan \cap DOMAIN other # {})
    BY <1>2 DEF Puts, Request
  <2>3. ~clashed /\ Apart
    BY <1>4, <2>2 DEF Plans
  <2>4. /\ \A q \in Projects : Shown(t, q) = Target(q)
        /\ \A u \in Tabs : u # t => ~Saving(u)
    BY <2>1, AwareShows
  <2>5. \A u \in Tabs : ~Saving(u)
    <3>1. import[t] = NoImport
      BY <1>1 DEF MayEdit
    <3> QED BY <2>4, <3>1 DEF Saving, NoImport
  <2>6. ShownPlans(t) = Targets
    BY <2>4 DEF ShownPlans, Targets
  <2>7. Acyclic(g)
    BY <1>4, <2>1, <2>3, <2>5, <2>6 DEF Sound, ShownMap
  <2>8. /\ \A q, o \in Projects : q # o => DOMAIN Target(q) \cap DOMAIN Target(o) = {}
        /\ \A q \in Projects : \A i \in DOMAIN Target(q) : i \in DOMAIN g /\ g[i] = Target(q)[i]
        /\ \A q \in Projects : Target(q) \in Everywhere(q)
    BY <2>1, <2>3, <2>6, TargetsMerge, TargetPlan DEF ShownMap
  <2>9. new[p] = plan /\ \A q \in Projects : q # p => new[q] = Target(q)
    BY <1>3, <1>4 DEF Targets
  <2>10. \A q \in Projects : q # p => DOMAIN plan \cap DOMAIN Target(q) = {}
    BY <1>4, <2>2, <2>8
  <2>11. \A q, o \in Projects : q # o => DOMAIN new[q] \cap DOMAIN new[o] = {}
    BY <2>8, <2>9, <2>10
  <2>12. DOMAIN g \subseteq Ids /\ g = [i \in DOMAIN g |-> g[i]]
    BY ShownMapIds, MergedDomain DEF ShownMap
  <2> HIDE DEF g, new
  <2>13. CASE Less(t, p, plan)
    <3>1. \A i \in DOMAIN plan : plan[i] = {} \/ (i \in DOMAIN g /\ plan[i] \subseteq g[i])
      BY <2>4, <2>8, <2>13 DEF Less
    <3>2. \A q \in Projects : \A i \in DOMAIN new[q] :
              new[q][i] = {} \/ (i \in DOMAIN g /\ new[q][i] \subseteq g[i])
      BY <2>8, <2>9, <3>1
    <3>3. Acyclic(Merged(new, Projects))
      BY <2>7, <2>11, <3>2, MergedWithin
    <3> QED BY <2>5, <3>3 DEF new
  <2>14. CASE OneMore(t, p, plan)
    <3>1. PICK from \in DOMAIN g, to \in DOMAIN Shown(t, p) :
             DagSafe(t, from, to) /\ plan = WithDep(Shown(t, p), from, to)
      BY <2>14 DEF OneMore, g
    <3>2. from # to /\ ~Reaches(g, from, to) /\ from \in Ids /\ to \in DOMAIN g
      BY <2>4, <2>8, <2>12, <3>1 DEF DagSafe, g
    <3>3. \A i \in DOMAIN g : g[i] \subseteq DepsIn(g, i)
      BY DEF DepsIn
    <3> DEFINE k == WithDep(g, from, to)
    <3>4. Acyclic(k)
      BY <2>7, <2>12, <3>2, <3>3, WithDepAcyclic
    <3>5. DOMAIN k = DOMAIN g /\ \A i \in DOMAIN g : k[i] = IF i = to THEN g[i] \cup {from} ELSE g[i]
      BY <2>12 DEF WithDep
    <3>6. Shown(t, p) \in Plan /\ Shown(t, p) = Target(p)
      BY <2>4, ShownPlan
    <3>7. DOMAIN plan = DOMAIN Target(p)
          /\ \A i \in DOMAIN plan : plan[i] = IF i = to THEN Target(p)[i] \cup {from} ELSE Target(p)[i]
      <4>1. Target(p) = [i \in DOMAIN Target(p) |-> Target(p)[i]]
        BY <3>6, PlanFacts
      <4>2. plan = [Target(p) EXCEPT ![to] = @ \cup {from}]
        BY <3>1, <3>6 DEF WithDep
      <4> QED BY <4>1, <4>2
    <3> HIDE DEF k
    <3>8. \A q \in Projects : \A i \in DOMAIN new[q] :
              new[q][i] = {} \/ (i \in DOMAIN k /\ new[q][i] \subseteq k[i])
      <4> TAKE q \in Projects
      <4> TAKE i \in DOMAIN new[q]
      <4>1. i \in DOMAIN Target(q)
        BY <2>9, <3>7
      <4>2. i \in DOMAIN g /\ g[i] = Target(q)[i]
        BY <2>8, <4>1
      <4>3. CASE q = p
        BY <2>9, <3>5, <3>7, <4>1, <4>2, <4>3
      <4>4. CASE q # p
        BY <2>9, <3>5, <4>1, <4>2, <4>4
      <4> QED BY <4>3, <4>4
    <3>9. Acyclic(Merged(new, Projects))
      BY <2>11, <3>4, <3>8, MergedWithin
    <3> QED BY <2>5, <3>9 DEF new
  <2> QED BY <1>2, <2>13, <2>14
<1>5. Sound'
  <2> SUFFICES ASSUME ~strayed', ~clashed'
               PROVE  /\ \A u, v \in Tabs : (Saving(u)' /\ Saving(v)') => u = v
                      /\ \A u \in Tabs : Saving(u)' => Known(import[u])'
                      /\ (\A u \in Tabs : ~Saving(u)') => Acyclic(Merged(Targets', Projects))
    BY Zenon DEF Sound
  <2>1. \A u \in Tabs : ~Saving(u)'
    BY <1>1, <1>4 DEF Saving
  <2> QED BY <1>4, <2>1
<1> QED BY <1>3, <1>5

\* An import starts from what its tab shows of the other projects.
LEMMA ImportSound ==
    ASSUME Types, Plans, Tidy, Sound, NEW t \in Tabs, Import(t)
    PROVE  Tidy' /\ Sound'
<1> DEFINE at == import'[t]
           others == Projects \ RestProjects(at)
           old == Merged(ShownPlans(t), others)
<1>1. /\ MayEdit(t)
      /\ \A u \in Tabs : u # t => import'[u] = import[u]
      /\ strayed' = (strayed \/ Unaware(t))
      /\ at.map = WithNew(old, RestIds(at))
      /\ UNCHANGED <<server, live, local, net, clashed>>
  BY ImportEffects
<1>2. /\ \A q \in Projects : Sent(q)' = Sent(q)
      /\ \A u \in Tabs, q \in Projects : Shown(u, q)' = Shown(u, q)
  BY <1>1 DEF Sent, Shown
<1>3. Tidy' /\ \A q \in Projects : Target(q)' = Target(q)
  <2>1. \A q \in Projects : \A r \in Sent(q) : r.tab # Nothing => r.tab \in Tabs
    BY SentFacts
  <2>2. \A q \in Projects : server'[q].plan = server[q].plan
    BY <1>1
  <2>3. strayed => strayed'
    BY <1>1
  <2> QED BY <1>2, <2>1, <2>2, <2>3, TidyKept
<1>4. Sound'
  <2> SUFFICES ASSUME ~strayed', ~clashed'
               PROVE  /\ \A u, v \in Tabs : (Saving(u)' /\ Saving(v)') => u = v
                      /\ \A u \in Tabs : Saving(u)' => Known(import[u])'
                      /\ (\A u \in Tabs : ~Saving(u)') => Acyclic(Merged(Targets', Projects))
    BY Zenon DEF Sound
  <2>1. ~strayed /\ ~clashed /\ ~Unaware(t) /\ Apart
    BY <1>1 DEF Plans
  <2>2. /\ \A q \in Projects : Shown(t, q) = Target(q)
        /\ \A u \in Tabs : u # t => ~Saving(u)
    BY <2>1, AwareShows
  <2>3. \A u \in Tabs : ~Saving(u)
    <3>1. import[t] = NoImport
      BY <1>1 DEF MayEdit
    <3> QED BY <2>2, <3>1 DEF Saving, NoImport
  <2>4. \A u \in Tabs : u # t => ~Saving(u)'
    BY <1>1, <2>3 DEF Saving
  <2>5. Acyclic(Merged(Targets, Projects)) /\ Targets' = Targets
    BY <1>3, <2>1, <2>3 DEF Sound, Targets
  <2>6. /\ \A q, o \in Projects : q # o => DOMAIN Target(q) \cap DOMAIN Target(o) = {}
        /\ \A q \in Projects : \A i \in DOMAIN Target(q) :
              i \in DOMAIN Merged(Targets, Projects) /\ Merged(Targets, Projects)[i] = Target(q)[i]
        /\ \A q \in Projects : Targets[q] = Target(q)
    BY <2>1, TargetsMerge
  <2>7. ShownPlans(t) = Targets
    BY <2>2 DEF ShownPlans, Targets
  <2>8. Acyclic(old)
    <3>1. \A q \in others : \A i \in DOMAIN Targets[q] :
             Targets[q][i] = {} \/ (i \in DOMAIN Merged(Targets, Projects)
                                    /\ Targets[q][i] \subseteq Merged(Targets, Projects)[i])
      BY <2>6
    <3>2. \A q, o \in others : q # o => DOMAIN Targets[q] \cap DOMAIN Targets[o] = {}
      BY <2>6
    <3> DEFINE all == Merged(Targets, Projects)
               rest == Projects \ RestProjects(at)
    <3>3. /\ Acyclic(all)
          /\ rest \in SUBSET Projects
          /\ \A q \in rest : \A i \in DOMAIN Targets[q] :
                Targets[q][i] = {} \/ (i \in DOMAIN all /\ Targets[q][i] \subseteq all[i])
          /\ \A q, o \in rest : q # o => DOMAIN Targets[q] \cap DOMAIN Targets[o] = {}
      BY <2>5, <3>1, <3>2
    <3> HIDE DEF all, rest
    <3>4. Acyclic(Merged(Targets, rest))
      BY <3>3, MergedWithin
    <3> QED BY <2>7, <3>4 DEF rest
  <2>9. DOMAIN old = UNION {DOMAIN Targets[q] : q \in others}
    <3> DEFINE rest == Projects \ RestProjects(at)
    <3> HIDE DEF rest
    <3>1. DOMAIN Merged(Targets, rest) = UNION {DOMAIN Targets[q] : q \in rest}
      BY MergedDomain
    <3> QED BY <2>7, <3>1 DEF rest
  <2>10. \A q \in others : \A i \in DOMAIN Target(q) : i \in DOMAIN old /\ old[i] = Target(q)[i]
    <3> TAKE q \in others
    <3> TAKE i \in DOMAIN Target(q)
    <3>1. i \in DOMAIN Targets[q] /\ \A o \in others \ {q} : i \notin DOMAIN Targets[o]
      BY <2>6
    <3> DEFINE rest == Projects \ RestProjects(at)
    <3>2. rest \in SUBSET Projects /\ q \in rest /\ \A o \in rest \ {q} : i \notin DOMAIN Targets[o]
      BY <3>1
    <3> HIDE DEF rest
    <3>3. Merged(Targets, rest)[i] = Targets[q][i]
      BY <3>1, <3>2, MergedIsPlan
    <3>4. old[i] = Targets[q][i]
      BY <2>7, <3>3 DEF rest
    <3>5. i \in DOMAIN old
      BY <2>9, <3>1
    <3> QED BY <2>6, <3>4, <3>5
  <2> HIDE DEF old
  <2>11. /\ DOMAIN at.map = RestIds(at) \cup DOMAIN old
         /\ \A i \in DOMAIN at.map : at.map[i] = IF i \in RestIds(at) THEN {} ELSE old[i]
    BY <1>1 DEF WithNew
  <2>12. Acyclic(at.map)
    <3>1. \A i \in DOMAIN at.map : at.map[i] = {} \/ (i \in DOMAIN old /\ at.map[i] \subseteq old[i])
      BY <2>11
    <3> DEFINE map == at.map
    <3>2. \A i \in DOMAIN map : map[i] = {} \/ (i \in DOMAIN old /\ map[i] \subseteq old[i])
      BY <3>1
    <3> HIDE DEF map
    <3>3. Acyclic(map)
      BY <2>8, <3>2, Grows
    <3> QED BY <3>3 DEF map
  <2>13. \A q \in others : \A i \in DOMAIN Target(q) \ RestIds(at) :
             i \in DOMAIN at.map /\ Target(q)[i] \subseteq at.map[i]
    BY <2>10, <2>11
  <2>14. Known(import[t])'
    BY <1>3, <2>12, <2>13 DEF Known
  <2> QED BY <2>4, <2>5, <2>14
<1> QED BY <1>3, <1>4

\* A dependency that the import takes closes no cycle.
LEMMA ImportDepSound ==
    ASSUME Types, Tidy, Sound, NEW t \in Tabs, ImportDep(t)
    PROVE  Tidy' /\ Sound'
<1> DEFINE map == import[t].map
           new == import'[t].map
<1>1. /\ \A u \in Tabs : u # t => import'[u] = import[u]
      /\ import'[t].plans = import[t].plans
      /\ \/ new = map
         \/ \E to, from \in DOMAIN map : Resolves(map, to, from) /\ new = WithDep(map, from, to)
      /\ UNCHANGED <<server, live, local, net, clashed, strayed>>
  BY ImportDepEffects
<1>2. /\ \A q \in Projects : Sent(q)' = Sent(q)
      /\ \A u \in Tabs, q \in Projects : Shown(u, q)' = Shown(u, q)
  BY <1>1 DEF Sent, Shown
<1>3. Tidy' /\ \A q \in Projects : Target(q)' = Target(q)
  <2>1. \A q \in Projects : \A r \in Sent(q) : r.tab # Nothing => r.tab \in Tabs
    BY SentFacts
  <2>2. \A q \in Projects : server'[q].plan = server[q].plan
    BY <1>1
  <2> QED BY <1>1, <1>2, <2>1, <2>2, TidyKept
<1>4. Sound'
  <2> SUFFICES ASSUME ~strayed', ~clashed'
               PROVE  /\ \A u, v \in Tabs : (Saving(u)' /\ Saving(v)') => u = v
                      /\ \A u \in Tabs : Saving(u)' => Known(import[u])'
                      /\ (\A u \in Tabs : ~Saving(u)') => Acyclic(Merged(Targets', Projects))
    BY Zenon DEF Sound
  <2>1. /\ \A u, v \in Tabs : (Saving(u) /\ Saving(v)) => u = v
        /\ \A u \in Tabs : Saving(u) => Known(import[u])
        /\ (\A u \in Tabs : ~Saving(u)) => Acyclic(Merged(Targets, Projects))
    BY <1>1 DEF Sound
  <2>2. \A u \in Tabs : Saving(u)' <=> Saving(u)
    BY <1>1 DEF Saving
  <2>3. Targets' = Targets
    BY <1>3 DEF Targets
  <2>4. ASSUME NEW u \in Tabs, Saving(u)' PROVE Known(import[u])'
    <3>1. Known(import[u])
      BY <2>1, <2>2, <2>4
    <3>2. CASE u # t
      <4>1. import'[u] = import[u]
        BY <1>1, <3>2
      <4> QED BY <1>3, <3>1, <4>1 DEF Known
    <3>3. CASE u = t
      <4>1. RestProjects(import'[t]) = RestProjects(import[t]) /\ RestIds(import'[t]) = RestIds(import[t])
        BY <1>1 DEF RestProjects, RestIds
      <4>2. Acyclic(map) /\ DOMAIN map \subseteq Ids /\ map = [i \in DOMAIN map |-> map[i]]
        BY <3>1, <3>3 DEF Known, Types, Jobs, Job
      <4> HIDE DEF map, new
      <4>3. Acyclic(new) /\ DOMAIN new = DOMAIN map /\ \A i \in DOMAIN map : map[i] \subseteq new[i]
        <5>1. CASE new = map
          BY <4>2, <5>1
        <5>2. ASSUME NEW to \in DOMAIN map, NEW from \in DOMAIN map,
                     Resolves(map, to, from), new = WithDep(map, from, to)
              PROVE  Acyclic(new) /\ DOMAIN new = DOMAIN map
                     /\ \A i \in DOMAIN map : map[i] \subseteq new[i]
          <6>1. from # to /\ ~Reaches(map, from, to) /\ from \in Ids
                /\ \A i \in DOMAIN map : map[i] \subseteq DepsIn(map, i)
            BY <4>2, <5>2 DEF Resolves, DepsIn
          <6>2. Acyclic(WithDep(map, from, to))
            BY <4>2, <6>1, WithDepAcyclic
          <6>3. DOMAIN new = DOMAIN map /\ \A i \in DOMAIN map : map[i] \subseteq new[i]
            BY <4>2, <5>2 DEF WithDep
          <6> QED BY <5>2, <6>2, <6>3
        <5> QED BY <1>1, <5>1, <5>2
      <4>4. \A q \in Projects \ RestProjects(import[t]) : \A i \in DOMAIN Target(q) \ RestIds(import[t]) :
               i \in DOMAIN map /\ Target(q)[i] \subseteq map[i]
        BY <3>1, <3>3 DEF Known, map
      <4>5. \A q \in Projects \ RestProjects(import[t]) : \A i \in DOMAIN Target(q) \ RestIds(import[t]) :
               i \in DOMAIN new /\ Target(q)[i] \subseteq new[i]
        BY <4>3, <4>4
      <4> QED BY <1>3, <3>3, <4>1, <4>3, <4>5 DEF Known, new
    <3> QED BY <3>2, <3>3
  <2> QED BY <2>1, <2>2, <2>3, <2>4
<1> QED BY <1>3, <1>4

\* A project that an import saves is then known to its map, and with the last one
\* all are.
LEMMA ImportSaveSound ==
    ASSUME Types, Plans, Tidy, Sound, NEW t \in Tabs, ImportSave(t)
    PROVE  Tidy' /\ Sound'
<1> DEFINE plans == import[t].plans
           map == import[t].map
<1> PICK p, ids, plan : p = Head(plans).project /\ ids = Head(plans).ids /\ plan = Part(map, ids)
  OBVIOUS
<1>1. /\ plans # <<>> /\ p \in Projects /\ plan \in Plan
      /\ Puts(t, p, "plan", plan)
      /\ \A u \in Tabs : u # t => import'[u] = import[u]
      /\ import'[t].plans = Tail(plans) /\ import'[t].map = map
  <2> DEFINE h == Head(plans)
             part == Part(map, h.ids)
  <2>1. /\ plans # <<>> /\ h.project \in Projects /\ part \in Plan
        /\ Puts(t, h.project, "plan", part)
        /\ \A u \in Tabs : u # t => import'[u] = import[u]
        /\ import'[t].plans = Tail(plans) /\ import'[t].map = map
    BY ImportSaveEffects
  <2>2. p = h.project /\ plan = part
    OBVIOUS
  <2> QED BY <2>1, <2>2
<1>2. /\ plans \in Seq(Item)
      /\ \A e \in DOMAIN plans : \A i \in plans[e].ids : i \in DOMAIN map
  BY DEF Types, Jobs, Job
<1>3. /\ Head(plans) = plans[1] /\ 1 \in DOMAIN plans
      /\ \A e \in DOMAIN plans : e # 1 => e - 1 \in DOMAIN Tail(plans) /\ Tail(plans)[e - 1] = plans[e]
  <2>1. plans # <<>>
    BY <1>1
  <2> HIDE DEF plans
  <2> QED BY <2>1, <1>2
<1>4. ids \subseteq DOMAIN map /\ DOMAIN plan = ids /\ \A i \in ids : plan[i] = map[i]
  BY <1>1, <1>2, <1>3 DEF Part
<1>5. RestProjects(import[t]) \subseteq {p} \cup RestProjects(import'[t])
      /\ RestIds(import[t]) \subseteq ids \cup RestIds(import'[t])
  <2>1. ASSUME NEW e \in DOMAIN plans
        PROVE  \/ plans[e].project = p /\ plans[e].ids = ids
               \/ \E d \in DOMAIN import'[t].plans : import'[t].plans[d] = plans[e]
    BY <1>1, <1>3
  <2> QED BY <2>1 DEF RestProjects, RestIds
<1>6. Saving(t)
  BY <1>1 DEF Saving
<1> HIDE DEF plans
<1>7. /\ Tidy'
      /\ ~strayed' => /\ ~strayed /\ ~Unaware(t) /\ Target(p)' = plan
                      /\ \A q \in Projects : q # p => Target(q)' = Target(q)
  <2>1. p \in Projects /\ plan \in Plan /\ Puts(t, p, "plan", plan)
    BY <1>1
  <2> QED BY <2>1, PutsTidy
<1>8. Sound'
  <2> SUFFICES ASSUME ~strayed', ~clashed'
               PROVE  /\ \A u, v \in Tabs : (Saving(u)' /\ Saving(v)') => u = v
                      /\ \A u \in Tabs : Saving(u)' => Known(import[u])'
                      /\ (\A u \in Tabs : ~Saving(u)') => Acyclic(Merged(Targets', Projects))
    BY Zenon DEF Sound
  <2>1. clashed' = (clashed \/ \E q \in Projects \ {p} : \E other \in Everywhere(q) :
                                   DOMAIN plan \cap DOMAIN other # {})
    BY <1>1 DEF Puts, Request
  <2>2. ~strayed /\ ~clashed /\ ~Unaware(t) /\ Apart
    BY <1>7, <2>1 DEF Plans
  <2>3. \A u \in Tabs : u # t => ~Saving(u)'
    <3>1. \A u \in Tabs : u # t => ~Saving(u)
      BY <2>2, AwareShows
    <3> QED BY <1>1, <3>1 DEF Saving
  <2>4. Acyclic(map) /\ \A q \in Projects \ RestProjects(import[t]) :
            \A i \in DOMAIN Target(q) \ RestIds(import[t]) : i \in DOMAIN map /\ Target(q)[i] \subseteq map[i]
    BY <1>6, <2>2 DEF Sound, Known
  <2>5. \A q \in Projects : q # p => DOMAIN plan \cap DOMAIN Target(q) = {}
    BY <2>1, <2>2, TargetPlan
  <2>6. \A q, o \in Projects : q # o => DOMAIN Target(q) \cap DOMAIN Target(o) = {}
    BY <2>2, TargetsMerge
  <2>7. ASSUME NEW q \in Projects \ RestProjects(import'[t]),
               NEW i \in DOMAIN Target(q)' \ RestIds(import'[t])
        PROVE  i \in DOMAIN map /\ Target(q)'[i] \subseteq map[i]
    <3>1. CASE q = p
      <4>1. Target(q)' = plan
        BY <1>7, <3>1
      <4>2. i \in ids
        BY <1>4, <2>7, <4>1
      <4> QED BY <1>4, <4>1, <4>2
    <3>2. CASE q # p
      <4>1. Target(q)' = Target(q) /\ i \in DOMAIN Target(q)
        BY <1>7, <2>7, <3>2
      <4>2. i \notin ids
        BY <1>4, <2>5, <3>2, <4>1
      <4>3. q \notin RestProjects(import[t]) /\ i \notin RestIds(import[t])
        BY <1>5, <2>7, <3>2, <4>2
      <4> QED BY <2>4, <4>1, <4>3
    <3> QED BY <3>1, <3>2
  <2>8. Known(import[t])'
    <3>1. import'[t].map = map
      BY <1>1
    <3> QED BY <2>4, <2>7, <3>1 DEF Known
  <2>9. ASSUME \A u \in Tabs : ~Saving(u)' PROVE Acyclic(Merged(Targets', Projects))
    <3> DEFINE new == Targets'
    <3>1. \A q \in Projects : new[q] = IF q = p THEN plan ELSE Target(q)
      BY <1>1, <1>7 DEF Targets
    <3>2. DOMAIN import'[t].plans = {}
      <4>1. import'[t].plans = <<>>
        BY <2>9 DEF Saving
      <4> QED BY <4>1
    <3>3. RestProjects(import'[t]) = {} /\ RestIds(import'[t]) = {}
      BY <3>2 DEF RestProjects, RestIds
    <3>4. \A q \in Projects : new[q] = Target(q)'
      BY DEF Targets
    <3> HIDE DEF new
    <3>5. \A q \in Projects : \A i \in DOMAIN new[q] :
             new[q][i] = {} \/ (i \in DOMAIN map /\ new[q][i] \subseteq map[i])
      BY <2>7, <3>3, <3>4
    <3>6. \A q, o \in Projects : q # o => DOMAIN new[q] \cap DOMAIN new[o] = {}
      BY <2>5, <2>6, <3>1
    <3> HIDE DEF map
    <3>7. Acyclic(map)
      BY <2>4
    <3>8. Acyclic(Merged(new, Projects))
      BY <3>5, <3>6, <3>7, MergedWithin
    <3> QED BY <3>8 DEF new
  <2> QED BY <2>3, <2>8, <2>9
<1> QED BY <1>7, <1>8

LEMMA SoundStep == Types /\ Plans /\ Tidy /\ Sound /\ [Next]_vars => Tidy' /\ Sound'
<1> SUFFICES ASSUME Types, Plans, Tidy, Sound, [Next]_vars PROVE Tidy' /\ Sound'
  OBVIOUS
<1>1. ASSUME UNCHANGED <<server, live, local, import, net, clashed, strayed>> PROVE Tidy' /\ Sound'
  <2>1. \A p \in Projects : Sent(p)' = Sent(p)
    BY <1>1 DEF Sent
  <2>2. \A u \in Tabs, p \in Projects : Shown(u, p)' = Shown(u, p)
    BY <1>1 DEF Shown
  <2> QED BY <1>1, <2>1, <2>2, SameSound
<1>2. CASE UNCHANGED vars
  BY <1>1, <1>2 DEF vars
<1>3. CASE Next
  <2>1. ASSUME NEW t \in Tabs, OpenPage(t) \/ Leave(t) PROVE Tidy' /\ Sound'
    BY <2>1, OpenPageSound, LeaveSound
  <2>2. ASSUME NEW t \in Tabs, Arrive(t) PROVE Tidy' /\ Sound'
    BY <1>1, <2>2 DEF Arrive
  <2>3. ASSUME NEW t \in Tabs, Import(t) \/ ImportDep(t) \/ ImportSave(t) PROVE Tidy' /\ Sound'
    BY <2>3, ImportSound, ImportDepSound, ImportSaveSound
  <2>4. ASSUME NEW t \in Tabs, NEW p \in Projects, Edits(t, p) PROVE Tidy' /\ Sound'
    BY <2>4, EditsSound
  <2>5. ASSUME NEW t \in Tabs, NEW p \in Projects, Assign(t, p) PROVE Tidy' /\ Sound'
    BY <2>5, AssignAssigns, AssignSound
  <2>6. ASSUME NEW r \in net, Serve(r) \/ Reply(r) PROVE Tidy' /\ Sound'
    BY <2>6, ServeSound, ReplySound
  <2>7. ASSUME NEW r \in net, Fail(r) PROVE Tidy' /\ Sound'
    <3>1. strayed'
      BY <2>7, FailEffects
    <3> QED BY <3>1, Zenon DEF Tidy, Sound
  <2> QED BY <1>3, <2>1, <2>2, <2>3, <2>4, <2>5, <2>6, <2>7, StepKinds
<1> QED BY <1>2, <1>3

LEMMA SoundInit == Init => Tidy /\ Sound
<1> SUFFICES ASSUME Init PROVE Tidy /\ Sound
  OBVIOUS
<1>1. net = {} /\ import = [t \in Tabs |-> NoImport]
  BY DEF Init
<1>2. \A p \in Projects : Sent(p) = {}
  BY <1>1 DEF Sent
<1>3. Targets = [p \in Projects |-> Given(server[p].plan)]
  BY <1>2 DEF Targets, Target
<1>4. \A t \in Tabs : ~Saving(t)
  BY <1>1 DEF Saving, NoImport
<1>5. Acyclic(Merged(Targets, Projects))
  BY <1>3, StartRows
<1> QED BY <1>2, <1>4, <1>5 DEF Tidy, Sound

\* The dependencies that are stored for all projects together have no cycle once all
\* saves are over and no import is half done, as long as no edit was a stray and no id
\* has been used in two projects.  isDAGSafe looks at what its tab shows: by what an
\* edit must be aware of, that is what all saves under way will lead to.  An import
\* (handleImportFile) looks at its own map, which knows the projects that it does not
\* replace as they will be, and those that it has saved already.
THEOREM StoredGraphAcyclic == Spec => []GraphAcyclic
<1>1. Types /\ Tidy /\ Sound => GraphAcyclic
  <2> SUFFICES ASSUME Types, Tidy, Sound, net = {}, \A t \in Tabs : import[t] = NoImport,
                      ~strayed, ~clashed
               PROVE  Acyclic(ServerMap)
    BY DEF GraphAcyclic
  <2>1. \A p \in Projects : Sent(p) = {}
    BY DEF Sent
  <2>2. Targets = [p \in Projects |-> Given(server[p].plan)]
    BY <2>1 DEF Targets, Target
  <2>3. \A t \in Tabs : ~Saving(t)
    BY DEF Saving, NoImport
  <2> QED BY <2>2, <2>3 DEF Sound, ServerMap
<1>2. Init => Types /\ Plans /\ Tidy /\ Sound
  BY TypesInit, PlansInit, SoundInit
<1>3. Types /\ Plans /\ Tidy /\ Sound /\ [Next]_vars => (Types /\ Plans /\ Tidy /\ Sound)'
  BY TypesStep, PlansStep, SoundStep
<1> QED BY <1>1, <1>2, <1>3, PTL DEF Spec
=============================================================================
