------------------------------ MODULE Planning ------------------------------
(***************************************************************************)
(* The wave Gantt chart: the milestones of projects and the dependencies   *)
(* between them (WaveGanttChart.tsx), edited in several browser tabs over  *)
(* the plans the backend stores whole (update_planning).                   *)
(*                                                                         *)
(* A plan is a function from the ids of a project's milestones to the ids  *)
(* they depend on, which may be those of other projects.  A tab shows its  *)
(* own edited copy of a plan (localPlanning) before the page's             *)
(* (liveProjects).  An edit sends the whole plan it leads to; the request  *)
(* or its answer may be lost, and two requests may be served in any order. *)
(* Dates, names, states and comments of milestones only matter as a reason *)
(* to send the plan again; their order is left out.                        *)
(***************************************************************************)
EXTENDS Naturals, Sequences, FiniteSets, SequencesExt

CONSTANTS
    Count,      \* the projects are 1 .. Count, in the order of the list
    Tabs,       \* browser tabs with the chart
    Presets,    \* [1 .. Count -> ids of the preset milestones of a project]
    Named,      \* ids of custom milestones that a file gives
    Random,     \* ids of custom milestones that randomUUID gives
    Waves,      \* waves a project may be assigned to
    Files,      \* contents of the files that may be imported
    Start,      \* what the database may hold at first
    Limit,      \* bounds: edits, failures, opens
    Nothing     \* no plan, wave or tab

Projects == 1 .. Count
Ids == (UNION {Presets[p] : p \in Projects}) \cup Named \cup Random
IdsOf(p) == Presets[p] \cup Named \cup Random
IsPlan(p, x) == DOMAIN x \subseteq IdsOf(p) /\ x \in [DOMAIN x -> SUBSET Ids]
Empty == [i \in {} |-> {}]
IsStored(p, x) == /\ x = [plan |-> x.plan, wave |-> x.wave]
                  /\ x.plan # Nothing => IsPlan(p, x.plan)
                  /\ x.wave \in Waves \cup {Nothing}

---------------------------------------------------------------------------
(* Graphs of dependencies: a function from ids to the ids they depend on *)

DepsIn(g, i) == IF i \in DOMAIN g THEN g[i] ELSE {}
Closed(g, S) == \A i \in S : DepsIn(g, i) \subseteq S

\* Both searches, isDAGSafe's and createsDepCycle's: whether `to' is met from
\* the dependencies of `from'.  It is when every closed set around them has it.
Reaches(g, from, to) ==
    \A S \in SUBSET Ids :
        (DepsIn(g, from) \subseteq S /\ Closed(g, S)) => to \in S

Acyclic(g) == \A S \in (SUBSET DOMAIN g) \ {{}} : \E i \in S : g[i] \cap S = {}
WithDep(g, from, to) == [g EXCEPT ![to] = @ \cup {from}]

\* With milestones N that depend on none, in place of those with the same ids.
WithNew(g, N) == [i \in N \cup DOMAIN g |-> IF i \in N THEN {} ELSE g[i]]

\* The milestoneMap of isDAGSafe: of two milestones with one id, the one of
\* the later project is found.
Merged(plans, among) ==
    LET holder(i) == CHOOSE p \in among :
                        /\ i \in DOMAIN plans[p]
                        /\ \A q \in among : q > p => i \notin DOMAIN plans[q]
    IN  [i \in UNION {DOMAIN plans[p] : p \in among} |-> plans[holder(i)][i]]

Given(plan) == IF plan = Nothing THEN Empty ELSE plan

ASSUME PlanningAssumption ==
    /\ Count \in Nat
    /\ \A p, q \in Projects : p # q => Presets[p] \cap Presets[q] = {}
    /\ \A p \in Projects : Presets[p] \cap (Named \cup Random) = {}
    /\ Named \cap Random = {}
    /\ Nothing \notin Tabs \cup Waves \cup Projects
    /\ \A D \in SUBSET Ids : Nothing \notin [D -> SUBSET Ids]
    /\ \A f \in Files :
          /\ f.named \subseteq Projects
          /\ f.entries \in Seq([project : Projects, ids : SUBSET Ids, deps : Seq(Ids \X Ids)])
          /\ \A e \in DOMAIN f.entries :
                f.entries[e].ids \subseteq Presets[f.entries[e].project] \cup Named
    /\ \A d \in Start :
          /\ d = [p \in Projects |-> d[p]]
          /\ \A p \in Projects :
                /\ IsStored(p, d[p])
                /\ d[p].plan # Nothing => DOMAIN d[p].plan \subseteq Presets[p]
          /\ Acyclic(Merged([p \in Projects |-> Given(d[p].plan)], Projects))

VARIABLES
    server,   \* [Projects -> the stored plan and wave]
    page,     \* [Tabs -> "closed", "loading", "open"]
    live,     \* [Tabs -> liveProjects: [Projects -> plan and wave]]
    first,    \* [Tabs -> initialProjects: the project list as it was loaded]
    local,    \* [Tabs -> localPlanning: [Projects -> plan or Nothing]]
    import,   \* [Tabs -> the import at work, or NoImport]
    net,      \* requests in flight
    used,     \* counters against Limit
    spent,    \* ids that randomUUID has given
    last,     \* [Projects -> the tabs whose plan and wave were stored last]
    clashed,  \* one id has been in the plans of two projects
    strayed,  \* a save failed or was overtaken, an import was cut off, a late
              \* answer showed an older plan again, or an edit was made unaware
              \* of what is stored
    mixed     \* projects of which a save failed, or two were in flight

vars == <<server, page, live, first, local, import, net, used, spent, last,
          clashed, strayed, mixed>>

---------------------------------------------------------------------------
(* What a tab shows *)

\* getEffectivePlanning
Shown(t, p) == IF local[t][p] # Nothing THEN local[t][p] ELSE Given(live[t][p].plan)

ShownPlans(t) == [p \in Projects |-> Shown(t, p)]
ShownMap(t) == Merged(ShownPlans(t), Projects)
ServerMap == Merged([p \in Projects |-> Given(server[p].plan)], Projects)

\* Mutants: the search starts at the wrong end; it stays within the projects
\* that have the target.
DagSafeBackwards(t, from, to) == from # to /\ ~Reaches(ShownMap(t), to, from)
DagSafeInProject(t, from, to) ==
    LET own == {p \in Projects : to \in DOMAIN Shown(t, p)}
    IN  from # to /\ ~Reaches(Merged(ShownPlans(t), own), from, to)

\* isDAGSafe
DagSafe(t, from, to) == from # to /\ ~Reaches(ShownMap(t), from, to)

\* The project whose milestone `to' addDep and removeDep change.
Holds(t, p, to) ==
    /\ to \in DOMAIN Shown(t, p)
    /\ \A q \in Projects : q < p => to \notin DOMAIN Shown(t, q)

Open(t) == page[t] = "open"
NoImport == [map |-> Empty, deps |-> <<>>, plans |-> <<>>, wait |-> 0]
MayEdit(t) == Open(t) /\ import[t] = NoImport /\ used.edits < Limit.edits
Counted == used' = [used EXCEPT !.edits = @ + 1]

\* Every plan of project p that the database, a tab or a request holds.
Everywhere(p) ==
    {Given(server[p].plan)} \cup
    {Given(live[t][p].plan) : t \in Tabs} \cup
    {Given(local[t][p]) : t \in Tabs} \cup
    {r.plan : r \in {r \in net : r.project = p}} \cup
    {Given(r.answer.plan) : r \in {r \in net : r.project = p}}

---------------------------------------------------------------------------
(* Requests *)

Kinds == {"plan", "reset", "wave"}
NoRecord == [plan |-> Nothing, wave |-> Nothing]
InFlight(p) == {r \in net : r.project = p}

\* An edit is made unaware of the stored plans: another tab's is on its way or
\* still to come from its import, or the tab shows a plan that is neither stored
\* nor being stored by itself.
Unaware(t) ==
    \/ \E r \in net : r.tab # t /\ r.at = "sent" /\ r.kind # "wave"
    \/ \E u \in Tabs \ {t} : import[u].plans # <<>>
    \/ \E p \in Projects :
          /\ Shown(t, p) # Given(server[p].plan)
          /\ ~\E r \in net : r.tab = t /\ r.project = p /\ r.at = "sent" /\ r.kind # "wave"

\* The request of handleUpdatePlanning or handleAssign.
Request(t, p, kind, plan, wave) ==
    /\ net' = net \cup {[id |-> used.sends + 1, tab |-> t, project |-> p, kind |-> kind,
                         plan |-> plan, wave |-> wave, at |-> "sent", answer |-> NoRecord]}
    /\ mixed' = IF InFlight(p) # {} THEN mixed \cup {p} ELSE mixed
    /\ clashed' = (clashed \/ \E q \in Projects \ {p} : \E other \in Everywhere(q) :
                                DOMAIN plan \cap DOMAIN other # {})

\* setLocalPlanning, then onUpdatePlanning
Save(t, p, plan) ==
    /\ local' = [local EXCEPT ![t][p] = plan]
    /\ live' = [live EXCEPT ![t][p].plan = plan]
    /\ Request(t, p, "plan", plan, Nothing)
    /\ strayed' = (strayed \/ Unaware(t))
    /\ UNCHANGED <<server, page, first, last>>

---------------------------------------------------------------------------
(* Edits *)

Edit(t, p, plan) ==
    /\ MayEdit(t)
    /\ Save(t, p, plan)
    /\ used' = [used EXCEPT !.edits = @ + 1, !.sends = @ + 1]
    /\ UNCHANGED import

\* Mutant: the fixed id is not the project's own.
AddAnyPreset(t, p) ==
    \E i \in Ids \ (Named \cup Random) :
        /\ live[t][p].wave # Nothing
        /\ i \notin DOMAIN Shown(t, p)
        /\ Edit(t, p, WithNew(Shown(t, p), {i}))
        /\ UNCHANGED spent

\* One preset of each type: the menu disables it once the project has it.
AddPreset(t, p) ==
    \E i \in Presets[p] :
        /\ live[t][p].wave # Nothing
        /\ i \notin DOMAIN Shown(t, p)
        /\ Edit(t, p, WithNew(Shown(t, p), {i}))
        /\ UNCHANGED spent

AddCustom(t, p) ==
    \E i \in Random \ spent :
        /\ live[t][p].wave # Nothing
        /\ Edit(t, p, WithNew(Shown(t, p), {i}))
        /\ spent' = spent \cup {i}

DeleteMilestone(t, p) ==
    \E i \in DOMAIN Shown(t, p) :
        /\ Edit(t, p, [j \in DOMAIN Shown(t, p) \ {i} |-> Shown(t, p)[j] \ {i}])
        /\ UNCHANGED spent

\* The arrow is drawn from a bar to another; it is stored with the first
\* project that has the target without the arrow.
AddDep(t, p) ==
    \E from \in DOMAIN ShownMap(t), to \in DOMAIN Shown(t, p) :
        /\ DagSafe(t, from, to)
        /\ from \notin Shown(t, p)[to]
        /\ \A q \in Projects : (q < p /\ to \in DOMAIN Shown(t, q)) => from \in Shown(t, q)[to]
        /\ Edit(t, p, WithDep(Shown(t, p), from, to))
        /\ UNCHANGED spent

\* An arrow is shown while both of its ends are.
RemoveDep(t, p) ==
    \E from \in DOMAIN ShownMap(t), to \in DOMAIN Shown(t, p) :
        /\ from \in ShownMap(t)[to]
        /\ Holds(t, p, to)
        /\ Edit(t, p, [Shown(t, p) EXCEPT ![to] = @ \ {from}])
        /\ UNCHANGED spent

\* A drag, a name, a state, a comment or a new order sends the plan again.
Change(t, p) ==
    /\ DOMAIN Shown(t, p) # {}
    /\ Edit(t, p, Shown(t, p))
    /\ UNCHANGED spent

\* Mutant: the chart keeps its copy of the plan.
ResetKeepsCopy(t, p) ==
    /\ MayEdit(t)
    /\ live[t][p].wave = Nothing
    /\ live[t][p].plan # Nothing \/ local[t][p] # Nothing
    /\ live' = [live EXCEPT ![t][p].plan = Empty]
    /\ Request(t, p, "reset", Empty, Nothing)
    /\ strayed' = (strayed \/ Unaware(t))
    /\ used' = [used EXCEPT !.edits = @ + 1, !.sends = @ + 1]
    /\ UNCHANGED <<server, page, first, local, import, last, spent>>

ResetPlanning(t, p) ==
    /\ MayEdit(t)
    /\ live[t][p].wave = Nothing
    /\ live[t][p].plan # Nothing \/ local[t][p] # Nothing
    /\ local' = [local EXCEPT ![t][p] = Nothing]
    /\ live' = [live EXCEPT ![t][p].plan = Empty]
    /\ Request(t, p, "reset", Empty, Nothing)
    /\ strayed' = (strayed \/ Unaware(t))
    /\ used' = [used EXCEPT !.edits = @ + 1, !.sends = @ + 1]
    /\ UNCHANGED <<server, page, first, import, last, spent>>

Assign(t, p) ==
    \E w \in Waves \cup {Nothing} :
        /\ MayEdit(t)
        /\ (w = Nothing) # (live[t][p].wave = Nothing)
        /\ live' = [live EXCEPT ![t][p].wave = w]
        /\ Request(t, p, "wave", Empty, w)
        /\ used' = [used EXCEPT !.edits = @ + 1, !.sends = @ + 1]
        /\ UNCHANGED <<server, page, first, local, import, last, spent, strayed>>

---------------------------------------------------------------------------
(* Import of a file: its milestones replace those of the projects it names *)

\* Ids in use: those of projects the file does not name.  An entry that
\* cannot be read names its project all the same.
Taken(t, f) == UNION {DOMAIN Shown(t, p) : p \in Projects \ f.named}

\* Of two milestones with one id the first is accepted.
Accepted(t, f, e) ==
    {i \in f.entries[e].ids :
        i \notin Taken(t, f) /\ \A d \in 1 .. e - 1 : i \notin f.entries[d].ids}

Import(t) ==
    \E f \in Files :
        LET planned == DOMAIN f.entries
            others == Projects \ {f.entries[e].project : e \in planned}
            fresh == UNION {Accepted(t, f, e) : e \in planned}
        IN
        /\ MayEdit(t)
        /\ f.entries # <<>>
        /\ import' = [import EXCEPT ![t] =
              [map |-> WithNew(Merged(ShownPlans(t), others), fresh),
               deps |-> FlattenSeq([e \in planned |->
                            SelectSeq(f.entries[e].deps, LAMBDA d : d[1] \in Accepted(t, f, e))]),
               plans |-> [e \in planned |->
                            [project |-> f.entries[e].project, ids |-> Accepted(t, f, e)]],
               wait |-> 0]]
        /\ strayed' = (strayed \/ Unaware(t))
        /\ Counted
        /\ UNCHANGED <<server, page, live, first, local, net, spent, last, clashed, mixed>>

\* A dependency is taken unless it is on itself, unknown or closes a cycle.
Resolves(map, to, from) ==
    /\ from # to
    /\ {from, to} \subseteq DOMAIN map
    /\ ~Reaches(map, from, to)

ImportDep(t) ==
    LET at == import[t] IN
    /\ at.deps # <<>>
    /\ LET to == Head(at.deps)[1]  from == Head(at.deps)[2]
           map == IF Resolves(at.map, to, from) THEN WithDep(at.map, from, to) ELSE at.map
       IN  import' = [import EXCEPT ![t] = [at EXCEPT !.map = map, !.deps = Tail(at.deps)]]
    /\ UNCHANGED <<server, page, live, first, local, net, used, spent, last, clashed,
                   strayed, mixed>>

\* The projects are saved one after the other.
ImportSave(t) ==
    LET at == import[t] IN
    /\ at.deps = <<>> /\ at.plans # <<>> /\ at.wait = 0
    /\ Save(t, Head(at.plans).project, [i \in Head(at.plans).ids |-> at.map[i]])
    /\ import' = [import EXCEPT ![t] = [at EXCEPT !.plans = Tail(at.plans),
                                                  !.wait = used.sends + 1]]
    /\ used' = [used EXCEPT !.sends = @ + 1]
    /\ UNCHANGED spent

---------------------------------------------------------------------------
(* The page and its requests *)

\* useProjects: the answer to its GET is read from the database at once and
\* arrives later.
OpenPage(t) ==
    /\ page[t] = "closed"
    /\ used.opens < Limit.opens
    /\ page' = [page EXCEPT ![t] = "loading"]
    /\ live' = [live EXCEPT ![t] = server]
    /\ first' = [first EXCEPT ![t] = server]
    /\ used' = [used EXCEPT !.opens = @ + 1]
    /\ UNCHANGED <<server, local, import, net, spent, last, clashed, strayed, mixed>>

Arrive(t) ==
    /\ page[t] = "loading"
    /\ page' = [page EXCEPT ![t] = "open"]
    /\ UNCHANGED <<server, live, first, local, import, net, used, spent, last, clashed,
                   strayed, mixed>>

\* The tab is closed or loaded anew: an import stops where it is, requests
\* that have left go on without it.
Leave(t) ==
    /\ Open(t)
    /\ used.opens < Limit.opens
    /\ page' = [page EXCEPT ![t] = "closed"]
    /\ live' = [live EXCEPT ![t] = [p \in Projects |-> NoRecord]]
    /\ first' = [first EXCEPT ![t] = [p \in Projects |-> NoRecord]]
    /\ local' = [local EXCEPT ![t] = [p \in Projects |-> Nothing]]
    /\ import' = [import EXCEPT ![t] = NoImport]
    /\ net' = {IF r.tab = t THEN [r EXCEPT !.tab = Nothing] ELSE r : r \in net}
    /\ strayed' = (strayed \/ import[t] # NoImport)
    /\ UNCHANGED <<server, used, spent, last, clashed, mixed>>

\* update_planning stores the value it is given; the answer is the project.
Serve(r) ==
    LET p == r.project
        row == IF r.kind = "wave" THEN [server[p] EXCEPT !.wave = r.wave]
                                  ELSE [server[p] EXCEPT !.plan = r.plan]
    IN
    /\ r.at = "sent"
    /\ server' = [server EXCEPT ![p] = row]
    /\ net' = (net \ {r}) \cup {[r EXCEPT !.at = "served", !.answer = row]}
    /\ last' = [last EXCEPT ![p] = IF r.kind = "wave" THEN [@ EXCEPT !.wave = r.tab]
                                                     ELSE [@ EXCEPT !.plan = r.tab]]
    /\ strayed' = (strayed \/ \E o \in InFlight(p) : o.at = "sent" /\ o.id < r.id
                                                     /\ {o.kind, r.kind} \cap {"wave"} = {})
    /\ UNCHANGED <<page, live, first, local, import, used, spent, clashed, mixed>>

\* The import goes on to the next project, or ends.
ImportGoesOn(r) ==
    import' = [t \in Tabs |->
        IF import[t].wait # r.id THEN import[t]
        ELSE IF import[t].plans = <<>> THEN NoImport
        ELSE [import[t] EXCEPT !.wait = 0]]

\* A late answer brings back a plan that its tab has reset since.
ShowsOlder(r) ==
    /\ r.tab # Nothing /\ r.kind # "wave"
    /\ local[r.tab][r.project] = Nothing
    /\ Given(r.answer.plan) # Given(live[r.tab][r.project].plan)

\* The answer replaces the whole project; an assignment's is not used.
Reply(r) ==
    /\ r.at = "served"
    /\ net' = net \ {r}
    /\ live' = IF r.tab = Nothing \/ r.kind = "wave" THEN live
               ELSE [live EXCEPT ![r.tab][r.project] = r.answer]
    /\ strayed' = (strayed \/ ShowsOlder(r))
    /\ ImportGoesOn(r)
    /\ UNCHANGED <<server, page, first, local, used, spent, last, clashed, mixed>>

\* The request or its answer is lost.  The chart drops its copy of the plan;
\* the page puts back the wave of the list it loaded, and of the plan what it
\* already shows.
Fail(r) ==
    /\ used.failures < Limit.failures
    /\ net' = net \ {r}
    /\ used' = [used EXCEPT !.failures = @ + 1]
    /\ strayed' = TRUE
    /\ mixed' = mixed \cup {r.project}
    /\ local' = IF r.tab = Nothing \/ r.kind # "plan" THEN local
                ELSE [local EXCEPT ![r.tab][r.project] = Nothing]
    /\ live' = IF r.tab = Nothing \/ r.kind # "wave" THEN live
               ELSE [live EXCEPT ![r.tab][r.project].wave = first[r.tab][r.project].wave]
    /\ ImportGoesOn(r)
    /\ UNCHANGED <<server, page, first, spent, last, clashed>>

---------------------------------------------------------------------------
(* Specification *)

Init ==
    /\ server \in Start
    /\ page = [t \in Tabs |-> "closed"]
    /\ live = [t \in Tabs |-> [p \in Projects |-> NoRecord]]
    /\ first = [t \in Tabs |-> [p \in Projects |-> NoRecord]]
    /\ local = [t \in Tabs |-> [p \in Projects |-> Nothing]]
    /\ import = [t \in Tabs |-> NoImport]
    /\ net = {}
    /\ used = [edits |-> 0, sends |-> 0, failures |-> 0, opens |-> 0]
    /\ spent = {}
    /\ last = [p \in Projects |-> [plan |-> Nothing, wave |-> Nothing]]
    /\ clashed = FALSE
    /\ strayed = FALSE
    /\ mixed = {}

Next ==
    \/ \E t \in Tabs :
          \/ OpenPage(t) \/ Arrive(t) \/ Leave(t)
          \/ Import(t) \/ ImportDep(t) \/ ImportSave(t)
          \/ \E p \in Projects :
                \/ AddPreset(t, p) \/ AddCustom(t, p) \/ DeleteMilestone(t, p)
                \/ AddDep(t, p) \/ RemoveDep(t, p) \/ Change(t, p)
                \/ ResetPlanning(t, p) \/ Assign(t, p)
    \/ \E r \in net : Serve(r) \/ Reply(r) \/ Fail(r)

Spec == Init /\ [][Next]_vars

---------------------------------------------------------------------------
(* Properties *)

\* The plans of a project have ids of that project's milestones: its own
\* presets (fixedMilestoneId) and custom ones.
TypeOK ==
    /\ \A p \in Projects : IsStored(p, server[p])
    /\ mixed \subseteq Projects
    /\ page \in [Tabs -> {"closed", "loading", "open"}]
    /\ \A t \in Tabs, p \in Projects :
          /\ IsStored(p, live[t][p])
          /\ IsStored(p, first[t][p])
          /\ local[t][p] # Nothing => IsPlan(p, local[t][p])
    /\ \A r \in net :
          /\ r.tab \in Tabs \cup {Nothing}
          /\ r.kind \in Kinds /\ r.at \in {"sent", "served"}
          /\ IsPlan(r.project, r.plan) /\ IsStored(r.project, r.answer)
    /\ clashed \in BOOLEAN /\ strayed \in BOOLEAN

\* No plan that the database, a tab or a request ever holds has a cycle among
\* its milestones, whatever fails, is overtaken or comes from another tab, as
\* long as no custom id has been used in two projects (isDAGSafe and
\* createsDepCycle look through all projects shown).
PlansAcyclic ==
    ~clashed => \A p \in Projects : \A plan \in Everywhere(p) : Acyclic(plan)

\* Across projects the stored dependencies have no cycle either once all saves
\* are over and no import is half done, as long as each edit was made on what is
\* stored or on its way, no import was cut off, no late answer showed a tab an
\* older plan again, and no save failed or was overtaken by a later one of its
\* project.
GraphAcyclic ==
    (net = {} /\ (\A t \in Tabs : import[t] = NoImport) /\ ~strayed /\ ~clashed) =>
        Acyclic(ServerMap)

\* Whoever stored a plan or a wave last sees it once its requests are over,
\* though each answer replaces the whole project, as long as no save of the
\* project failed and no two were in flight at once.
WriterSeesStored ==
    \A t \in Tabs, p \in Projects \ mixed :
        (Open(t) /\ InFlight(p) = {}) =>
            /\ last[p].plan = t => Shown(t, p) = Given(server[p].plan)
            /\ last[p].wave = t => live[t][p].wave = server[p].wave
=============================================================================
