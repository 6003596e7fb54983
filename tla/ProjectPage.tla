----------------------------- MODULE ProjectPage -----------------------------
(***************************************************************************)
(* The project page of several users over one project: the hook            *)
(* useProject (frontend/src/hooks/use-projects.ts) with its optimistic     *)
(* saves, rollback and poll; apiClient.get, which joins a GET already in   *)
(* flight; the handlers of ProjectDetailsPage.tsx and the sign-off modal;  *)
(* and the section, status, block, sign-off and Jira endpoints they call.  *)
(*                                                                         *)
(* A handler is one async function of the page at work: a list of calls,   *)
(* each sent, served by the backend in one transaction, and answered; the  *)
(* request or its answer may be lost.  One plain section stands for all    *)
(* the sections saved as a whole: its content is the set of edits in it.   *)
(* The job of the project is the mirror JiraJobs describes in full.        *)
(***************************************************************************)
EXTENDS Naturals, Sequences, FiniteSets

CONSTANTS
    Users,      \* signed-in users with the page open
    RoleOf,     \* [Users -> sign-off role, or "member"]
    Handlers,   \* event handlers that may run at the same time
    UserOf,     \* [Handlers -> Users], whose page a handler belongs to
    MayDo,      \* [Handlers -> SUBSET Operations], bounds what it is used for
    GbiRole,    \* the role of the second step (champion, or delegate)
    JiraOn,     \* createJiraStoriesOnSignoff
    Edits,      \* edits of the plain section
    Limit,      \* bounds: clicks, losses and resets together, job failures
    Nothing     \* no project, no operation

Sequence == <<"technical_lead", GbiRole, "platform_migration_lead">>
Roles == {Sequence[i] : i \in DOMAIN Sequence}
Lead == "platform_migration_lead"
Operations == {"save", "approve", "block", "unblock", "complete", "retry"}

ASSUME ProjectPageAssumption ==
    /\ GbiRole \in {"gbi_champion", "gbi_champion_delegate"}
    /\ RoleOf \in [Users -> Roles \cup {"member"}]
    /\ UserOf \in [Handlers -> Users]
    /\ MayDo \in [Handlers -> SUBSET Operations]
    /\ JiraOn \in BOOLEAN
    /\ Limit \in [clicks : Nat, upsets : Nat, failures : Nat]
    /\ Nothing \notin Handlers
    /\ "load" \notin Handlers /\ "poll" \notin Handlers

VARIABLES
    row,      \* the project's row and approval rows in the database
    task,     \* the background job of the project
    granted,  \* roles a holder has asked to approve since the last reset
    everSaved,\* edits that have been in the database
    view,     \* [Users -> what useProject holds]
    get,      \* [Users -> the GET of the project in flight]
    run,      \* [Handlers -> the operation at work]
    modal,    \* [Users -> the sign-off modal]
    mixed,    \* users two of whose saves have overlapped
    used      \* counters against Limit

vars == <<row, task, granted, everSaved, view, get, run, modal, mixed, used>>
client == <<view, get, run, modal, mixed>>
server == <<row, task, granted, everSaved>>

---------------------------------------------------------------------------
(* Data *)

ApprovalStatus == {"absent", "pending", "waiting", "approved"}
Status == {"in-progress", "blocked", "signed-off"}
JobStatus == {"none", "pending", "processing", "completed", "failed"}
Row == [approvals : [Roles -> ApprovalStatus], status : Status,
        section : SUBSET Edits, job : JobStatus]

ASSUME NothingIsNoProject == Nothing \notin Row

Before(r) == {Sequence[i] : i \in {j \in DOMAIN Sequence :
                 \E k \in DOMAIN Sequence : j < k /\ Sequence[k] = r}}
Follows(r, s) == \E i \in 1 .. Len(Sequence) - 1 :
                    Sequence[i] = r /\ Sequence[i + 1] = s
AllApproved(a) == \A r \in Roles : a[r] = "approved"
InOrder(a) == \A r \in Roles : a[r] = "approved" =>
                 \A p \in Before(r) : a[p] = "approved"

\* What derive_status_from_stage_progress makes of the sign-off stage: the
\* other stages are taken to be where they are while a project is signed off.
Derived(a) == IF AllApproved(a) THEN "signed-off" ELSE "in-progress"
Shown(p) == [p EXCEPT !.status =
               IF p.status = "blocked" THEN "blocked" ELSE Derived(p.approvals)]

\* ensureAllRoles, then the map of applyApproval.
WithApproval(a, role) ==
    [r \in Roles |->
        CASE r = role -> "approved"
          [] r # role /\ Follows(role, r) /\ a[r] \in {"absent", "pending"} -> "waiting"
          [] r # role /\ a[r] = "absent" /\ ~Follows(role, r) -> "pending"
          [] OTHER -> a[r]]

Idle == [op |-> Nothing, call |-> "none", at |-> "none", base |-> Nothing,
         body |-> Nothing, answer |-> Nothing]
NoGet == [at |-> "none", data |-> Nothing, for |-> {}]
Calls == {"section", "approvals", "status", "config", "job", "block", "retry", "refresh"}
Saves == {"section", "approvals", "status", "config"}
Busy(h) == run[h] # Idle
Mine(u) == {h \in Handlers : UserOf[h] = u}
Upset == used.losses + used.resets < Limit.upsets
Saving(h) == run[h].call \in Saves
JobRuns(p) == p.job \in {"pending", "processing"}

---------------------------------------------------------------------------
(* Calls of a handler *)

\* The key and value that saveSection writes into the view at once.
Optimistic(v, call, body) ==
    CASE call = "section" -> [v EXCEPT !.section = body]
      [] call = "approvals" -> [v EXCEPT !.approvals = body]
      [] call = "status" -> [v EXCEPT !.status = body]
      [] OTHER -> v

\* The call an operation makes after `call' has succeeded.
NextCall(h) ==
    LET op == run[h].op  call == run[h].call IN
    IF op \in {"save", "unblock"} \/ call = "refresh" THEN "none"
    ELSE IF call = "approvals" /\ AllApproved(run[h].body) THEN "status"
    ELSE IF /\ call \in {"approvals", "status"} /\ op = "approve"
            /\ RoleOf[UserOf[h]] = Lead /\ JiraOn THEN "config"
    ELSE IF call = "config" THEN "job" ELSE "refresh"

\* A refresh joins the GET in flight, or starts one.
JoinGet(u, who) ==
    get' = [get EXCEPT ![u] = IF @.at = "none"
                THEN [at |-> "sent", data |-> Nothing, for |-> {who}]
                ELSE [at |-> @.at, data |-> @.data, for |-> @.for \cup {who}]]

Send(h, op, call, base, body) ==
    run' = [run EXCEPT ![h] = [op |-> op, call |-> call, at |-> "sent",
                               base |-> base, body |-> body, answer |-> Nothing]]

\* Two saves of one page that overlap take each other's optimistic value into
\* the snapshot they roll back to.
Overlap(h) == mixed' = IF \E g \in Mine(UserOf[h]) \ {h} : Saving(g)
                       THEN mixed \cup {UserOf[h]} ELSE mixed

\* The handler's next call, or its end; w is the view after the answer.
Continue(h, w) ==
    LET u == UserOf[h]  call == NextCall(h)  op == run[h].op IN
    \/ /\ call = "none"
       /\ view' = [view EXCEPT ![u] = w]
       /\ run' = [run EXCEPT ![h] = Idle]
       /\ UNCHANGED <<get, mixed>>
    \/ /\ call = "status"
       /\ view' = [view EXCEPT ![u] = Optimistic(w, "status", "signed-off")]
       /\ Send(h, op, "status", run[h].base, "signed-off")
       /\ Overlap(h)
       /\ UNCHANGED get
    \/ /\ call \in {"config", "job"}
       /\ view' = [view EXCEPT ![u] = w]
       /\ Send(h, op, call, run[h].base, Nothing)
       /\ Overlap(h)
       /\ UNCHANGED get
    \/ /\ call = "refresh"
       /\ view' = [view EXCEPT ![u] = w]
       /\ Send(h, op, "refresh", run[h].base, Nothing)
       /\ JoinGet(u, h)
       /\ UNCHANGED mixed

---------------------------------------------------------------------------
(* The user *)

Click(h) == used' = [used EXCEPT !.clicks = @ + 1] /\ used.clicks < Limit.clicks

CanStart(h, op) == /\ ~Busy(h) /\ op \in MayDo[h]
                   /\ view[UserOf[h]] # Nothing

\* The effect of useProject on mount.
Open(u) ==
    /\ view[u] = Nothing /\ "load" \notin get[u].for
    /\ JoinGet(u, "load")
    /\ UNCHANGED <<server, view, run, modal, mixed, used>>

\* canEditProject: an assigned champion is no editor.
CanEdit(u) == RoleOf[u] # GbiRole

\* The drawers of the sections, until the technical lead approves; the tick of
\* a resource, once the job has completed; Retry, once it has failed.
OffersSections(u) == CanEdit(u) /\ view[u].approvals["technical_lead"] # "approved"
OffersComplete(u) == CanEdit(u) /\ view[u].job = "completed"
OffersRetry(u) == view[u].job = "failed"

\* saveSection of a section drawer.
SaveSection(h, e) ==
    LET u == UserOf[h]  body == view[u].section \cup {e} IN
    /\ CanStart(h, "save") /\ Click(h)
    /\ OffersSections(u)
    /\ e \notin view[u].section \cup everSaved
    /\ \A g \in Handlers : run[g].call = "section" => e \notin run[g].body
    /\ view' = [view EXCEPT ![u] = Optimistic(@, "section", body)]
    /\ Send(h, "save", "section", view[u], body)
    /\ Overlap(h)
    /\ UNCHANGED <<server, get, modal>>

\* handleMarkMigrationComplete: a save of the resources, then a refresh.
MarkComplete(h, e) ==
    LET u == UserOf[h]  body == view[u].section \cup {e} IN
    /\ CanStart(h, "complete") /\ Click(h)
    /\ OffersComplete(u)
    /\ e \notin view[u].section \cup everSaved
    /\ \A g \in Handlers : run[g].call = "section" => e \notin run[g].body
    /\ view' = [view EXCEPT ![u] = Optimistic(@, "section", body)]
    /\ Send(h, "complete", "section", view[u], body)
    /\ Overlap(h)
    /\ UNCHANGED <<server, get, modal>>

Eligible(u) ==
    /\ RoleOf[u] \in Roles
    /\ view[u] # Nothing
    /\ view[u].status \in {"in-progress", "blocked"}
    /\ \A p \in Before(RoleOf[u]) : view[u].approvals[p] = "approved"
    /\ view[u].approvals[RoleOf[u]] # "approved"

\* The button; the modal stays open whatever the view becomes afterwards.
OpenModal(u) ==
    /\ modal[u] = "closed" /\ Eligible(u)
    /\ modal' = [modal EXCEPT ![u] = "step1"]
    /\ UNCHANGED <<server, view, get, run, mixed, used>>

CloseModal(u) ==
    /\ modal[u] # "closed"
    /\ modal' = [modal EXCEPT ![u] = "closed"]
    /\ UNCHANGED <<server, view, get, run, mixed, used>>

\* Step 1 of the lead leads to the Jira configuration.
Configure(u) ==
    /\ modal[u] = "step1" /\ RoleOf[u] = Lead /\ JiraOn
    /\ modal' = [modal EXCEPT ![u] = "step2"]
    /\ UNCHANGED <<server, view, get, run, mixed, used>>

\* handleConfirm and handleConfirmWithJira up to their first request.
Confirm(h) ==
    LET u == UserOf[h]
        body == WithApproval(view[u].approvals, RoleOf[u]) IN
    /\ CanStart(h, "approve") /\ Click(h)
    /\ modal[u] = IF RoleOf[u] = Lead /\ JiraOn THEN "step2" ELSE "step1"
    /\ modal' = [modal EXCEPT ![u] = "closed"]
    /\ view' = [view EXCEPT ![u] = Optimistic(@, "approvals", body)]
    /\ Send(h, "approve", "approvals", view[u], body)
    /\ Overlap(h)
    /\ UNCHANGED <<server, get>>

Block(h) ==
    LET u == UserOf[h] IN
    /\ CanStart(h, "block") /\ Click(h)
    /\ RoleOf[u] = Lead /\ view[u].status # "blocked"
    /\ Send(h, "block", "block", view[u], Nothing)
    /\ UNCHANGED <<server, view, get, modal, mixed>>

Unblock(h) ==
    LET u == UserOf[h] IN
    /\ CanStart(h, "unblock") /\ Click(h)
    /\ RoleOf[u] = Lead /\ view[u].status = "blocked"
    /\ view' = [view EXCEPT ![u] = Optimistic(@, "status", "in-progress")]
    /\ Send(h, "unblock", "status", view[u], "in-progress")
    /\ Overlap(h)
    /\ UNCHANGED <<server, get, modal>>

RetryJob(h) ==
    LET u == UserOf[h] IN
    /\ CanStart(h, "retry") /\ Click(h)
    /\ OffersRetry(u)
    /\ Send(h, "retry", "retry", view[u], Nothing)
    /\ UNCHANGED <<server, view, get, modal, mixed>>

---------------------------------------------------------------------------
(* The backend *)

Answer(h, reply) == run' = [run EXCEPT ![h].at = "served", ![h].answer = reply]
Refuse(h) == /\ run' = [run EXCEPT ![h].at = "refused"]
             /\ UNCHANGED server

\* Mutants of MayApprove: the sequence, or the authority, is not tested.
MayApproveAnyOrder(u, a) ==
    \A r \in Roles : a[r] = "approved" /\ row.approvals[r] # "approved" => RoleOf[u] = r
MayApproveForOthers(u, a) == InOrder(a)

\* _replace_approvals: sequence, then authority for what is newly approved,
\* then the rows are replaced and the status derived.
MayApprove(u, a) ==
    /\ InOrder(a)
    /\ \A r \in Roles : a[r] = "approved" /\ row.approvals[r] # "approved"
                           => RoleOf[u] = r

ServeApprovals(h) ==
    LET u == UserOf[h]  a == run[h].body
        p == [row EXCEPT !.approvals = a,
                !.status = IF @ = "blocked" THEN @ ELSE Derived(a)] IN
    /\ run[h].call = "approvals" /\ run[h].at = "sent"
    /\ \/ /\ MayApprove(u, a)
          /\ row' = p
          /\ granted' = granted \cup {RoleOf[u]}
          /\ Answer(h, Shown(p))
          /\ UNCHANGED <<task, everSaved>>
       \/ ~MayApprove(u, a) /\ Refuse(h)
    /\ UNCHANGED <<view, get, modal, mixed, used>>

\* update_section of status: out of or into a block takes a lead, and the
\* status then follows from the stages.
ServeStatus(h) ==
    LET u == UserOf[h]  s == run[h].body
        p == [row EXCEPT !.status = IF @ = "blocked" THEN Derived(row.approvals) ELSE s] IN
    /\ run[h].call = "status" /\ run[h].at = "sent"
    /\ \/ /\ row.status = "blocked" => RoleOf[u] = Lead
          /\ row' = p /\ Answer(h, Shown(p))
          /\ UNCHANGED <<task, granted, everSaved>>
       \/ row.status = "blocked" /\ RoleOf[u] # Lead /\ Refuse(h)
    /\ UNCHANGED <<view, get, modal, mixed, used>>

ServeSection(h) ==
    LET p == [row EXCEPT !.section = run[h].body] IN
    /\ run[h].call = "section" /\ run[h].at = "sent"
    /\ row' = p /\ Answer(h, Shown(p))
    /\ everSaved' = everSaved \cup run[h].body
    /\ UNCHANGED <<task, granted, view, get, modal, mixed, used>>

\* Mutant of ServeConfig: the whole project of the page is saved.
ServeConfigWhole(h) ==
    /\ run[h].call = "config" /\ run[h].at = "sent"
    /\ row' = run[h].base
    /\ Answer(h, Shown(row'))
    /\ UNCHANGED <<task, granted, everSaved, view, get, modal, mixed, used>>

\* jiraSubtaskConfig, which nothing here reads back.
ServeConfig(h) ==
    /\ run[h].call = "config" /\ run[h].at = "sent"
    /\ Answer(h, Shown(row))
    /\ UNCHANGED <<server, view, get, modal, mixed, used>>

\* Mutant of ServeBlock: a status the table does not have.
ServeBlockHeld(h) ==
    /\ run[h].call = "block" /\ run[h].at = "sent"
    /\ row' = [row EXCEPT !.status = "held"]
    /\ Answer(h, Nothing)
    /\ UNCHANGED <<task, granted, everSaved, view, get, modal, mixed, used>>

ServeBlock(h) ==
    /\ run[h].call = "block" /\ run[h].at = "sent"
    /\ row' = [row EXCEPT !.status = "blocked"]
    /\ Answer(h, Nothing)
    /\ UNCHANGED <<task, granted, everSaved, view, get, modal, mixed, used>>

ServeJob(h) ==
    /\ run[h].call = "job" /\ run[h].at = "sent"
    /\ row' = [row EXCEPT !.job = "pending"] /\ task' = "pending"
    /\ Answer(h, Nothing)
    /\ UNCHANGED <<granted, everSaved, view, get, modal, mixed, used>>

ServeRetry(h) ==
    /\ run[h].call = "retry" /\ run[h].at = "sent"
    /\ \/ /\ task \in {"failed", "pending"}
          /\ row' = [row EXCEPT !.job = "pending"] /\ task' = "pending"
          /\ Answer(h, Nothing)
          /\ UNCHANGED <<granted, everSaved>>
       \/ task \notin {"failed", "pending"} /\ Refuse(h)
    /\ UNCHANGED <<view, get, modal, mixed, used>>

ServeGet(u) ==
    /\ get[u].at = "sent"
    /\ get' = [get EXCEPT ![u].at = "served", ![u].data = Shown(row)]
    /\ UNCHANGED <<server, view, run, modal, mixed, used>>

\* The background job and its mirror on the project.
JobStep ==
    /\ \/ task = "pending" /\ task' = "processing" /\ UNCHANGED used
       \/ task = "processing" /\ task' = "completed" /\ UNCHANGED used
       \/ /\ task = "processing" /\ task' = "failed"
          /\ used.failures < Limit.failures
          /\ used' = [used EXCEPT !.failures = @ + 1]
    /\ row' = [row EXCEPT !.job = task']
    /\ UNCHANGED <<granted, everSaved, client>>

\* reset_project, from the administration pages.
Reset ==
    /\ Upset
    /\ used' = [used EXCEPT !.resets = @ + 1]
    /\ row' = [approvals |-> [r \in Roles |-> "absent"], status |-> "in-progress",
               section |-> {}, job |-> "none"]
    /\ granted' = {}
    /\ UNCHANGED <<task, everSaved, client>>

---------------------------------------------------------------------------
(* The network and the answers *)

\* The request, or the answer to it, is lost.
Lose(h) ==
    /\ run[h].at \in {"sent", "served"} /\ run[h].call # "refresh"
    /\ Upset
    /\ used' = [used EXCEPT !.losses = @ + 1]
    /\ run' = [run EXCEPT ![h].at = "refused"]
    /\ UNCHANGED <<server, view, get, modal, mixed>>

\* A good answer: saveSection takes the project in it for the view.
Reply(h) ==
    LET u == UserOf[h] IN
    /\ run[h].at = "served"
    /\ Continue(h, IF Saving(h) THEN run[h].answer ELSE view[u])
    /\ UNCHANGED <<server, modal, used>>

\* Mutant of Rollback: the optimistic value stays.
RollbackNever(h) ==
    /\ run[h].at = "refused"
    /\ run' = [run EXCEPT ![h] = Idle]
    /\ UNCHANGED <<server, view, get, modal, mixed, used>>

\* A failed save goes back to the project its closure holds, and the handler
\* ends with a toast; handleSave of `complete' has caught the error and goes on
\* to its refresh.  A failed creation of the job is swallowed.
Rollback(h) ==
    LET u == UserOf[h]
        w == IF Saving(h) THEN run[h].base ELSE view[u] IN
    /\ run[h].at = "refused"
    /\ IF run[h].call = "job" \/ run[h].op = "complete"
       THEN Continue(h, w)
       ELSE /\ view' = [view EXCEPT ![u] = w]
            /\ run' = [run EXCEPT ![h] = Idle]
            /\ UNCHANGED <<get, mixed>>
    /\ UNCHANGED <<server, modal, used>>

\* The GET ends: everyone who joined it sets the same project.
GetReply(u) ==
    /\ get[u].at = "served"
    /\ view' = [view EXCEPT ![u] = get[u].data]
    /\ get' = [get EXCEPT ![u] = NoGet]
    /\ run' = [h \in Handlers |-> IF h \in get[u].for THEN Idle ELSE run[h]]
    /\ UNCHANGED <<server, modal, mixed, used>>

GetFails(u) ==
    /\ get[u].at \in {"sent", "served"} /\ view[u] # Nothing
    /\ Upset
    /\ used' = [used EXCEPT !.losses = @ + 1]
    /\ get' = [get EXCEPT ![u] = NoGet]
    /\ run' = [h \in Handlers |-> IF h \in get[u].for THEN Idle ELSE run[h]]
    /\ UNCHANGED <<server, view, modal, mixed>>

\* The intervals of the hook and of the page.
Poll(u) ==
    /\ view[u] # Nothing /\ JobRuns(view[u])
    /\ "poll" \notin get[u].for
    /\ JoinGet(u, "poll")
    /\ UNCHANGED <<server, view, run, modal, mixed, used>>

---------------------------------------------------------------------------

\* A project whose first n roles have signed off.
Signed(n) == [r \in Roles |->
    CASE \E i \in 1 .. n : Sequence[i] = r -> "approved"
      [] n > 0 /\ r = Sequence[n + 1] -> "waiting"
      [] OTHER -> IF n = 0 THEN "absent" ELSE "pending"]

Init ==
    /\ \E n \in 0 .. Len(Sequence) - 1 :
        /\ row = [approvals |-> Signed(n), status |-> "in-progress",
                  section |-> {}, job |-> "none"]
        /\ granted = {Sequence[i] : i \in 1 .. n}
    /\ task = "none" /\ everSaved = {}
    /\ view = [u \in Users |-> Nothing]
    /\ get = [u \in Users |-> NoGet]
    /\ run = [h \in Handlers |-> Idle]
    /\ modal = [u \in Users |-> "closed"]
    /\ mixed = {}
    /\ used = [clicks |-> 0, losses |-> 0, resets |-> 0, failures |-> 0]

Act(h) == \/ \E e \in Edits : SaveSection(h, e) \/ MarkComplete(h, e)
          \/ Confirm(h) \/ Block(h) \/ Unblock(h) \/ RetryJob(h)
Browse(u) == Open(u) \/ OpenModal(u) \/ CloseModal(u) \/ Configure(u)
Serve(h) == \/ ServeApprovals(h) \/ ServeStatus(h) \/ ServeSection(h)
            \/ ServeConfig(h) \/ ServeBlock(h) \/ ServeJob(h) \/ ServeRetry(h)

Next == \/ \E h \in Handlers : Act(h) \/ Serve(h) \/ Lose(h) \/ Reply(h) \/ Rollback(h)
        \/ \E u \in Users : Browse(u) \/ ServeGet(u) \/ GetReply(u) \/ GetFails(u) \/ Poll(u)
        \/ JobStep \/ Reset

Spec == Init /\ [][Next]_vars

---------------------------------------------------------------------------
(* Properties *)

TypeOK ==
    /\ row \in Row
    /\ task \in JobStatus
    /\ granted \subseteq Roles \cup {"member"}
    /\ everSaved \subseteq Edits
    /\ view \in [Users -> Row \cup {Nothing}]
    /\ get \in [Users -> [at : {"none", "sent", "served"}, data : Row \cup {Nothing},
                          for : SUBSET (Handlers \cup {"load", "poll"})]]
    /\ \A h \in Handlers :
        run[h] \in [op : Operations \cup {Nothing}, call : Calls \cup {"none"},
                    at : {"none", "sent", "served", "refused"},
                    base : Row \cup {Nothing}, body : {run[h].body},
                    answer : Row \cup {Nothing}]
    /\ modal \in [Users -> {"closed", "step1", "step2"}]
    /\ mixed \subseteq Users

\* In the database no role has approved before those it follows, whatever
\* stale views the approvals were sent from (_validate_approval_sequence).
SequenceHolds == InOrder(row.approvals)

\* What counts as approved was approved by a holder of the role, and since the
\* last reset: a page that still shows the approvals of before cannot bring
\* them back (_check_approval_authority).
ApprovedByHolder == \A r \in Roles : row.approvals[r] = "approved" => r \in granted

\* An approval that has been given is only taken back by a reset or by someone
\* who approves a second time, from a page that does not show the first.
UndoneOnlyByRepeat ==
    [][\A r \in Roles : row.approvals[r] = "approved" /\ row'.approvals[r] # "approved" =>
          \/ used'.resets > used.resets
          \/ \E h \in Handlers : /\ run[h].call = "approvals"
                                 /\ run'[h].at = "served" /\ run[h].at = "sent"
                                 /\ row.approvals[RoleOf[UserOf[h]]] = "approved"]_vars

\* A page at rest shows no edit that was never in the database, unless two of
\* its saves have overlapped (the rollback of saveSection).
NoPhantomEdit ==
    \A u \in Users : view[u] # Nothing /\ u \notin mixed
                     /\ (\A h \in Mine(u) : ~Saving(h)) => view[u].section \subseteq everSaved

---------------------------------------------------------------------------
(* What makes the properties inductive.                                    *)

\* What a call carries goes with what it calls; an approval carries the role
\* of its user; only a refresh waits for a GET, and it waits for nothing else.
CallsFit ==
    /\ run = [h \in Handlers |-> run[h]]
    /\ used \in [clicks : Nat, losses : Nat, resets : Nat, failures : Nat]
    /\ \A h \in Handlers :
        /\ run[h].call = "section" => run[h].body \in SUBSET Edits
        /\ run[h].call = "status" => run[h].body \in Status
        /\ run[h].call = "approvals" =>
              /\ run[h].body \in [Roles -> ApprovalStatus]
              /\ RoleOf[UserOf[h]] \in Roles
              /\ run[h].body[RoleOf[UserOf[h]]] = "approved"
        /\ Saving(h) => run[h].base # Nothing
        /\ Saving(h) /\ run[h].at = "served" => run[h].answer # Nothing
        /\ run[h].call = "refresh" => run[h].at = "sent"
    /\ \A u \in Users :
        /\ modal[u] # "closed" => RoleOf[u] \in Roles /\ view[u] # Nothing
        /\ get[u].at = "served" => get[u].data # Nothing
        /\ \A h \in get[u].for \cap Handlers : UserOf[h] = u /\ run[h].call = "refresh"

\* Whatever may become a view by an answer or a rollback has been stored, and
\* a page whose saves have not overlapped has at most one of them under way.
Stored(p) == p.section \subseteq everSaved
ViewsStored ==
    /\ Stored(row)
    /\ \A u \in Users : get[u].at = "served" => Stored(get[u].data)
    /\ \A h \in Handlers : Saving(h) /\ run[h].at = "served" => Stored(run[h].answer)
    /\ \A h \in Handlers : Saving(h) /\ UserOf[h] \notin mixed => Stored(run[h].base)
    /\ \A g, h \in Handlers : Saving(g) /\ Saving(h) /\ UserOf[g] = UserOf[h]
                               /\ UserOf[h] \notin mixed => g = h
=============================================================================
