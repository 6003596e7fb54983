------------------------------ MODULE EmailJobs ------------------------------
(***************************************************************************)
(* The email queue of the Migration Hub backend: services/email_service.py *)
(* and the operations of routers/admin_email.py on the table email_jobs.   *)
(*                                                                         *)
(* A session that enqueues looks for a row with the idempotency key,       *)
(* inserts one if there is none, and commits when it has gone through all  *)
(* its keys.  A row is processed by an asyncio task that the monitor of a  *)
(* worker starts, or a request that retries it.  The task loads the row,   *)
(* commits "processing", hands the mail to the SMTP relay and commits the  *)
(* outcome.  The relay may accept a mail without the task learning of it.  *)
(***************************************************************************)
EXTENDS Naturals, FiniteSets

CONSTANTS
    Mails,      \* the ids of the rows
    Keys,       \* the idempotency keys
    Pods,       \* the server processes
    Fronts,     \* those that take requests
    Workers,    \* those that run without disable_background_tasks
    Slots,      \* bounds how many tasks one mail may have at once
    Home,       \* the pod of each slot
    Writers,    \* the sessions that may be enqueueing at once
    Desk,       \* the pod of each writer
    Limit,      \* bounds, for each kind of event in Events, how often it occurs
    Kinds,      \* bounds how many kinds of event occur in one behaviour
    NoKey       \* the key of a row that is not there

Events == {"retry", "delete", "crash", "fault", "blind", "edit"}

ASSUME MailConstantsOK ==
    /\ Mails \subseteq Nat
    /\ Fronts \subseteq Pods /\ Workers \subseteq Pods
    /\ Home \in [Slots -> Pods]
    /\ Desk \in [Writers -> Pods]
    /\ Limit \in [Events -> Nat] /\ Kinds \in Nat
    /\ NoKey \notin Keys

VARIABLES
    mail,      \* table email_jobs: status, idempotency key
    task,      \* the process_email_job coroutines
    inflight,  \* _dispatched of each pod
    sweep,     \* the monitor of each worker: phase and the rows it has read
    admin,     \* the retry request each pod is serving, if any
    writer,    \* the enqueueing sessions: keys to do, rows inserted and not committed
    up,        \* the pods that run
    handed,    \* the relay: how often it has accepted each mail
    raced,     \* history: mails started, or put back, on a status that had moved on
    crossed,   \* history: keys that two sessions have inserted at once
    spent      \* how often each bounded event has occurred

qvars == <<mail, task, inflight, sweep, admin, writer, up, handed, raced, crossed, spent>>

Status  == {"absent", "pending", "processing", "sent", "failed", "deleted"}
Row     == [status : Status, key : Keys \cup {NoKey}]
Phases  == {"idle", "start", "loaded", "again", "send", "accepted", "refused", "exit"}
Sweeps  == [phase : {"idle", "read", "dead"}, todo : SUBSET Mails]
Session == [phase : {"idle", "enqueue"}, todo : SUBSET Keys, new : SUBSET Mails,
            of : [Mails -> Keys \cup {NoKey}]]
Request == [phase : {"none", "loaded", "committed"}, mail : SUBSET Mails, seen : Status]
Tasks   == Mails \X Slots

NoRow     == [status |-> "absent", key |-> NoKey]
Asleep    == [phase |-> "idle", todo |-> {}]
Closed    == [phase |-> "idle", todo |-> {}, new |-> {}, of |-> [m \in Mails |-> NoKey]]
NoRequest == [phase |-> "none", mail |-> {}, seen |-> "absent"]

QueueTypeOK ==
    /\ mail \in [Mails -> Row]
    /\ task \in [Tasks -> Phases]
    /\ inflight \in [Pods -> SUBSET Mails]
    /\ sweep \in [Pods -> Sweeps]
    /\ admin \in [Pods -> Request]
    /\ writer \in [Writers -> Session]
    /\ up \subseteq Pods
    /\ handed \in [Mails -> Nat]
    /\ raced \subseteq Mails
    /\ crossed \subseteq Keys
    /\ spent \in [Events -> Nat]

QueueInit ==
    /\ mail = [m \in Mails |-> NoRow]
    /\ task = [t \in Tasks |-> "idle"]
    /\ inflight = [v \in Pods |-> {}]
    /\ sweep = [v \in Pods |-> Asleep]
    /\ admin = [v \in Pods |-> NoRequest]
    /\ writer = [w \in Writers |-> Closed]
    /\ up = Pods
    /\ handed = [m \in Mails |-> 0]
    /\ raced = {}
    /\ crossed = {}
    /\ spent = [e \in Events |-> 0]

-----------------------------------------------------------------------------
(* Helpers *)

There(m)   == mail[m].status \notin {"absent", "deleted"}
Moved(m)   == mail[m].status \in {"processing", "sent"}
PodOf(t)   == Home[t[2]]
Working(t) == task[t] \notin {"idle", "exit"}
Serving(v) == v \in Fronts \cap up

Goes(t, pc) == task' = [task EXCEPT ![t] = pc]

Occurs(e) ==
    /\ spent[e] < Limit[e]
    /\ Cardinality({f \in Events \ {e} : spent[f] > 0}) < Kinds
    /\ spent' = [spent EXCEPT ![e] = @ + 1]

\* asyncio.create_task(process_email_job(id)) for each of the mails, in pod v.
\* The ids are added to _dispatched only when the tasks run.
Spawn(v, mails) ==
    \E slot \in [mails -> {s \in Slots : Home[s] = v}] :
        /\ \A m \in mails : task[<<m, slot[m]>>] = "idle"
        /\ task' = [t \in Tasks |-> IF t[1] \in mails /\ t[2] = slot[t[1]]
                                    THEN "start" ELSE task[t]]

-----------------------------------------------------------------------------
(* enqueue_email, called in a loop by a session that commits at the end.    *)

\* Ids are random, so the next one may as well be the least.
Unused == {m \in Mails : mail[m].status = "absent" /\ \A w \in Writers : m \notin writer[w].new}

Inserted(k) == {w \in Writers : \E m \in writer[w].new : writer[w].of[m] = k}

\* The session has found out which keys it should enqueue.
Open(w, keys) ==
    /\ Desk[w] \in up
    /\ writer[w].phase = "idle"
    /\ writer' = [writer EXCEPT ![w] = [Closed EXCEPT !.phase = "enqueue", !.todo = keys]]
    /\ UNCHANGED <<mail, task, inflight, sweep, admin, up, handed, raced, crossed, spent>>

\* Mutant: a row of another session is not looked for.
KnownNever(w, k) == w \in Inserted(k)

\* The session sees what is committed and what it has inserted itself.
Known(w, k) ==
    \/ \E m \in Mails : There(m) /\ mail[m].key = k
    \/ w \in Inserted(k)

Enqueue(w, k) ==
    /\ writer[w].phase = "enqueue"
    /\ k \in writer[w].todo
    /\ IF Known(w, k)
       THEN /\ writer' = [writer EXCEPT ![w].todo = @ \ {k}]
            /\ UNCHANGED crossed
       ELSE /\ \E m \in Unused :
                  /\ \A n \in Unused : m <= n
                  /\ writer' = [writer EXCEPT ![w].todo = @ \ {k}, ![w].new = @ \cup {m},
                                              ![w].of[m] = k]
            /\ crossed' = IF Inserted(k) \ {w} # {} THEN crossed \cup {k} ELSE crossed
    /\ UNCHANGED <<mail, task, inflight, sweep, admin, up, handed, raced, spent>>

Commit(w) ==
    /\ writer[w].phase = "enqueue"
    /\ writer[w].todo = {}
    /\ mail' = [m \in Mails |->
          IF m \in writer[w].new
          THEN [status |-> "pending", key |-> writer[w].of[m]]
          ELSE mail[m]]
    /\ writer' = [writer EXCEPT ![w] = Closed]
    /\ UNCHANGED <<task, inflight, sweep, admin, up, handed, raced, crossed, spent>>

\* A database error: what the session has not committed is rolled back.
Abort(w) ==
    /\ Desk[w] \in up
    /\ Occurs("fault")
    /\ writer' = [writer EXCEPT ![w] = Closed]
    /\ UNCHANGED <<mail, task, inflight, sweep, admin, up, handed, raced, crossed>>

-----------------------------------------------------------------------------
(* process_email_job.                                                       *)

\* _dispatched.add and session.get.  "again": the row said "processing" already.
Load(t) ==
    LET m == t[1] IN
    /\ task[t] = "start"
    /\ inflight' = [inflight EXCEPT ![PodOf(t)] = @ \cup {m}]
    /\ Goes(t, IF ~There(m) THEN "exit"
               ELSE IF mail[m].status = "processing" THEN "again" ELSE "loaded")
    /\ UNCHANGED <<mail, sweep, admin, writer, up, handed, raced, crossed, spent>>

\* The commit of "processing", whatever the status is; it is not written if the
\* session has loaded it so.  The UPDATE of a row deleted meanwhile raises.
Begin(t) ==
    LET m == t[1]
        again == task[t] = "again"
    IN
    /\ task[t] \in {"loaded", "again"}
    /\ IF There(m)
       THEN /\ mail' = IF again THEN mail ELSE [mail EXCEPT ![m].status = "processing"]
            /\ Goes(t, "send")
            /\ raced' = IF again \/ Moved(m) THEN raced \cup {m} ELSE raced
       ELSE /\ Goes(t, "exit")
            /\ UNCHANGED <<mail, raced>>
    /\ UNCHANGED <<inflight, sweep, admin, writer, up, handed, crossed, spent>>

\* send_email: the relay accepts the mail, or refuses it or cannot be reached.
Deliver(t) ==
    /\ task[t] = "send"
    /\ handed' = [handed EXCEPT ![t[1]] = @ + 1]
    /\ Goes(t, "accepted")
    /\ UNCHANGED <<mail, inflight, sweep, admin, writer, up, raced, crossed, spent>>

Refuse(t) ==
    /\ task[t] = "send"
    /\ Goes(t, "refused")
    /\ UNCHANGED <<mail, inflight, sweep, admin, writer, up, handed, raced, crossed, spent>>

\* The connection breaks after the relay has taken the message: an exception.
AnswerLost(t) ==
    /\ task[t] = "accepted"
    /\ Goes(t, "refused")
    /\ Occurs("blind")
    /\ UNCHANGED <<mail, inflight, sweep, admin, writer, up, handed, raced, crossed>>

\* Mutants: the outcome of the call is not told apart; a status the rest of the
\* program does not know.
OutcomeSent(t)  == "sent"
OutcomeError(t) == IF task[t] = "accepted" THEN "sent" ELSE "error"

Outcome(t) == IF task[t] = "accepted" THEN "sent" ELSE "failed"

\* Mutant: the exception of send_email is not caught.
FinishUncaught(t) ==
    /\ task[t] \in {"accepted", "refused"}
    /\ mail' = IF There(t[1]) /\ task[t] = "accepted"
               THEN [mail EXCEPT ![t[1]].status = Outcome(t)] ELSE mail
    /\ Goes(t, "exit")
    /\ UNCHANGED <<inflight, sweep, admin, writer, up, handed, raced, crossed, spent>>

\* The second commit; if the row is gone it raises.
Finish(t) ==
    /\ task[t] \in {"accepted", "refused"}
    /\ mail' = IF There(t[1]) THEN [mail EXCEPT ![t[1]].status = Outcome(t)] ELSE mail
    /\ Goes(t, "exit")
    /\ UNCHANGED <<inflight, sweep, admin, writer, up, handed, raced, crossed, spent>>

\* The second commit fails: nothing catches it.
FinishFails(t) ==
    /\ task[t] \in {"accepted", "refused"}
    /\ Goes(t, "exit")
    /\ Occurs("fault")
    /\ UNCHANGED <<mail, inflight, sweep, admin, writer, up, handed, raced, crossed>>

\* Mutant: the id stays in _dispatched.
ExitHolding(t) ==
    /\ task[t] = "exit"
    /\ Goes(t, "idle")
    /\ UNCHANGED <<mail, inflight, sweep, admin, writer, up, handed, raced, crossed, spent>>

Exit(t) ==
    /\ task[t] = "exit"
    /\ Goes(t, "idle")
    /\ inflight' = [inflight EXCEPT ![PodOf(t)] = @ \ {t[1]}]
    /\ UNCHANGED <<mail, sweep, admin, writer, up, handed, raced, crossed, spent>>

-----------------------------------------------------------------------------
(* dispatch_pending_email_jobs and its monitor.                             *)

\* The SELECT.  Each worker sweeps; the API pods do not.
SweepRead(v) ==
    /\ v \in Workers \cap up
    /\ sweep[v].phase = "idle"
    /\ sweep' = [sweep EXCEPT ![v] =
          [phase |-> "read", todo |-> {m \in Mails : mail[m].status = "pending"}]]
    /\ UNCHANGED <<mail, task, inflight, admin, writer, up, handed, raced, crossed, spent>>

\* The loop over the rows has no await.
SweepSpawn(v) ==
    /\ sweep[v].phase = "read"
    /\ Spawn(v, sweep[v].todo \ inflight[v])
    /\ sweep' = [sweep EXCEPT ![v] = Asleep]
    /\ UNCHANGED <<mail, inflight, admin, writer, up, handed, raced, crossed, spent>>

\* A database error ends the monitor.
SweepFault(v) ==
    /\ v \in Workers \cap up
    /\ sweep[v].phase = "idle"
    /\ sweep' = [sweep EXCEPT ![v] = [Asleep EXCEPT !.phase = "dead"]]
    /\ Occurs("fault")
    /\ UNCHANGED <<mail, task, inflight, admin, writer, up, handed, raced, crossed>>

-----------------------------------------------------------------------------
(* Administration.                                                          *)

\* Mutant: what was sent may be sent again.
RetryableSent == {"failed", "pending", "sent"}

Retryable == {"failed", "pending"}

\* retry_email_job up to the test of the status it has loaded.
RetryLoad(v, m) ==
    /\ Serving(v)
    /\ admin[v].phase = "none"
    /\ mail[m].status \in Retryable
    /\ admin' = [admin EXCEPT ![v] =
          [phase |-> "loaded", mail |-> {m}, seen |-> mail[m].status]]
    /\ Occurs("retry")
    /\ UNCHANGED <<mail, task, inflight, sweep, writer, up, handed, raced, crossed>>

\* Its commit.  A status that was "pending" is not written; the UPDATE of a row
\* deleted meanwhile raises.
RetryCommit(v, m) ==
    LET writes == admin[v].seen # "pending" IN
    /\ admin[v].phase = "loaded"
    /\ admin[v].mail = {m}
    /\ admin' = [admin EXCEPT ![v] = IF writes /\ ~There(m) THEN NoRequest
                                     ELSE [@ EXCEPT !.phase = "committed"]]
    /\ mail' = IF writes /\ There(m) THEN [mail EXCEPT ![m].status = "pending"] ELSE mail
    /\ raced' = IF writes /\ Moved(m) /\ mail[m].status # admin[v].seen
                THEN raced \cup {m} ELSE raced
    /\ UNCHANGED <<task, inflight, sweep, writer, up, handed, crossed, spent>>

\* asyncio.create_task: _dispatched is not asked.
RetrySpawn(v) ==
    /\ admin[v].phase = "committed"
    /\ Spawn(v, admin[v].mail)
    /\ admin' = [admin EXCEPT ![v] = NoRequest]
    /\ UNCHANGED <<mail, inflight, sweep, writer, up, handed, raced, crossed, spent>>

\* delete_email_jobs: all rows, or those with one status.
Delete(gone) ==
    /\ Fronts \cap up # {}
    /\ mail' = [m \in Mails |-> IF There(m) /\ mail[m].status \in gone
                                THEN [mail[m] EXCEPT !.status = "deleted"] ELSE mail[m]]
    /\ Occurs("delete")
    /\ UNCHANGED <<task, inflight, sweep, admin, writer, up, handed, raced, crossed>>

-----------------------------------------------------------------------------
(* The process dies.  Nothing on start-up looks at email_jobs.              *)

Crash(v) ==
    /\ v \in up
    /\ Occurs("crash")
    /\ up' = up \ {v}
    /\ task' = [t \in Tasks |-> IF PodOf(t) = v THEN "idle" ELSE task[t]]
    /\ inflight' = [inflight EXCEPT ![v] = {}]
    /\ sweep' = [sweep EXCEPT ![v] = Asleep]
    /\ admin' = [admin EXCEPT ![v] = NoRequest]
    /\ writer' = [w \in Writers |-> IF Desk[w] = v THEN Closed ELSE writer[w]]
    /\ UNCHANGED <<mail, handed, raced, crossed>>

Restart(v) ==
    /\ v \in Pods \ up
    /\ up' = up \cup {v}
    /\ UNCHANGED <<mail, task, inflight, sweep, admin, writer, handed, raced, crossed, spent>>

-----------------------------------------------------------------------------

TaskStep(t) == \/ Load(t) \/ Begin(t) \/ Deliver(t) \/ Refuse(t)
               \/ Finish(t) \/ Exit(t)

WriterStep(w) == Commit(w) \/ \E k \in Keys : Enqueue(w, k)

AdminStep(v) == RetrySpawn(v) \/ \E m \in Mails : RetryCommit(v, m)

SweepStep(v) == SweepRead(v) \/ SweepSpawn(v)

\* Everything but the arrival of keys to enqueue.
QueueStep ==
    \/ \E t \in Tasks : TaskStep(t) \/ AnswerLost(t) \/ FinishFails(t)
    \/ \E w \in Writers : WriterStep(w) \/ Abort(w)
    \/ \E v \in Pods : \/ SweepStep(v) \/ SweepFault(v) \/ AdminStep(v)
                       \/ Crash(v) \/ Restart(v)
                       \/ \E m \in Mails : RetryLoad(v, m)
    \/ \E gone \in {Status} \cup {{s} : s \in Status \ {"absent", "deleted"}} : Delete(gone)

QueueNext == QueueStep \/ \E w \in Writers, keys \in SUBSET Keys : Open(w, keys)

QueueSpec == QueueInit /\ [][QueueNext]_qvars

\* The event loop runs what can run, the monitor wakes up, a dead process is
\* started again; users and faults owe nothing.
QueueFairness ==
    /\ \A t \in Tasks : WF_qvars(TaskStep(t))
    /\ \A w \in Writers : WF_qvars(WriterStep(w))
    /\ \A v \in Pods : WF_qvars(SweepStep(v)) /\ WF_qvars(AdminStep(v)) /\ WF_qvars(Restart(v))

FairQueue == QueueSpec /\ QueueFairness

-----------------------------------------------------------------------------
(* Properties.                                                              *)

\* A mail is handed to the relay at most once, through any number of retries,
\* sweeps, crashes and deletions, unless the relay's answer was lost or a task
\* was started, or a retry committed, on a status that had moved on meanwhile
\* (process_email_job never looks at the status it finds).
HandedOnce ==
    \A m \in Mails \ raced : spent["blind"] = 0 => handed[m] <= 1

\* What the table shows is what the relay did: "sent" was accepted, even after a
\* race, and what "failed" invites to retry was not, short of a lost answer.
StatusTellsTheTruth ==
    \A m \in Mails :
        /\ mail[m].status = "sent" => handed[m] > 0
        /\ mail[m].status = "failed" /\ m \notin raced /\ spent["blind"] = 0 => handed[m] = 0

\* plans/event-driven-email.md:63: one reminder for the same wave and date.  An
\* idempotency key is in one row, unless two sessions inserted it at once:
\* the SELECT of each missed what the other had not committed.
OneRowPerKey ==
    \A m, n \in Mails :
        There(m) /\ There(n) /\ mail[m].key = mail[n].key /\ m # n
        => mail[m].key \in crossed

\* Only a crash or a failed commit strands a mail in "processing", where neither
\* the monitor nor the retry of an administrator looks.
NoStrandedMail ==
    \A m \in Mails :
        mail[m].status = "processing" /\ m \notin raced /\ spent["crash"] = 0 /\ spent["fault"] = 0
        => \E s \in Slots : task[<<m, s>>] \in {"send", "accepted", "refused"}

\* Every mail that is pending is picked up, whatever crashes and whatever tasks
\* leave in _dispatched, unless a database error ends the monitor.
PickedUp ==
    \A m \in Mails : mail[m].status = "pending"
        ~> mail[m].status # "pending" \/ \E v \in Workers : sweep[v].phase = "dead"
=============================================================================
