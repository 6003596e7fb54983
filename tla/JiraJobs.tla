------------------------------ MODULE JiraJobs ------------------------------
(***************************************************************************)
(* The Jira job queue of the Migration Hub backend: routers/jira.py,       *)
(* services/jira_service.py and the start-up part of main.py.              *)
(*                                                                         *)
(* A job row is inserted by a request, picked up by an asyncio task        *)
(* (process_job) started by the request itself, by the 30 s monitor or by  *)
(* the start-up code, and processed in checkpoints that are committed one  *)
(* by one.  The database is shared; _dispatched, the tasks and the monitor *)
(* live in the memory of one server process (a pod) and die with it.  Jira *)
(* is remote: a call may fail, or do its work and lose the reply.          *)
(*                                                                         *)
(* In development one process does it all.  In production (k8s/base) the   *)
(* API pods take the requests and run the tasks they start, with the       *)
(* background tasks disabled, and one worker pod runs the start-up code    *)
(* and the monitor.                                                        *)
(*                                                                         *)
(* A step of a task is what it does between two awaits that another        *)
(* coroutine, a user or a crash can be told apart by.                      *)
(***************************************************************************)
EXTENDS Naturals, Integers, FiniteSets

CONSTANTS
    Jobs,        \* the ids of the job rows, in the order of requested_at
    JobType,     \* config["type"] of each job
    JobProject,  \* project_id of each job
    Projects,
    Resources,   \* the cloud resources
    ResProject,  \* the project that owns each resource
    Buckets,     \* what a subtask is created for: a category, product or resource
    BucketOf,    \* the bucket of each resource in the job's mode
    Grouped,     \* TRUE in category- and product-level mode
    Pods,        \* the server processes
    Fronts,      \* those that take requests
    Workers,     \* those that run without disable_background_tasks
    Slots,       \* bounds how many process_job tasks one job may have at once
    Home,        \* the pod that each slot belongs to
    Limit,       \* bounds, for each kind of event in Events, how often it occurs
    NoRef        \* the null of a column that holds an issue key

Types  == {"migration", "operation", "sync-complete"}
Events == {"crash", "retry", "reset", "edit", "fault", "lost"}
Units  == Buckets \cup {"story", "cr"}   \* the kinds of issue a job creates
Status == {"absent", "pending", "processing", "completed", "failed"}
PStatus == {"none", "pending", "processing", "completed", "failed"}

\* An issue key of a job: the n-th issue Jira made for that unit, or one of
NoKey   == 0     \* none yet
MockKey == -1    \* a generated key that names no issue in Jira
Keys    == Nat \cup {MockKey}
Refs    == (Jobs \X Units \X Keys) \cup {NoRef}

ASSUME ConstantsOK ==
    /\ Jobs \subseteq Nat
    /\ JobType \in [Jobs -> Types]
    /\ JobProject \in [Jobs -> Projects]
    /\ ResProject \in [Resources -> Projects]
    /\ BucketOf \in [Resources -> Buckets]
    /\ Grouped \in BOOLEAN
    /\ ~Grouped => \A r \in Resources : BucketOf[r] = r
    /\ "story" \notin Buckets /\ "cr" \notin Buckets
    /\ "cr" \notin Resources
    /\ Fronts \subseteq Pods /\ Workers \subseteq Pods
    /\ Home \in [Slots -> Pods]
    /\ Limit \in [Events -> Nat]
    /\ NoRef \notin Jobs \X Units \X Keys

VARIABLES
    job,         \* table jira_jobs: status, selection (config) and issue keys
    project,     \* table projects: jira_job_status and jira_story_key
    resource,    \* table cloud_resources: need_migration, jira_subtask_key, migration_completed
    made,        \* Jira: how many issues it made, per job and unit: 1..made
    lost,        \* Jira: those of them whose reply did not arrive
    acted,       \* Jira: per job, the resources whose subtask it linked or closed
    task,        \* the process_job coroutines
    lock,        \* the task whose open transaction holds a projects row, if any
    dispatched,  \* _dispatched of each pod
    claim,       \* jobs committed by a request that has not yet claimed them
    sweep,       \* start-up and dispatch_pending_jobs of each worker: phase, the
                 \* jobs it still holds, and those it resumes, or the one it logs
    server,      \* each pod: "down", "starting" (before lifespan yields) or "up"
    overlap,     \* history: jobs that two working tasks have processed at once
    spent        \* how often each bounded event has occurred

db   == <<job, project, resource>>
jira == <<made, lost, acted>>
mem  == <<task, lock, dispatched, claim, sweep, server>>
vars == <<job, project, resource, made, lost, acted, task, lock, dispatched,
          claim, sweep, server, overlap, spent>>

Tasks  == Jobs \X Slots
NoTask == <<>>
Row    == [status : Status, sel : SUBSET Resources, key : [Units -> Keys]]
Phases == {"idle", "start", "resume", "story", "loop", "reply", "refresh",
           "error", "exit"}
Frame  == [pc : Phases, row : Row, hasStory : BOOLEAN,
           todo : SUBSET (Units \cup Resources), unit : Units, n : Keys]
ProjectRow  == [status : PStatus, story : Refs]
ResourceRow == [inScope : BOOLEAN, key : Refs, migrated : BOOLEAN]
Servers == {"down", "starting", "up"}
Sweeps == [phase : {"reset", "boot", "idle", "read", "log", "dead"}, todo : SUBSET Jobs,
           cur : SUBSET Jobs]

NoKeys == [u \in Units |-> NoKey]
NewRow == [status |-> "absent", sel |-> {}, key |-> NoKeys]
Idle   == [pc |-> "idle", row |-> NewRow, hasStory |-> FALSE, todo |-> {},
           unit |-> "story", n |-> NoKey]
Fresh  == [Idle EXCEPT !.pc = "start"]
NoSweep == [phase |-> "idle", todo |-> {}, cur |-> {}]

TypeOK ==
    /\ job \in [Jobs -> Row]
    /\ project \in [Projects -> ProjectRow]
    /\ resource \in [Resources -> ResourceRow]
    /\ made \in [Jobs -> [Units -> Nat]]
    /\ lost \in [Jobs -> [Units -> SUBSET Nat]]
    /\ acted \in [Jobs -> SUBSET Resources]
    /\ task \in [Tasks -> Frame]
    /\ lock \in [Projects -> Tasks \cup {NoTask}]
    /\ dispatched \in [Pods -> SUBSET Jobs]
    /\ claim \in [Pods -> SUBSET Jobs]
    /\ sweep \in [Pods -> Sweeps]
    /\ server \in [Pods -> Servers]
    /\ overlap \subseteq Jobs
    /\ spent \in [Events -> Nat]

Init ==
    /\ job = [j \in Jobs |-> NewRow]
    /\ project = [p \in Projects |-> [status |-> "none", story |-> NoRef]]
    /\ resource \in [Resources -> {[inScope |-> b, key |-> NoRef, migrated |-> FALSE] :
                                        b \in BOOLEAN}]
    /\ made = [j \in Jobs |-> [u \in Units |-> 0]]
    /\ lost = [j \in Jobs |-> [u \in Units |-> {}]]
    /\ acted = [j \in Jobs |-> {}]
    /\ task = [t \in Tasks |-> Idle]
    /\ lock = [p \in Projects |-> NoTask]
    /\ dispatched = [v \in Pods |-> {}]
    /\ claim = [v \in Pods |-> {}]
    /\ sweep = [v \in Pods |-> NoSweep]
    /\ server = [v \in Pods |-> "up"]
    /\ overlap = {}
    /\ spent = [e \in Events |-> 0]

-----------------------------------------------------------------------------
(* Helpers *)

Proj(t)    == JobProject[t[1]]
Kind(t)    == JobType[t[1]]
Migrates(j) == JobType[j] = "migration"
PodOf(t)   == Home[t[2]]
Serving(v) == v \in Fronts /\ server[v] = "up"

\* A task that may still write: started and not yet in its finally clause.
Working(t) == task[t].pc \notin {"idle", "exit"}

\* No other session's open transaction holds the row of project p.
Free(p, t) == lock[p] \in {NoTask, t}

Occurs(e) ==
    /\ spent[e] < Limit[e]
    /\ spent' = [spent EXCEPT ![e] = @ + 1]

\* A new process_job task for job j in pod v; it claims j before its first await.
Spawn(v, j) ==
    /\ \E s \in Slots :
           /\ Home[s] = v
           /\ task[<<j, s>>].pc = "idle"
           /\ task' = [task EXCEPT ![<<j, s>>] = Fresh]
    /\ dispatched' = [dispatched EXCEPT ![v] = @ \cup {j}]
    /\ overlap' = IF \E s \in Slots : Working(<<j, s>>)
                  THEN overlap \cup {j} ELSE overlap

\* Mutant: the project gets a status that its readers do not know.
SetProjectQueued(p, st) ==
    [project EXCEPT ![p].status = IF st = "pending" THEN "queued" ELSE st]

SetProject(p, st) == [project EXCEPT ![p].status = st]

InScope(p) == {r \in Resources : ResProject[r] = p /\ resource[r].inScope}

\* Mutant: the user's selection is ignored.
PlanIgnoringSelection(j) == {BucketOf[r] : r \in InScope(JobProject[j])}

\* The buckets a migration job creates subtasks for (selectedResourceIds, when
\* given, replaces the in-scope resources in resource-level and custom mode).
Plan(j) ==
    IF ~Grouped /\ job[j].sel # {} THEN job[j].sel
    ELSE {BucketOf[r] : r \in InScope(JobProject[j])}

-----------------------------------------------------------------------------
(* Requests.  Each commits its row before it adds the job to _dispatched;   *)
(* Claim is what happens when control is back in the handler.               *)

Selections(j) ==
    LET withKey == {r \in Resources : ResProject[r] = JobProject[j]
                                      /\ resource[r].key # NoRef}
    IN  CASE JobType[j] = "migration" ->
                IF Grouped THEN {{}}
                ELSE SUBSET {r \in Resources : ResProject[r] = JobProject[j]}
          [] JobType[j] = "operation" -> SUBSET withKey
          [] OTHER -> {{r} : r \in withKey}

\* create_jira_job, create_operation_job, and the branch of
\* mark_resource_sync_complete that queues a job.
Create(v, j) ==
    /\ Serving(v)
    /\ job[j].status = "absent"
    /\ \A i \in Jobs : i < j => job[i].status # "absent"
    /\ \E sel \in Selections(j) :
           job' = [job EXCEPT ![j] = [NewRow EXCEPT !.status = "pending", !.sel = sel]]
    /\ IF Migrates(j)
       THEN /\ lock[JobProject[j]] = NoTask
            /\ project' = SetProject(JobProject[j], "pending")
       ELSE UNCHANGED project
    /\ claim' = [claim EXCEPT ![v] = @ \cup {j}]
    /\ UNCHANGED <<resource, jira, task, lock, dispatched, sweep, server, overlap, spent>>

\* The rows retry_job may pick; it takes the one requested last.
Retryable(p) == {j \in Jobs : JobProject[j] = p /\ job[j].status \in {"failed", "pending"}}

\* retry_jira_job up to its commit.  The job may still be in flight.  (A pod
\* has at most one unclaimed request for a job: a bound.)
Retry(v, p) ==
    /\ Serving(v)
    /\ \E j \in Retryable(p) :
           /\ \A i \in Retryable(p) : i <= j
           /\ j \notin claim[v]
           /\ job' = [job EXCEPT ![j].status = "pending"]
           /\ IF Migrates(j)
              THEN /\ lock[p] = NoTask
                   /\ project' = SetProject(p, "pending")
              ELSE UNCHANGED project
           /\ claim' = [claim EXCEPT ![v] = @ \cup {j}]
    /\ Occurs("retry")
    /\ UNCHANGED <<resource, jira, task, lock, dispatched, sweep, server, overlap>>

\* _dispatched.add and the background task of the request.
Claim(v, j) ==
    /\ j \in claim[v]
    /\ claim' = [claim EXCEPT ![v] = @ \ {j}]
    /\ Spawn(v, j)
    /\ UNCHANGED <<db, jira, lock, sweep, server, spent>>

\* mark_resource_sync_complete of a resource that has no subtask.
SyncWithoutJob(r) ==
    /\ \E v \in Fronts : Serving(v)
    /\ resource[r].key = NoRef
    /\ resource' = [resource EXCEPT ![r].migrated = TRUE]
    /\ UNCHANGED <<job, project, jira, mem, overlap, spent>>

\* The team takes a resource into or out of scope.
EditScope(r) ==
    /\ \E v \in Fronts : Serving(v)
    /\ resource' = [resource EXCEPT ![r].inScope = ~@]
    /\ Occurs("edit")
    /\ UNCHANGED <<job, project, jira, mem, overlap>>

\* reset_project: only the two columns of the projects row; jira_jobs and the
\* resources keep what they have.
ResetProject(p) ==
    /\ \E v \in Fronts : Serving(v)
    /\ lock[p] = NoTask
    /\ project' = [project EXCEPT ![p] = [status |-> "none", story |-> NoRef]]
    /\ Occurs("reset")
    /\ UNCHANGED <<job, resource, jira, mem, overlap>>

-----------------------------------------------------------------------------
(* process_job and the three handlers it dispatches to.                     *)

\* The handler is left, by an exception or for the final steps of process_job;
\* its local variables are of no use to what follows.
Leave(t, pc) == task' = [task EXCEPT ![t] = [Idle EXCEPT !.pc = pc]]

\* What the handler has to do besides the story: the buckets, or the change
\* request and its links, or the subtask to close.
Todo(j, hasStory) ==
    CASE JobType[j] = "migration" -> Plan(j)
      [] JobType[j] = "operation" -> {"cr"} \cup (IF hasStory THEN job[j].sel ELSE {})
      [] OTHER -> job[j].sel

\* Mutant: the handler does not look for the story of an earlier attempt.
BeginAnew(t) ==
    LET j == t[1]
        row == [job[j] EXCEPT !.status = "processing"]
        hasStory == project[Proj(t)].story # NoRef
    IN  /\ task[t].pc = "start"
        /\ job' = [job EXCEPT ![j] = row]
        /\ IF Migrates(j)
           THEN Free(Proj(t), t) /\ project' = SetProject(Proj(t), "processing")
           ELSE UNCHANGED project
        /\ task' = [task EXCEPT ![t] =
                       [@ EXCEPT !.pc = IF Migrates(j) THEN "story" ELSE "loop",
                                 !.row = row, !.hasStory = hasStory,
                                 !.todo = Todo(j, hasStory)]]
        /\ UNCHANGED <<resource, jira, lock, dispatched, claim, sweep, server, overlap, spent>>

\* process_job up to the commit of "processing", and what the handler loads
\* next.  The status found in the row is not looked at.
Begin(t) ==
    LET j == t[1]
        row == [job[j] EXCEPT !.status = "processing"]
        hasStory == project[Proj(t)].story # NoRef
    IN  /\ task[t].pc = "start"
        /\ job' = [job EXCEPT ![j] = row]
        /\ IF Migrates(j)
           THEN /\ Free(Proj(t), t)
                /\ project' = SetProject(Proj(t), "processing")
           ELSE UNCHANGED project
        /\ task' = [task EXCEPT ![t] =
                       [@ EXCEPT !.pc = IF ~Migrates(j) THEN "loop"
                                        ELSE IF row.key["story"] = NoKey THEN "story"
                                        ELSE "resume",
                                 !.row = row, !.hasStory = hasStory,
                                 !.todo = Todo(j, hasStory)]]
        /\ UNCHANGED <<resource, jira, lock, dispatched, claim, sweep, server, overlap, spent>>

\* C1 found done: a projects row without the story key gets it back.  The
\* UPDATE is flushed and its row stays locked until this session's next commit.
Resume(t) ==
    /\ task[t].pc = "resume"
    /\ IF task[t].hasStory
       THEN UNCHANGED lock
       ELSE /\ lock[Proj(t)] = NoTask
            /\ lock' = [lock EXCEPT ![Proj(t)] = t]
    /\ task' = [task EXCEPT ![t] = [@ EXCEPT !.pc = "loop", !.hasStory = TRUE]]
    /\ UNCHANGED <<db, jira, dispatched, claim, sweep, server, overlap, spent>>

\* Mutant: a unit is created whether or not its key is on record.
CreatesAgain(t, u) ==
    \/ task[t].pc = "story" /\ u = "story"
    \/ task[t].pc = "loop" /\ u \in task[t].todo /\ (Migrates(t[1]) \/ u = "cr")

\* The next await of task t is the creation of unit u, or the link or
\* transition of the subtask of resource r.
Creates(t, u) ==
    \/ task[t].pc = "story" /\ u = "story"
    \/ /\ task[t].pc = "loop"
       /\ u \in task[t].todo
       /\ Migrates(t[1]) \/ u = "cr"
       /\ task[t].row.key[u] = NoKey

Acts(t, r) ==
    /\ task[t].pc = "loop"
    /\ ~Migrates(t[1])
    /\ r \in task[t].todo \cap Resources
    /\ "cr" \notin task[t].todo

\* An operation job of a project without a story generates its key.
Mock(t) == ~Migrates(t[1]) /\ ~task[t].hasStory

\* The key a task gets for unit u.
NewKey(t, u) == IF Mock(t) THEN MockKey ELSE made[t[1]][u] + 1

\* Mutant: "break" where "continue" is meant.
SkipRest(t, u) ==
    /\ task[t].pc = "loop"
    /\ u \in task[t].todo
    /\ Migrates(t[1]) \/ u = "cr"
    /\ task[t].row.key[u] # NoKey
    /\ task' = [task EXCEPT ![t].todo = {}]
    /\ UNCHANGED <<db, jira, lock, dispatched, claim, sweep, server, overlap, spent>>

\* A bucket, or the change request, whose checkpoint is set is skipped.
Skip(t, u) ==
    /\ task[t].pc = "loop"
    /\ u \in task[t].todo
    /\ Migrates(t[1]) \/ u = "cr"
    /\ task[t].row.key[u] # NoKey
    /\ task' = [task EXCEPT ![t].todo = @ \ {u}]
    /\ UNCHANGED <<db, jira, lock, dispatched, claim, sweep, server, overlap, spent>>

\* Mutant: the key is made up although Jira is configured.
CallNobody(t, u) ==
    /\ Creates(t, u)
    /\ task' = [task EXCEPT ![t] = [@ EXCEPT !.pc = "reply", !.unit = u,
                   !.n = made[t[1]][u] + 1, !.todo = @ \ {u}]]
    /\ UNCHANGED <<db, jira, lock, dispatched, claim, sweep, server, overlap, spent>>

\* create_story or create_subtask: Jira has made the issue, the task awaits
\* the reply.
CallJira(t, u) ==
    /\ Creates(t, u)
    /\ IF Mock(t) THEN UNCHANGED made
       ELSE made' = [made EXCEPT ![t[1]][u] = NewKey(t, u)]
    /\ task' = [task EXCEPT ![t] = [@ EXCEPT !.pc = "reply", !.unit = u,
                                             !.n = NewKey(t, u),
                                             !.todo = task[t].todo \ {u}]]
    /\ UNCHANGED <<db, lost, acted, lock, dispatched, claim, sweep, server, overlap, spent>>

\* Mutant: a link that cannot be made is logged and skipped.
FailsQuietly(t) ==
    /\ \/ ~Mock(t) /\ (\E u \in Units : Creates(t, u)) /\ Leave(t, "error")
       \/ \E r \in Resources : Acts(t, r) /\ task' = [task EXCEPT ![t].todo = @ \ {r}]
    /\ UNCHANGED <<db, jira, lock, dispatched, claim, sweep, server, overlap, spent>>

\* Jira refuses the call, or is not reached.
JiraFails(t) ==
    /\ \/ ~Mock(t) /\ \E u \in Units : Creates(t, u)
       \/ \E r \in Resources : Acts(t, r)
    /\ Leave(t, "error")
    /\ UNCHANGED <<db, jira, lock, dispatched, claim, sweep, server, overlap, spent>>

\* The call did its work, but times out or loses its connection.
ReplyLost(t) ==
    /\ task[t].pc = "reply"
    /\ task[t].n # MockKey
    /\ lost' = [lost EXCEPT ![t[1]][task[t].unit] = @ \cup {task[t].n}]
    /\ Leave(t, "error")
    /\ Occurs("lost")
    /\ UNCHANGED <<db, made, acted, lock, dispatched, claim, sweep, server, overlap>>

\* Mutant: subtask_keys is replaced by the new entry instead of extended.
RecordAlone(t) ==
    LET j == t[1]
        u == task[t].unit
        story == IF u = "story" THEN task[t].n ELSE task[t].row.key["story"]
    IN  /\ task[t].pc = "reply"
        /\ job' = [job EXCEPT ![j].key =
                     [NoKeys EXCEPT !["story"] = story, ![u] = task[t].n]]
        /\ IF u = "story" \/ lock[Proj(t)] = t
           THEN /\ Free(Proj(t), t)
                /\ project' = [project EXCEPT ![Proj(t)].story = <<j, "story", story>>]
                /\ lock' = [lock EXCEPT ![Proj(t)] = NoTask]
           ELSE UNCHANGED <<project, lock>>
        /\ task' = [task EXCEPT ![t] = [Idle EXCEPT !.pc = "refresh", !.todo = task[t].todo,
                                        !.hasStory = task[t].hasStory \/ u = "story"]]
        /\ UNCHANGED <<resource, jira, dispatched, claim, sweep, server, overlap, spent>>

\* C1 and C2: the key is committed at once.  subtask_keys is written as one
\* value, made from the keys this session holds.
Record(t) ==
    LET j == t[1]
        u == task[t].unit
        story == IF u = "story" THEN task[t].n ELSE task[t].row.key["story"]
    IN  /\ task[t].pc = "reply"
        /\ job' = [job EXCEPT ![j].key =
                     IF u = "story" THEN [@ EXCEPT !["story"] = task[t].n]
                     ELSE [task[t].row.key EXCEPT !["story"] = job[j].key["story"],
                                                  ![u] = task[t].n]]
        /\ IF u = "story" \/ lock[Proj(t)] = t
           THEN /\ Free(Proj(t), t)
                /\ project' = [project EXCEPT ![Proj(t)].story = <<j, "story", story>>]
                /\ lock' = [lock EXCEPT ![Proj(t)] = NoTask]
           ELSE UNCHANGED <<project, lock>>
        /\ task' = [task EXCEPT ![t] = [Idle EXCEPT !.pc = "refresh", !.todo = task[t].todo,
                                        !.hasStory = task[t].hasStory \/ u = "story"]]
        /\ UNCHANGED <<resource, jira, dispatched, claim, sweep, server, overlap, spent>>

\* session.refresh(job) after such a commit.
Refresh(t) ==
    /\ task[t].pc = "refresh"
    /\ task' = [task EXCEPT ![t] = [@ EXCEPT !.pc = "loop", !.row = job[t[1]]]]
    /\ UNCHANGED <<db, jira, lock, dispatched, claim, sweep, server, overlap, spent>>

\* create_issue_link of an operation job; the transition to Done of a
\* sync-complete job, which is left out when the workflow has none.
Act(t, r) ==
    /\ Acts(t, r)
    /\ \/ acted' = [acted EXCEPT ![t[1]] = @ \cup {r}]
       \/ Kind(t) = "sync-complete" /\ UNCHANGED acted
    /\ \/ task' = [task EXCEPT ![t].todo = @ \ {r}]
       \/ Leave(t, "error")                            \* the reply is lost
    /\ UNCHANGED <<db, made, lost, lock, dispatched, claim, sweep, server, overlap, spent>>

\* The key written back to an in-scope resource of the job's project.
WriteBack(t, r) ==
    LET b == BucketOf[r]
        n == task[t].row.key[b]
    IN  IF n # NoKey THEN <<t[1], b, n>>
        ELSE IF Grouped THEN NoRef ELSE resource[r].key

\* C3 and the final commit.  The session writes the status only if it differs
\* from the one it holds.
Complete(t) ==
    LET j == t[1]
        held == task[t].row.status
    IN  /\ task[t].pc = "loop"
        /\ task[t].todo = {}
        /\ job' = IF held = "completed" THEN job
                  ELSE [job EXCEPT ![j].status = "completed"]
        /\ \/ /\ Kind(t) = "migration"
              /\ Free(Proj(t), t)
              /\ project' = [project EXCEPT ![Proj(t)] =
                    [status |-> "completed",
                     story  |-> IF lock[Proj(t)] = t
                                THEN <<j, "story", task[t].row.key["story"]>>
                                ELSE @.story]]
              /\ lock' = [lock EXCEPT ![Proj(t)] = NoTask]
              /\ resource' = [r \in Resources |->
                    IF r \in InScope(Proj(t))
                    THEN [resource[r] EXCEPT !.key = WriteBack(t, r)]
                    ELSE resource[r]]
           \/ /\ Kind(t) = "operation"
              /\ UNCHANGED <<project, resource, lock>>
           \/ /\ Kind(t) = "sync-complete"
              /\ resource' = [r \in Resources |->
                    IF r \in job[j].sel THEN [resource[r] EXCEPT !.migrated = TRUE]
                    ELSE resource[r]]
              /\ UNCHANGED <<project, lock>>
        /\ Leave(t, "exit")
        /\ UNCHANGED <<jira, dispatched, claim, sweep, server, overlap, spent>>

\* Mutant: the failure of any job is shown on its project.
RecoverAnyType(t) ==
    /\ task[t].pc = "error"
    /\ job' = [job EXCEPT ![t[1]].status = "failed"]
    /\ lock[Proj(t)] = NoTask
    /\ project' = SetProject(Proj(t), "failed")
    /\ Leave(t, "exit")
    /\ UNCHANGED <<resource, jira, lock, dispatched, claim, sweep, server, overlap, spent>>

\* The except clause: a second session marks the job failed, while the first
\* one is still open with whatever rows it has locked.
Recover(t) ==
    /\ task[t].pc = "error"
    /\ job' = [job EXCEPT ![t[1]].status = "failed"]
    /\ IF Migrates(t[1])
       THEN /\ lock[Proj(t)] = NoTask
            /\ project' = SetProject(Proj(t), "failed")
       ELSE UNCHANGED project
    /\ Leave(t, "exit")
    /\ UNCHANGED <<resource, jira, lock, dispatched, claim, sweep, server, overlap, spent>>

\* The database is not reached either: logged and swallowed.
RecoverFails(t) ==
    /\ task[t].pc = "error"
    /\ lock' = [p \in Projects |-> IF lock[p] = t THEN NoTask ELSE lock[p]]
    /\ Leave(t, "exit")
    /\ Occurs("fault")
    /\ UNCHANGED <<db, jira, dispatched, claim, sweep, server, overlap>>

\* The finally clause.
Exit(t) ==
    /\ task[t].pc = "exit"
    /\ dispatched' = [dispatched EXCEPT ![PodOf(t)] = @ \ {t[1]}]
    /\ task' = [task EXCEPT ![t] = Idle]
    /\ UNCHANGED <<db, jira, lock, claim, sweep, server, overlap, spent>>

-----------------------------------------------------------------------------
(* dispatch_pending_jobs, run by the start-up code and then by the monitor.  *)

\* Mutant: the sweep filters on a status no row has.
QueuedJobs == {j \in Jobs : job[j].status = "queued"}

Pending == {j \in Jobs : job[j].status = "pending"}

\* From one await of the loop to the next: jobs found in _dispatched are
\* skipped, the first other one is logged.
Advance(v) ==
    LET held == sweep[v].todo IN
    \/ /\ held \subseteq dispatched[v]
       /\ sweep' = [sweep EXCEPT ![v] = NoSweep]
    \/ \E j \in held \ dispatched[v], skipped \in SUBSET (held \cap dispatched[v]) :
          sweep' = [sweep EXCEPT ![v] =
                       [phase |-> "log", todo |-> held \ (skipped \cup {j}), cur |-> {j}]]

\* The SELECT of the pending rows.
SweepRead(v) ==
    /\ v \in Workers
    /\ \/ server[v] = "starting" /\ sweep[v].phase = "boot"
       \/ server[v] = "up" /\ sweep[v].phase = "idle"
    /\ sweep' = [sweep EXCEPT ![v] = [phase |-> "read", todo |-> Pending, cur |-> {}]]
    /\ UNCHANGED <<db, jira, task, lock, dispatched, claim, server, overlap, spent>>

SweepCheck(v) ==
    /\ sweep[v].phase = "read"
    /\ Advance(v)
    /\ UNCHANGED <<db, jira, task, lock, dispatched, claim, server, overlap, spent>>

\* The log entry is written: create_task, and on to the next job.  The status
\* of the job is not read again.
SweepSpawn(v, j) ==
    /\ sweep[v].phase = "log"
    /\ sweep[v].cur = {j}
    /\ Spawn(v, j)
    /\ Advance(v)
    /\ UNCHANGED <<db, jira, lock, claim, server, spent>>

\* A database error ends the monitor: nothing catches it.
SweepFault(v) ==
    /\ server[v] = "up"
    /\ sweep[v].phase \in {"read", "log"}
    /\ sweep' = [sweep EXCEPT ![v] = [NoSweep EXCEPT !.phase = "dead"]]
    /\ Occurs("fault")
    /\ UNCHANGED <<db, jira, task, lock, dispatched, claim, server, overlap>>

-----------------------------------------------------------------------------
(* Crash and start-up.                                                      *)

\* The process dies: its memory is gone, its open transactions are rolled back,
\* and replies on their way to it reach nobody.
Crash(v) ==
    /\ server[v] # "down"
    /\ Occurs("crash")
    /\ server' = [server EXCEPT ![v] = "down"]
    /\ lost' = [j \in Jobs |-> [u \in Units |-> lost[j][u] \cup
          {task[<<j, s>>].n : s \in {x \in Slots : /\ Home[x] = v
                                                  /\ task[<<j, x>>].pc = "reply"
                                                  /\ task[<<j, x>>].unit = u
                                                  /\ task[<<j, x>>].n # MockKey}}]]
    /\ task' = [t \in Tasks |-> IF PodOf(t) = v THEN Idle ELSE task[t]]
    /\ lock' = [p \in Projects |->
                  IF lock[p] \in Tasks /\ PodOf(lock[p]) = v THEN NoTask ELSE lock[p]]
    /\ dispatched' = [dispatched EXCEPT ![v] = {}]
    /\ claim' = [claim EXCEPT ![v] = {}]
    /\ sweep' = [sweep EXCEPT ![v] = NoSweep]
    /\ UNCHANGED <<db, made, acted, overlap>>

\* Mutant: only jobs with progress are reset on start-up.
StaleWithStory == {j \in Jobs : job[j].status = "processing" /\ job[j].key["story"] # NoKey}

Stale      == {j \in Jobs : job[j].status = "processing"}
Resumed(j) == job[j].key["story"] # NoKey

\* lifespan of an API pod; of a worker, up to the SELECT of reset_stale_jobs.
Restart(v) ==
    /\ server[v] = "down"
    /\ IF v \in Workers
       THEN /\ server' = [server EXCEPT ![v] = "starting"]
            /\ sweep' = [sweep EXCEPT ![v] =
                  [phase |-> "reset", todo |-> Stale, cur |-> {j \in Stale : Resumed(j)}]]
       ELSE /\ server' = [server EXCEPT ![v] = "up"]
            /\ UNCHANGED sweep
    /\ UNCHANGED <<db, jira, task, lock, dispatched, claim, overlap, spent>>

\* reset_stale_jobs, its commit, and a task for each job it returned.  Other
\* pods may have moved the jobs since they were read.  Of two stale migration
\* jobs of a project the one visited last decides the project's status.
ResetStale(v) ==
    LET stale == sweep[v].todo
        resumed == sweep[v].cur
        after(j) == IF j \in resumed THEN "pending" ELSE "failed"
        of(p) == {j \in stale : Migrates(j) /\ JobProject[j] = p}
    IN  /\ sweep[v].phase = "reset"
        /\ job' = [j \in Jobs |->
              IF j \in stale THEN [job[j] EXCEPT !.status = after(j)] ELSE job[j]]
        /\ \E last \in [Projects -> Jobs] :
              /\ \A p \in Projects : of(p) # {} => last[p] \in of(p) /\ lock[p] = NoTask
              /\ project' = [p \in Projects |->
                    IF of(p) = {} THEN project[p]
                    ELSE [project[p] EXCEPT !.status = after(last[p])]]
        /\ \E s \in Slots :
              /\ Home[s] = v
              /\ task' = [t \in Tasks |->
                    IF t[2] = s /\ t[1] \in resumed THEN Fresh ELSE task[t]]
        /\ dispatched' = [dispatched EXCEPT ![v] = resumed]
        /\ overlap' = overlap \cup
              {j \in resumed : \E s \in Slots : Working(<<j, s>>)}
        /\ sweep' = [sweep EXCEPT ![v] = [NoSweep EXCEPT !.phase = "boot"]]
        /\ UNCHANGED <<resource, jira, lock, claim, server, spent>>

\* The start-up sweep is over: the monitor starts and requests are served.
Started(v) ==
    /\ server[v] = "starting"
    /\ sweep[v].phase = "idle"
    /\ server' = [server EXCEPT ![v] = "up"]
    /\ UNCHANGED <<db, jira, task, lock, dispatched, claim, sweep, overlap, spent>>

-----------------------------------------------------------------------------

Request ==
    \/ \E v \in Fronts : \/ \E j \in Jobs : Create(v, j)
                         \/ \E p \in Projects : Retry(v, p)
    \/ \E p \in Projects : ResetProject(p)
    \/ \E r \in Resources : SyncWithoutJob(r) \/ EditScope(r)

TaskStep(t) ==
    \/ Begin(t) \/ Resume(t) \/ Record(t) \/ Refresh(t)
    \/ Complete(t) \/ Recover(t) \/ Exit(t)
    \/ JiraFails(t) \/ ReplyLost(t)
    \/ \E u \in Units : Skip(t, u) \/ CallJira(t, u)
    \/ \E r \in Resources : Act(t, r)

SweepStep(v) == SweepRead(v) \/ SweepCheck(v) \/ \E j \in Jobs : SweepSpawn(v, j)

StartUp(v) == Restart(v) \/ ResetStale(v) \/ Started(v)

Fault ==
    \/ \E v \in Pods : Crash(v) \/ SweepFault(v)
    \/ \E t \in Tasks : RecoverFails(t)

Next ==
    \/ Request
    \/ \E v \in Pods : \/ \E j \in Jobs : Claim(v, j)
                       \/ SweepStep(v)
                       \/ StartUp(v)
    \/ \E t \in Tasks : TaskStep(t)
    \/ Fault

Spec == Init /\ [][Next]_vars

\* The event loop runs every task that can run, the monitor wakes up, and an
\* orchestrator restarts the process; users, and faults, owe nothing.
Fairness ==
    /\ \A v \in Pods : /\ \A j \in Jobs : WF_vars(Claim(v, j))
                       /\ WF_vars(SweepStep(v))
                       /\ WF_vars(StartUp(v))
    /\ \A t \in Tasks : WF_vars(TaskStep(t))

FairSpec == Spec /\ Fairness

-----------------------------------------------------------------------------
(* Properties.                                                              *)

\* Every issue key in a jira_jobs, projects or cloud_resources row names an
\* issue that Jira has made, or a key generated for want of a parent story.
Exists(j, u, n) == n = MockKey \/ n \in 1 .. made[j][u]

KeysExist ==
    /\ \A j \in Jobs, u \in Units :
          job[j].key[u] # NoKey => Exists(j, u, job[j].key[u])
    /\ \A p \in Projects :
          project[p].story # NoRef => Exists(project[p].story[1], project[p].story[2],
                                             project[p].story[3])
    /\ \A r \in Resources :
          resource[r].key # NoRef => Exists(resource[r].key[1], resource[r].key[2],
                                            resource[r].key[3])

\* No issue is forgotten: whatever crashes, failures and retries occur, an issue
\* made for a job that no two tasks worked on at once is the one the job row
\* records, or is about to be, unless the reply of Jira was lost.  So a retry
\* that follows a failure after a checkpoint makes nothing twice.
NoOrphanIssue ==
    \A j \in Jobs \ overlap, u \in Units : \A n \in 1 .. made[j][u] :
        \/ n = job[j].key[u]
        \/ n \in lost[j][u]
        \/ \E s \in Slots : /\ task[<<j, s>>].pc = "reply"
                            /\ task[<<j, s>>].unit = u
                            /\ task[<<j, s>>].n = n

\* A checkpoint, once committed, is never overwritten or dropped, by later
\* phases, retries, failures or restarts, while no two tasks share the job.
CheckpointsKept ==
    [][\A j \in Jobs \ overlap', u \in Units :
          job[j].key[u] # NoKey => job'[j].key[u] = job[j].key[u]]_vars

\* A job is only "completed" with its work recorded, even when two tasks raced:
\* a migration has its story, an operation its change request; and with no
\* such race a migration has a subtask for every resource the user selected.
CompletedIsWhole ==
    \A j \in Jobs : job[j].status = "completed" =>
        /\ Migrates(j) => job[j].key["story"] # NoKey
        /\ JobType[j] = "operation" => job[j].key["cr"] # NoKey
        /\ Migrates(j) /\ ~Grouped /\ j \notin overlap =>
              \A b \in job[j].sel : job[j].key[b] # NoKey

\* docs/shared/jira-integration.md:99: "after job completion, each in-scope
\* CloudResource gets a jiraSubtaskKey", for a job that took all of them.
CompletionCoversScope ==
    [][\A j \in Jobs \ overlap :
          /\ Migrates(j) /\ job[j].sel = {}
          /\ job[j].status # "completed" /\ job'[j].status = "completed"
          => \A r \in InScope(JobProject[j]) : resource'[r].key # NoRef]_vars

\* An operation job whose change request is a real issue is completed only when
\* every selected subtask is linked, through any number of failed attempts, if
\* the project was not reset between them.
OperationLinksAll ==
    \A j \in Jobs \ overlap :
        /\ job[j].status = "completed" /\ JobType[j] = "operation"
        /\ job[j].key["cr"] # MockKey
        /\ spent["reset"] = 0
        => job[j].sel \subseteq acted[j]

\* jira_job_status of a project mirrors the status of its migration job, and no
\* operation or sync-complete job disturbs it, as long as the project has one
\* such job and was not reset.
ProjectMirrorsJob ==
    \A j \in Jobs \ overlap :
        /\ Migrates(j) /\ job[j].status # "absent"
        /\ \A i \in Jobs \ {j} : Migrates(i) /\ JobProject[i] = JobProject[j]
                                => job[i].status = "absent"
        /\ spent["reset"] = 0
        => project[JobProject[j]].status = job[j].status

\* A job that says "processing" is being processed: no failure, retry or restart
\* strands it where neither the monitor nor retry_job would look at it again.
NoStrandedJob ==
    \A j \in Jobs \ overlap :
        /\ job[j].status = "processing"
        /\ \A v \in Pods : server[v] # "down" /\ sweep[v].phase # "reset"
        /\ spent["fault"] = 0
        => \E s \in Slots : task[<<j, s>>].pc \notin {"idle", "start", "exit"}

\* Every job that is requested, and every one that a crash interrupts, is
\* eventually completed or failed.
Settles ==
    \A j \in Jobs : job[j].status \in {"pending", "processing"}
                    ~> job[j].status \in {"completed", "failed"}

\* The queue keeps the promise of its checkpoints (IssueLedger).
Asked(j) == {task[<<j, s>>].unit : s \in {x \in Slots : task[<<j, x>>].pc = "reply"}}
Required(j) == CASE JobType[j] = "migration" -> {"story"}
                 [] JobType[j] = "operation" -> {"cr"}
                 [] OTHER -> {}

Recorded == [j \in Jobs |-> IF j \in overlap THEN {}
                           ELSE {u \in Units : job[j].key[u] # NoKey}]
Open     == [j \in Jobs |-> IF j \in overlap THEN {} ELSE Asked(j)]
Finished == {j \in Jobs \ overlap : job[j].status = "completed"}

Ledger == INSTANCE IssueLedger WITH
    Needs <- Required, recorded <- Recorded, open <- Open, finished <- Finished,
    void  <- overlap

KeepsLedger == Ledger!Spec

-----------------------------------------------------------------------------
(* What makes KeysExist, NoOrphanIssue and CheckpointsKept inductive.       *)

\* Nothing survives a process in its memory, and until a worker has reset the
\* stale jobs it runs no task.
Asleep ==
    \A v \in Pods :
        /\ sweep[v].phase = "reset" => server[v] = "starting"
        /\ server[v] = "down" => sweep[v].phase = "idle"
        /\ server[v] = "down" \/ sweep[v].phase = "reset" =>
              /\ claim[v] = {}
              /\ \A t \in Tasks : PodOf(t) = v => task[t].pc = "idle"

\* Nothing works on a job that nobody has requested.
Requested ==
    \A j \in Jobs : job[j].status = "absent" =>
        /\ job[j].key = NoKeys
        /\ \A v \in Pods : j \notin claim[v] \cup sweep[v].todo \cup sweep[v].cur
        /\ \A s \in Slots : task[<<j, s>>].pc = "idle"

\* The keys a task carries name issues, too; and a task that holds the lock of a
\* projects row, which its next commit writes, knows a story.
KeysHeld ==
    /\ \A t \in Tasks :
          /\ \A u \in Units : task[t].row.key[u] # NoKey
                               => Exists(t[1], u, task[t].row.key[u])
          /\ task[t].pc = "reply" => Exists(t[1], task[t].unit, task[t].n)
          /\ task[t].pc = "resume" => Migrates(t[1]) /\ task[t].row.key["story"] # NoKey
    /\ \A p \in Projects, t \in Tasks : lock[p] = t =>
          /\ p = Proj(t) /\ Migrates(t[1])
          /\ \/ task[t].pc = "error"
             \/ task[t].pc \in {"loop", "reply"} /\ task[t].row.key["story"] # NoKey

\* Of a job that no two tasks have shared: at most one task works on it, its
\* session's copy of the keys is the row's, and it only asks for what is missing.
SoleTask(j) ==
    /\ \A s, x \in Slots : Working(<<j, s>>) /\ Working(<<j, x>>) => s = x
    /\ \A s \in Slots :
          LET me == task[<<j, s>>] IN
          /\ me.pc \in {"resume", "story", "loop", "reply"} => me.row.key = job[j].key
          /\ me.pc = "story" => job[j].key["story"] = NoKey
          /\ me.pc = "reply" => job[j].key[me.unit] = NoKey

SoleTasks == \A j \in Jobs \ overlap : SoleTask(j)

\* From the commit of "processing" to the one that follows the handler.
Making(t) == task[t].pc \in {"resume", "story", "loop", "reply", "refresh"}
Underway(t) == Making(t) \/ task[t].pc = "error"

\* Of any task, those that share a job included: the story is on record before
\* anything else is asked for, the change request before the links; and what a
\* session has read of these two the row still has.
InOrder(t) ==
    LET me == task[t]  key == job[t[1]].key IN
    /\ me.row.key["story"] # NoKey => key["story"] # NoKey
    /\ Migrates(t[1]) =>
          /\ me.pc = "loop" => me.row.key["story"] # NoKey
          /\ me.pc = "reply" => me.unit = "story" \/ me.row.key["story"] # NoKey
          /\ me.pc = "refresh" => key["story"] # NoKey
    /\ Kind(t) = "operation" =>
          /\ me.pc # "story"
          /\ me.row.key["cr"] # NoKey => key["cr"] # NoKey
          /\ me.pc = "loop" => "cr" \in me.todo \/ me.row.key["cr"] # NoKey
          /\ me.pc = "reply" => me.unit = "cr"
          /\ me.pc = "refresh" => key["cr"] # NoKey

StoryFirst == \A t \in Tasks : InOrder(t)

\* Of a job that no two tasks have shared: it is not completed, nor read as
\* completed, while its task works; what is neither on record nor done is still
\* to do; and without a story nothing but a generated key is recorded.
OnTrack(t) ==
    LET j == t[1]  me == task[t] IN
    /\ Underway(t) => job[j].status \notin {"absent", "completed"}
    /\ Making(t) => me.row.status # "completed"
    /\ Making(t) /\ Migrates(j) /\ ~Grouped => \A b \in job[j].sel :
          b \in me.todo \/ job[j].key[b] # NoKey \/ (me.pc = "reply" /\ me.unit = b)
    /\ Making(t) /\ Kind(t) = "operation" /\ spent["reset"] = 0 =>
          IF me.hasStory THEN job[j].sel \subseteq me.todo \cup acted[j]
          ELSE /\ job[j].key["cr"] \in {NoKey, MockKey}
               /\ me.pc = "reply" => me.n = MockKey

Progress == \A t \in Tasks : t[1] \notin overlap => OnTrack(t)

\* A job that takes all resources in scope, while the scope is not edited: what
\* has no key yet is still to do.
OnScope(t) ==
    LET j == t[1]  me == task[t] IN
    Making(t) /\ Migrates(j) /\ job[j].sel = {} /\ spent["edit"] = 0 =>
        \A r \in InScope(JobProject[j]) :
            LET b == BucketOf[r]
            IN b \in me.todo \/ job[j].key[b] # NoKey \/ (me.pc = "reply" /\ me.unit = b)

ScopeInHand == \A t \in Tasks : t[1] \notin overlap => OnScope(t)

\* While no project is reset, a story that a task has found is still there, and a
\* real change request is one of a project that has a story.
StoryKnown ==
    spent["reset"] = 0 =>
        /\ \A t \in Tasks : Kind(t) = "operation" /\ task[t].hasStory
                             => project[Proj(t)].story # NoRef
        /\ \A j \in Jobs \ overlap :
              JobType[j] = "operation" /\ job[j].key["cr"] \notin {NoKey, MockKey}
              => project[JobProject[j]].story # NoRef

\* Where every process runs the start-up code: a job that says "processing" has
\* its task, or the next start-up will find it, or has.
Covered(j) ==
    job[j].status = "processing" /\ spent["fault"] = 0 =>
        \/ \E s \in Slots : Underway(<<j, s>>)
        \/ \E v \in Pods : \/ server[v] = "down"
                           \/ sweep[v].phase = "reset" /\ j \in sweep[v].todo
=============================================================================
