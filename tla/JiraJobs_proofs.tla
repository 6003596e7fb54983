--------------------------- MODULE JiraJobs_proofs ---------------------------
(* Theorems about the Jira job queue, for every set of jobs, projects,       *)
(* resources and slots and every bound.                                      *)
EXTENDS JiraJobs, TLAPS

-----------------------------------------------------------------------------
(* Typing of the parts.                                                      *)

\* The frames of a task that is not running, or is about to.
LEMMA IdleType ==
    /\ Idle \in Frame
    /\ Fresh \in Frame
    /\ NewRow \in Row
BY DEF Idle, Fresh, NewRow, NoKeys, Frame, Row, Phases, Status, Units, Keys, NoKey

\* The constants a task is made of.
LEMMA TaskParts ==
    ASSUME NEW t \in Tasks
    PROVE  /\ t[1] \in Jobs
           /\ t[2] \in Slots
           /\ t = <<t[1], t[2]>>
           /\ Proj(t) \in Projects
           /\ Kind(t) \in Types
           /\ t # NoTask
<1>1. t[1] \in Jobs /\ t[2] \in Slots /\ t = <<t[1], t[2]>>
  BY DEF Tasks
<1>2. t # NoTask
  BY DEF Tasks, NoTask
<1>3. QED
  BY <1>1, <1>2, ConstantsOK DEF Proj, Kind

\* A task that leaves its handler has an empty frame.
LEMMA LeaveType ==
    ASSUME TypeOK, NEW t \in Tasks, NEW pc \in Phases, Leave(t, pc)
    PROVE  task' \in [Tasks -> Frame]
<1>1. [Idle EXCEPT !.pc = pc] \in Frame
  BY IdleType DEF Frame, Idle
<1>2. QED
  BY <1>1 DEF Leave, TypeOK

\* A status or an issue key written to a job row.
LEMMA RowType ==
    ASSUME NEW row \in Row
    PROVE  /\ \A st \in Status : [row EXCEPT !.status = st] \in Row
           /\ \A u \in Units, n \in Keys :
                 /\ [row.key EXCEPT ![u] = n] \in [Units -> Keys]
                 /\ row.key[u] \in Keys
           /\ \A k \in [Units -> Keys] : [row EXCEPT !.key = k] \in Row
           /\ row.sel \subseteq Resources
           /\ row.key \in [Units -> Keys]
BY DEF Row

\* A status written to a projects row.
LEMMA ProjectType ==
    ASSUME TypeOK, NEW p \in Projects, NEW st \in PStatus
    PROVE  /\ SetProject(p, st) \in [Projects -> ProjectRow]
           /\ \A q \in Projects : SetProject(p, st)[q].story = project[q].story
<1> DEFINE new == [project[p] EXCEPT !.status = st]
<1>1. new \in ProjectRow /\ new.story = project[p].story
  BY DEF TypeOK, ProjectRow
<1>2. SetProject(p, st) = [project EXCEPT ![p] = new]
  BY DEF SetProject
<1> HIDE DEF new
<1>3. QED
  BY <1>1, <1>2 DEF TypeOK

\* A story key written to a projects row.
SetStory(p, ref) == [project EXCEPT ![p].story = ref]

\* What such a write leaves in the table.
LEMMA StoryType ==
    ASSUME TypeOK, NEW p \in Projects, NEW ref \in Refs
    PROVE  /\ SetStory(p, ref) \in [Projects -> ProjectRow]
           /\ \A q \in Projects : SetStory(p, ref)[q].story
                                      = IF q = p THEN ref ELSE project[q].story
<1> DEFINE new == [project[p] EXCEPT !.story = ref]
<1>1. new \in ProjectRow /\ new.story = ref
  BY DEF TypeOK, ProjectRow
<1>2. SetStory(p, ref) = [project EXCEPT ![p] = new]
  BY DEF SetStory
<1> HIDE DEF new
<1>3. QED
  BY <1>1, <1>2 DEF TypeOK

\* A frame of which one entry of todo is taken off.
LEMMA FrameType ==
    ASSUME TypeOK, NEW t \in Tasks, NEW u
    PROVE  /\ task[t] \in Frame
           /\ [task[t] EXCEPT !.todo = @ \ {u}] \in Frame
<1>1. task[t] \in Frame
  BY DEF TypeOK
<1>2. QED
  BY <1>1 DEF Frame

\* A bounded event is counted.
LEMMA OccursType ==
    ASSUME TypeOK, NEW e \in Events, Occurs(e)
    PROVE  spent' \in [Events -> Nat]
BY DEF TypeOK, Occurs

\* What a new task does to the memory of its pod.
LEMMA SpawnType ==
    ASSUME TypeOK, NEW v \in Pods, NEW j \in Jobs, Spawn(v, j)
    PROVE  /\ task' \in [Tasks -> Frame]
           /\ dispatched' \in [Pods -> SUBSET Jobs]
           /\ overlap' \subseteq Jobs
<1>1. PICK s \in Slots : task' = [task EXCEPT ![<<j, s>>] = Fresh]
  BY DEF Spawn
<1>2. task' \in [Tasks -> Frame]
  BY <1>1, IdleType DEF TypeOK
<1>3. dispatched' \in [Pods -> SUBSET Jobs]
  BY DEF TypeOK, Spawn
<1>4. QED
  BY <1>2, <1>3 DEF TypeOK, Spawn

\* One iteration of the loop of dispatch_pending_jobs.
LEMMA AdvanceType ==
    ASSUME TypeOK, NEW v \in Pods, Advance(v)
    PROVE  /\ sweep' \in [Pods -> Sweeps]
           /\ \A x \in Pods : x # v => sweep'[x] = sweep[x]
           /\ sweep'[v].phase \in {"idle", "log"}
           /\ sweep'[v].todo \subseteq sweep[v].todo
           /\ sweep'[v].cur \subseteq sweep[v].todo
<1> DEFINE Next1(new) == /\ sweep' = [sweep EXCEPT ![v] = new]
                         /\ new \in Sweeps /\ new.phase \in {"idle", "log"}
                         /\ new.todo \subseteq sweep[v].todo
                         /\ new.cur \subseteq sweep[v].todo
<1>1. sweep[v].todo \subseteq Jobs
  BY DEF TypeOK, Sweeps
<1>2. \E new : Next1(new)
  <2>1. CASE sweep' = [sweep EXCEPT ![v] = NoSweep]
    <3>1. Next1(NoSweep)
      BY <2>1 DEF NoSweep, Sweeps
    <3>2. QED
      BY <3>1
  <2>2. ASSUME NEW j \in sweep[v].todo, NEW skipped \in SUBSET sweep[v].todo,
               sweep' = [sweep EXCEPT ![v] =
                  [phase |-> "log", todo |-> sweep[v].todo \ (skipped \cup {j}), cur |-> {j}]]
        PROVE  \E new : Next1(new)
    <3> DEFINE it == [phase |-> "log", todo |-> sweep[v].todo \ (skipped \cup {j}), cur |-> {j}]
    <3>1. Next1(it)
      BY <1>1, <2>2 DEF Sweeps
    <3>2. QED
      BY <3>1
  <2>3. QED
    BY <2>1, <2>2 DEF Advance
<1>3. PICK new : Next1(new)
  BY <1>2
<1>4. QED
  BY <1>3 DEF TypeOK

\* What a handler plans to do.
LEMMA TodoType ==
    ASSUME TypeOK, NEW j \in Jobs, NEW b \in BOOLEAN
    PROVE  Todo(j, b) \subseteq Units \cup Resources
<1>1. job[j].sel \subseteq Resources
  BY DEF TypeOK, Row
<1>2. {BucketOf[r] : r \in InScope(JobProject[j])} \subseteq Units
  BY ConstantsOK DEF InScope, Units
<1>3. "cr" \in Units
  BY DEF Units
<1>4. QED
  BY <1>1, <1>2, <1>3 DEF Todo, Plan

\* What Begin does to the job row and to the frame of its task.
LEMMA BeginParts ==
    ASSUME TypeOK, NEW t \in Tasks, Begin(t)
    PROVE  /\ task' \in [Tasks -> Frame]
           /\ job' \in [Jobs -> Row]
           /\ \A x \in Tasks : x # t => task'[x] = task[x]
           /\ \A i \in Jobs : job'[i].key = job[i].key
           /\ task'[t].row.key = job[t[1]].key
           /\ task'[t].pc \in {"loop", "story", "resume"}
           /\ task'[t].pc = "story" => job[t[1]].key["story"] = NoKey
           /\ task'[t].pc = "resume" => Migrates(t[1]) /\ job[t[1]].key["story"] # NoKey
<1> DEFINE row == [job[t[1]] EXCEPT !.status = "processing"]
           has == project[Proj(t)].story # NoRef
           pc  == IF ~Migrates(t[1]) THEN "loop"
                    ELSE IF row.key["story"] = NoKey THEN "story" ELSE "resume"
           new == [task[t] EXCEPT !.pc = pc, !.row = row, !.hasStory = has,
                                  !.todo = Todo(t[1], has)]
<1>1. job[t[1]] \in Row /\ task[t] \in Frame
  BY TaskParts DEF TypeOK
<1>2. row \in Row /\ row.key = job[t[1]].key
  BY <1>1 DEF Row, Status
<1>3. Todo(t[1], has) \subseteq Units \cup Resources
  BY TaskParts, TodoType
<1>4. task' = [task EXCEPT ![t] = new] /\ job' = [job EXCEPT ![t[1]] = row]
  BY Begin(t) DEF Begin
<1>5. /\ pc \in {"loop", "story", "resume"}
      /\ pc = "story" => row.key["story"] = NoKey
      /\ pc = "resume" => Migrates(t[1]) /\ row.key["story"] # NoKey
  OBVIOUS
<1>6. has \in BOOLEAN
  OBVIOUS
<1> HIDE DEF row, has, pc
<1>7. new \in Frame /\ new.row = row /\ new.pc = pc
  BY <1>1, <1>2, <1>3, <1>5, <1>6 DEF Frame, Phases
<1> HIDE DEF new
<1>8. task' \in [Tasks -> Frame] /\ task'[t] = new
  BY <1>4, <1>7 DEF TypeOK
<1>9. job' \in [Jobs -> Row] /\ \A i \in Jobs : job'[i].key = job[i].key
  BY <1>2, <1>4 DEF TypeOK
<1>10. \A x \in Tasks : x # t => task'[x] = task[x]
  BY <1>4 DEF TypeOK
<1>11. QED
  BY <1>2, <1>5, <1>7, <1>8, <1>9, <1>10

-----------------------------------------------------------------------------
(* Type correctness.                                                         *)

\* The initial tables are empty.
LEMMA InitType == Init => TypeOK
<1> SUFFICES ASSUME Init PROVE TypeOK
  OBVIOUS
<1>1. task \in [Tasks -> Frame] /\ job \in [Jobs -> Row]
  BY IdleType DEF Init
<1>2. project \in [Projects -> ProjectRow]
  BY DEF Init, PStatus, Refs, ProjectRow
<1>3. resource \in [Resources -> ResourceRow]
  <2>1. \A b \in BOOLEAN :
            [inScope |-> b, key |-> NoRef, migrated |-> FALSE] \in ResourceRow
    BY DEF Refs, ResourceRow
  <2>2. \A r \in Resources : \E b \in BOOLEAN :
            resource[r] = [inScope |-> b, key |-> NoRef, migrated |-> FALSE]
    BY DEF Init
  <2>3. resource = [r \in Resources |-> resource[r]]
    BY DEF Init
  <2>4. QED
    BY <2>1, <2>2, <2>3
<1>4. made \in [Jobs -> [Units -> Nat]] /\ lost \in [Jobs -> [Units -> SUBSET Nat]]
  BY DEF Init
<1>5. /\ acted \in [Jobs -> SUBSET Resources]
      /\ lock \in [Projects -> Tasks \cup {NoTask}]
      /\ dispatched \in [Pods -> SUBSET Jobs] /\ claim \in [Pods -> SUBSET Jobs]
      /\ overlap \subseteq Jobs
      /\ sweep \in [Pods -> Sweeps]
      /\ server \in [Pods -> Servers]
      /\ spent \in [Events -> Nat]
  BY DEF Init, Sweeps, NoSweep, Servers
<1>6. QED
  BY <1>1, <1>2, <1>3, <1>4, <1>5 DEF TypeOK

\* Each action keeps the types; one step per action.
LEMMA TypeStep == TypeOK /\ [Next]_vars => TypeOK'
<1> SUFFICES ASSUME TypeOK, [Next]_vars PROVE TypeOK'
  OBVIOUS
<1> USE DEF mem, jira, db
<1>1. ASSUME NEW v \in Pods, NEW j \in Jobs, Create(v, j) PROVE TypeOK'
  <2>1. PICK sel \in Selections(j) :
            job' = [job EXCEPT ![j] = [NewRow EXCEPT !.status = "pending", !.sel = sel]]
    BY <1>1 DEF Create
  <2>2. sel \subseteq Resources
    BY ConstantsOK DEF Selections, Types
  <2>3. [NewRow EXCEPT !.status = "pending", !.sel = sel] \in Row
    BY <2>2, IdleType DEF Row, NewRow, Status
  <2>4. job' \in [Jobs -> Row]
    BY <2>1, <2>3 DEF TypeOK
  <2>5. project' \in [Projects -> ProjectRow]
    <3>1. JobProject[j] \in Projects /\ "pending" \in PStatus
      BY ConstantsOK DEF PStatus
    <3>2. SetProject(JobProject[j], "pending") \in [Projects -> ProjectRow]
      BY <3>1, ProjectType
    <3>3. QED
      BY <1>1, <3>2 DEF Create, TypeOK
  <2>6. claim' \in [Pods -> SUBSET Jobs]
    BY <1>1 DEF Create, TypeOK
  <2>7. QED
    BY <1>1, <2>4, <2>5, <2>6 DEF Create, TypeOK
<1>2. ASSUME NEW v \in Pods, NEW p \in Projects, Retry(v, p) PROVE TypeOK'
  <2>1. job' \in [Jobs -> Row]
    <3>1. PICK j \in Retryable(p) : job' = [job EXCEPT ![j].status = "pending"]
      BY <1>2 DEF Retry
    <3>2. j \in Jobs /\ job[j] \in Row
      BY DEF Retryable, TypeOK
    <3>3. [job[j] EXCEPT !.status = "pending"] \in Row
      BY <3>2, RowType DEF Status
    <3>4. QED
      BY <3>1, <3>2, <3>3 DEF TypeOK
  <2>2. project' \in [Projects -> ProjectRow]
    BY <1>2, ProjectType DEF Retry, TypeOK, PStatus
  <2>3. claim' \in [Pods -> SUBSET Jobs]
    BY <1>2 DEF Retry, TypeOK, Retryable
  <2>4. spent' \in [Events -> Nat]
    BY <1>2, OccursType DEF Retry, Events
  <2>5. QED
    BY <1>2, <2>1, <2>2, <2>3, <2>4 DEF Retry, TypeOK
<1>3. ASSUME NEW p \in Projects, ResetProject(p) PROVE TypeOK'
  <2>1. project' \in [Projects -> ProjectRow]
    BY <1>3 DEF ResetProject, TypeOK, PStatus, ProjectRow, Refs
  <2>2. QED
    BY <1>3, <2>1, OccursType DEF ResetProject, TypeOK, Events
<1>4. ASSUME NEW r \in Resources, SyncWithoutJob(r) PROVE TypeOK'
  BY <1>4 DEF SyncWithoutJob, TypeOK, ResourceRow
<1>5. ASSUME NEW r \in Resources, EditScope(r) PROVE TypeOK'
  <2>1. resource' \in [Resources -> ResourceRow]
    BY <1>5 DEF EditScope, TypeOK, ResourceRow
  <2>2. QED
    BY <1>5, <2>1, OccursType DEF EditScope, TypeOK, Events
<1>6. ASSUME NEW v \in Pods, NEW j \in Jobs, Claim(v, j) PROVE TypeOK'
  <2>1. claim' \in [Pods -> SUBSET Jobs]
    BY <1>6 DEF Claim, TypeOK
  <2>2. QED
    BY <1>6, <2>1, SpawnType DEF Claim, TypeOK
<1>7. ASSUME NEW t \in Tasks, Begin(t) PROVE TypeOK'
  <2>1. task' \in [Tasks -> Frame] /\ job' \in [Jobs -> Row]
    BY <1>7, BeginParts
  <2>2. project' \in [Projects -> ProjectRow]
    BY <1>7, TaskParts, ProjectType DEF Begin, TypeOK, PStatus
  <2>3. QED
    BY <1>7, <2>1, <2>2 DEF Begin, TypeOK
<1>8. ASSUME NEW t \in Tasks, Resume(t) PROVE TypeOK'
  <2>1. lock' \in [Projects -> Tasks \cup {NoTask}]
    BY <1>8, TaskParts DEF Resume, TypeOK
  <2>2. [task[t] EXCEPT !.pc = "loop", !.hasStory = TRUE] \in Frame
    BY FrameType DEF Frame, Phases
  <2>3. task' \in [Tasks -> Frame]
    BY <1>8, <2>2 DEF Resume, TypeOK
  <2>4. QED
    BY <1>8, <2>1, <2>3 DEF Resume, TypeOK
<1>9. ASSUME NEW t \in Tasks, Record(t) PROVE TypeOK'
  <2> DEFINE u == task[t].unit
             story == IF u = "story" THEN task[t].n ELSE task[t].row.key["story"]
  <2>1. /\ u \in Units /\ "story" \in Units
        /\ task[t].n \in Keys /\ task[t].row \in Row /\ job[t[1]] \in Row
        /\ task[t].todo \subseteq Units \cup Resources
        /\ task[t].hasStory \in BOOLEAN
    BY TaskParts DEF TypeOK, Frame, Units
  <2>2. story \in Keys
    BY <2>1, RowType
  <2>3. job' \in [Jobs -> Row]
    <3>1. [task[t].row.key EXCEPT !["story"] = job[t[1]].key["story"], ![u] = task[t].n]
             \in [Units -> Keys]
      BY <2>1 DEF Row
    <3>2. [job[t[1]].key EXCEPT !["story"] = task[t].n] \in [Units -> Keys]
      BY <2>1 DEF Row
    <3>3. \E k \in [Units -> Keys] : job' = [job EXCEPT ![t[1]].key = k]
      <4>1. CASE u = "story"
        BY <1>9, <3>2, <4>1, TaskParts DEF Record, TypeOK
      <4>2. CASE u # "story"
        BY <1>9, <3>1, <4>2, TaskParts DEF Record, TypeOK
      <4>3. QED
        BY <4>1, <4>2
    <3>4. PICK k \in [Units -> Keys] : job' = [job EXCEPT ![t[1]].key = k]
      BY <3>3
    <3>5. [job[t[1]] EXCEPT !.key = k] \in Row
      BY <2>1, RowType
    <3>6. QED
      BY <3>4, <3>5, TaskParts DEF TypeOK
  <2>4. project' \in [Projects -> ProjectRow]
    <3>1. <<t[1], "story", story>> \in Refs
      BY <2>1, <2>2, TaskParts DEF Refs
    <3>2. \/ project' = project
          \/ project' = SetStory(Proj(t), <<t[1], "story", story>>)
      BY <1>9 DEF Record, SetStory
    <3> HIDE DEF story
    <3>3. QED
      BY <3>1, <3>2, TaskParts, StoryType DEF TypeOK
  <2>5. lock' \in [Projects -> Tasks \cup {NoTask}]
    BY <1>9, TaskParts DEF Record, TypeOK
  <2>6. task' \in [Tasks -> Frame]
    <3> DEFINE new == [Idle EXCEPT !.pc = "refresh", !.todo = task[t].todo,
                                   !.hasStory = task[t].hasStory \/ u = "story"]
    <3>1. (task[t].hasStory \/ u = "story") \in BOOLEAN
      OBVIOUS
    <3>2. new \in Frame
      BY <2>1, <3>1, IdleType DEF Frame, Phases, Idle
    <3>3. task' = [task EXCEPT ![t] = new]
      BY <1>9 DEF Record
    <3> HIDE DEF new
    <3>4. QED
      BY <3>2, <3>3 DEF TypeOK
  <2>7. QED
    BY <1>9, <2>3, <2>4, <2>5, <2>6 DEF Record, TypeOK
<1>10. ASSUME NEW t \in Tasks, Refresh(t) PROVE TypeOK'
  <2>1. job[t[1]] \in Row /\ task[t] \in Frame
    BY TaskParts DEF TypeOK
  <2>2. [task[t] EXCEPT !.pc = "loop", !.row = job[t[1]]] \in Frame
    BY <2>1 DEF Frame, Phases
  <2>3. task' \in [Tasks -> Frame]
    BY <1>10, <2>2 DEF Refresh, TypeOK
  <2>4. QED
    BY <1>10, <2>3 DEF Refresh, TypeOK
<1>11. ASSUME NEW t \in Tasks, Complete(t) PROVE TypeOK'
  <2> DEFINE story == IF lock[Proj(t)] = t THEN <<t[1], "story", task[t].row.key["story"]>>
                      ELSE project[Proj(t)].story
  <2>1. task' \in [Tasks -> Frame]
    BY <1>11, LeaveType DEF Complete, Phases
  <2>2. job' \in [Jobs -> Row]
    BY <1>11, TaskParts, RowType DEF Complete, TypeOK, Status
  <2>3. story \in Refs
    BY TaskParts DEF TypeOK, Frame, Row, Refs, Units, ProjectRow
  <2>4. project' \in [Projects -> ProjectRow]
    <3>1. \/ project' = project
          \/ project' = [project EXCEPT ![Proj(t)] = [status |-> "completed", story |-> story]]
      BY <1>11 DEF Complete
    <3> HIDE DEF story
    <3>2. [status |-> "completed", story |-> story] \in ProjectRow
      BY <2>3 DEF ProjectRow, PStatus
    <3>3. QED
      BY <3>1, <3>2 DEF TypeOK
  <2>5. resource' \in [Resources -> ResourceRow]
    <3>1. \A r \in Resources : /\ resource[r] \in ResourceRow
                               /\ WriteBack(t, r) \in Refs
      BY ConstantsOK, TaskParts DEF TypeOK, WriteBack, Refs, Frame, Row, Units, ResourceRow
    <3>2. \A r \in Resources :
             /\ [resource[r] EXCEPT !.key = WriteBack(t, r)] \in ResourceRow
             /\ [resource[r] EXCEPT !.migrated = TRUE] \in ResourceRow
      BY <3>1 DEF ResourceRow
    <3>3. CASE Kind(t) = "migration"
      BY <1>11, <3>1, <3>2, <3>3 DEF Complete
    <3>4. CASE Kind(t) = "operation"
      BY <1>11, <3>4 DEF Complete, TypeOK
    <3>5. CASE Kind(t) = "sync-complete"
      BY <1>11, <3>1, <3>2, <3>5 DEF Complete
    <3>6. QED
      BY <1>11, <3>3, <3>4, <3>5 DEF Complete
  <2>6. lock' \in [Projects -> Tasks \cup {NoTask}]
    BY <1>11 DEF Complete, TypeOK
  <2>7. QED
    BY <1>11, <2>1, <2>2, <2>4, <2>5, <2>6 DEF Complete, TypeOK
<1>12. ASSUME NEW t \in Tasks, Recover(t) PROVE TypeOK'
  <2>1. task' \in [Tasks -> Frame]
    BY <1>12, LeaveType DEF Recover, Phases
  <2>2. job' \in [Jobs -> Row]
    BY <1>12, TaskParts, RowType DEF Recover, TypeOK, Status
  <2>3. project' \in [Projects -> ProjectRow]
    BY <1>12, TaskParts, ProjectType DEF Recover, TypeOK, PStatus
  <2>4. QED
    BY <1>12, <2>1, <2>2, <2>3 DEF Recover, TypeOK
<1>13. ASSUME NEW t \in Tasks, Exit(t) PROVE TypeOK'
  <2>1. task' \in [Tasks -> Frame]
    BY <1>13, IdleType DEF Exit, TypeOK
  <2>2. QED
    BY <1>13, <2>1 DEF Exit, TypeOK
<1>14. ASSUME NEW t \in Tasks, JiraFails(t) PROVE TypeOK'
  <2>1. task' \in [Tasks -> Frame]
    BY <1>14, LeaveType DEF JiraFails, Phases
  <2>2. QED
    BY <1>14, <2>1 DEF JiraFails, TypeOK
<1>15. ASSUME NEW t \in Tasks, ReplyLost(t) PROVE TypeOK'
  <2>1. task' \in [Tasks -> Frame]
    BY <1>15, LeaveType DEF ReplyLost, Phases
  <2>2. task[t].n \in Nat /\ task[t].unit \in Units
    BY <1>15 DEF ReplyLost, TypeOK, Frame, Keys
  <2>3. lost' \in [Jobs -> [Units -> SUBSET Nat]]
    BY <1>15, <2>2, TaskParts DEF ReplyLost, TypeOK
  <2>4. spent' \in [Events -> Nat]
    BY <1>15, OccursType DEF ReplyLost, Events
  <2>5. QED
    BY <1>15, <2>1, <2>3, <2>4 DEF ReplyLost, TypeOK
<1>16. ASSUME NEW t \in Tasks, NEW u \in Units, Skip(t, u) PROVE TypeOK'
  <2>1. task' \in [Tasks -> Frame]
    BY <1>16, FrameType DEF Skip, TypeOK
  <2>2. QED
    BY <1>16, <2>1 DEF Skip, TypeOK
<1>17. ASSUME NEW t \in Tasks, NEW u \in Units, CallJira(t, u) PROVE TypeOK'
  <2> DEFINE n == NewKey(t, u)
             new == [task[t] EXCEPT !.pc = "reply", !.unit = u, !.n = n, !.todo = @ \ {u}]
  <2>1. n \in Keys /\ (~Mock(t) => n \in Nat)
    BY TaskParts DEF TypeOK, Keys, NewKey
  <2>2. task' = [task EXCEPT ![t] = new]
    BY <1>17 DEF CallJira
  <2>3. made' = made \/ (~Mock(t) /\ made' = [made EXCEPT ![t[1]][u] = n])
    BY <1>17 DEF CallJira
  <2> HIDE DEF n
  <2>4. new \in Frame
    <3>1. task[t] \in Frame
      BY FrameType
    <3>2. QED
      BY <2>1, <3>1 DEF Frame, Phases
  <2> HIDE DEF new
  <2>5. task' \in [Tasks -> Frame]
    BY <2>2, <2>4 DEF TypeOK
  <2>6. made' \in [Jobs -> [Units -> Nat]]
    <3>1. made[t[1]] \in [Units -> Nat]
      BY TaskParts DEF TypeOK
    <3>2. ~Mock(t) => [made[t[1]] EXCEPT ![u] = n] \in [Units -> Nat]
      BY <2>1, <3>1
    <3>3. QED
      BY <2>3, <3>2 DEF TypeOK
  <2>7. QED
    BY <1>17, <2>5, <2>6 DEF CallJira, TypeOK
<1>18. ASSUME NEW t \in Tasks, NEW r \in Resources, Act(t, r) PROVE TypeOK'
  <2>1. task' \in [Tasks -> Frame]
    <3>1. CASE Leave(t, "error")
      BY <3>1, LeaveType DEF Phases
    <3>2. CASE task' = [task EXCEPT ![t].todo = @ \ {r}]
      BY <3>2, FrameType DEF TypeOK
    <3>3. QED
      BY <1>18, <3>1, <3>2 DEF Act
  <2>2. acted' \in [Jobs -> SUBSET Resources]
    <3>1. acted[t[1]] \cup {r} \subseteq Resources
      BY TaskParts DEF TypeOK
    <3>2. QED
      BY <1>18, <3>1 DEF Act, TypeOK
  <2>3. QED
    BY <1>18, <2>1, <2>2 DEF Act, TypeOK
<1>19. ASSUME NEW v \in Pods, SweepRead(v) PROVE TypeOK'
  <2>1. [phase |-> "read", todo |-> Pending, cur |-> {}] \in Sweeps
    BY DEF Sweeps, Pending
  <2>2. QED
    BY <1>19, <2>1 DEF SweepRead, TypeOK
<1>20. ASSUME NEW v \in Pods, SweepCheck(v) PROVE TypeOK'
  BY <1>20, AdvanceType DEF SweepCheck, TypeOK
<1>21. ASSUME NEW v \in Pods, NEW j \in Jobs, SweepSpawn(v, j) PROVE TypeOK'
  BY <1>21, AdvanceType, SpawnType DEF SweepSpawn, TypeOK
<1>22. ASSUME NEW v \in Pods, SweepFault(v) PROVE TypeOK'
  <2>1. [NoSweep EXCEPT !.phase = "dead"] \in Sweeps
    BY DEF NoSweep, Sweeps
  <2>2. sweep' \in [Pods -> Sweeps]
    BY <1>22, <2>1 DEF SweepFault, TypeOK
  <2>3. QED
    BY <1>22, <2>2, OccursType DEF SweepFault, TypeOK, Events
<1>23. ASSUME NEW v \in Pods, Crash(v) PROVE TypeOK'
  <2> DEFINE Lost(j, u) == lost[j][u] \cup
                      {task[<<j, s>>].n : s \in {x \in Slots :
                          /\ Home[x] = v
                          /\ task[<<j, x>>].pc = "reply"
                          /\ task[<<j, x>>].unit = u
                          /\ task[<<j, x>>].n # MockKey}}
  <2>1. \A j \in Jobs, u \in Units : Lost(j, u) \in SUBSET Nat
    <3> SUFFICES ASSUME NEW j \in Jobs, NEW u \in Units PROVE Lost(j, u) \subseteq Nat
      OBVIOUS
    <3>1. \A s \in Slots : task[<<j, s>>].n \in Keys
      BY DEF TypeOK, Frame, Tasks
    <3>2. lost[j][u] \subseteq Nat
      BY DEF TypeOK
    <3>3. QED
      BY <3>1, <3>2 DEF Keys
  <2>2. lost' = [j \in Jobs |-> [u \in Units |-> Lost(j, u)]]
    BY <1>23 DEF Crash
  <2> HIDE DEF Lost
  <2>3. lost' \in [Jobs -> [Units -> SUBSET Nat]]
    BY <2>1, <2>2
  <2>4. task' \in [Tasks -> Frame]
    BY <1>23, IdleType DEF Crash, TypeOK
  <2>5. lock' \in [Projects -> Tasks \cup {NoTask}]
    BY <1>23 DEF Crash, TypeOK
  <2>6. spent' \in [Events -> Nat]
    BY <1>23, OccursType DEF Crash, Events
  <2>7. sweep' \in [Pods -> Sweeps]
    BY <1>23 DEF Crash, NoSweep, Sweeps, TypeOK
  <2>8. /\ dispatched' \in [Pods -> SUBSET Jobs] /\ claim' \in [Pods -> SUBSET Jobs]
        /\ server' \in [Pods -> Servers]
    BY <1>23 DEF Crash, TypeOK, Servers
  <2>9. QED
    BY <1>23, <2>3, <2>4, <2>5, <2>6, <2>7, <2>8 DEF Crash, TypeOK
<1>24. ASSUME NEW t \in Tasks, RecoverFails(t) PROVE TypeOK'
  <2>1. task' \in [Tasks -> Frame]
    BY <1>24, LeaveType DEF RecoverFails, Phases
  <2>2. lock' \in [Projects -> Tasks \cup {NoTask}]
    BY <1>24 DEF RecoverFails, TypeOK
  <2>3. QED
    BY <1>24, <2>1, <2>2, OccursType DEF RecoverFails, TypeOK, Events
<1>25. ASSUME NEW v \in Pods, Restart(v) PROVE TypeOK'
  <2>1. [phase |-> "reset", todo |-> Stale, cur |-> {j \in Stale : Resumed(j)}] \in Sweeps
    BY DEF Sweeps, Stale
  <2>2. sweep' \in [Pods -> Sweeps] /\ server' \in [Pods -> Servers]
    BY <1>25, <2>1 DEF Restart, TypeOK, Servers
  <2>3. QED
    BY <1>25, <2>2 DEF Restart, TypeOK
<1>26. ASSUME NEW v \in Pods, ResetStale(v) PROVE TypeOK'
  <2> DEFINE after(j) == IF j \in sweep[v].cur THEN "pending" ELSE "failed"
  <2>1. \A j : after(j) \in Status \cap PStatus
    BY DEF Status, PStatus
  <2>2. job' \in [Jobs -> Row]
    <3>1. \A j \in Jobs : job[j] \in Row /\ [job[j] EXCEPT !.status = after(j)] \in Row
      BY <2>1, RowType DEF TypeOK
    <3>2. QED
      BY <1>26, <3>1 DEF ResetStale
  <2>3. project' \in [Projects -> ProjectRow]
    <3>1. PICK last \in [Projects -> Jobs] :
             project' = [p \in Projects |->
                IF {j \in sweep[v].todo : Migrates(j) /\ JobProject[j] = p} = {} THEN project[p]
                ELSE [project[p] EXCEPT !.status = after(last[p])]]
      BY <1>26 DEF ResetStale
    <3>2. \A p \in Projects : project[p] \in ProjectRow
      BY DEF TypeOK
    <3>3. \A p \in Projects : [project[p] EXCEPT !.status = after(last[p])] \in ProjectRow
      BY <2>1, <3>2 DEF ProjectRow
    <3> HIDE DEF after
    <3>4. QED
      BY <3>1, <3>2, <3>3
  <2>4. task' \in [Tasks -> Frame]
    BY <1>26, IdleType DEF ResetStale, TypeOK
  <2>5. sweep[v].cur \subseteq Jobs
    BY DEF TypeOK, Sweeps
  <2>6. dispatched' \in [Pods -> SUBSET Jobs] /\ overlap' \subseteq Jobs
    BY <1>26, <2>5 DEF ResetStale, TypeOK
  <2>7. sweep' \in [Pods -> Sweeps]
    BY <1>26 DEF ResetStale, NoSweep, Sweeps, TypeOK
  <2>8. QED
    BY <1>26, <2>2, <2>3, <2>4, <2>6, <2>7 DEF ResetStale, TypeOK
<1>27. ASSUME NEW v \in Pods, Started(v) PROVE TypeOK'
  BY <1>27 DEF Started, TypeOK, Servers
<1>28. CASE UNCHANGED vars
  BY <1>28 DEF vars, TypeOK
<1>29. QED
  BY ConstantsOK, <1>1, <1>2, <1>3, <1>4, <1>5, <1>6, <1>7, <1>8, <1>9, <1>10, <1>11, <1>12,
     <1>13, <1>14, <1>15, <1>16, <1>17, <1>18, <1>19, <1>20, <1>21, <1>22, <1>23,
     <1>24, <1>25, <1>26, <1>27, <1>28
  DEF Next, Request, TaskStep, SweepStep, StartUp, Fault

\* Every reachable state is well typed: the rows, coroutines, locks and
\* in-memory sets of jira_service.py hold what their declarations say.
THEOREM TypeCorrect == Spec => []TypeOK
<1>1. QED
  BY InitType, TypeStep, PTL DEF Spec

-----------------------------------------------------------------------------
(* Every key that is stored names an issue.                                  *)

\* What t carries, and the locks, as KeysHeld has them.
Carries(t) ==
    /\ \A u \in Units : task[t].row.key[u] # NoKey => Exists(t[1], u, task[t].row.key[u])
    /\ task[t].pc = "reply" => Exists(t[1], task[t].unit, task[t].n)
    /\ task[t].pc = "resume" => Migrates(t[1]) /\ task[t].row.key["story"] # NoKey
MayLock(p, t) ==
    /\ p = Proj(t) /\ Migrates(t[1])
    /\ \/ task[t].pc = "error"
       \/ task[t].pc \in {"loop", "reply"} /\ task[t].row.key["story"] # NoKey

\* The empty frame carries nothing.
Empty(f) == f.row.key = NoKeys /\ f.pc \notin {"reply", "resume"}

\* So are the frames of a task that is idle, starts or leaves its handler.
LEMMA EmptyFrames ==
    /\ Empty(Idle) /\ Empty(Fresh)
    /\ \A pc \in Phases \ {"reply", "resume"} : Empty([Idle EXCEPT !.pc = pc])
BY DEF Empty, Idle, Fresh, NewRow, NoKeys

\* A step that makes no issue disappear and writes no new key keeps every key
\* in the tables.
LEMMA TablesKept ==
    ASSUME TypeOK, TypeOK', KeysExist,
           \A j \in Jobs, u \in Units : made[j][u] <= made'[j][u],
           \A j \in Jobs, u \in Units :
              job'[j].key[u] \in {job[j].key[u], NoKey} \/ Exists(j, u, job[j].key[u])',
           \A p \in Projects :
              \/ project'[p].story \in {project[p].story, NoRef}
              \/ Exists(project[p].story[1], project[p].story[2], project[p].story[3])',
           \A r \in Resources :
              \/ resource'[r].key \in {resource[r].key, NoRef}
              \/ Exists(resource[r].key[1], resource[r].key[2], resource[r].key[3])'
    PROVE  KeysExist'
<1> USE DEF Exists, KeysExist
<1>1. \A j \in Jobs, u \in Units : made[j][u] \in Nat /\ made'[j][u] \in Nat
  BY DEF TypeOK
<1>2. \A j \in Jobs, u \in Units, n \in Keys :
         Exists(j, u, n) => n = MockKey \/ n \in 1 .. made'[j][u]
  BY <1>1
<1>3. ASSUME NEW x \in Refs, x # NoRef, Exists(x[1], x[2], x[3])
      PROVE  x[3] = MockKey \/ x[3] \in 1 .. made'[x[1]][x[2]]
  BY <1>2, <1>3 DEF Refs
<1>4. \A j \in Jobs, u \in Units :
         job'[j].key[u] # NoKey => Exists(j, u, job[j].key[u])'
  BY <1>2 DEF TypeOK, Row
<1>5. \A p \in Projects : project'[p].story # NoRef =>
         Exists(project[p].story[1], project[p].story[2], project[p].story[3])'
  BY <1>3 DEF TypeOK, ProjectRow
<1>6. \A r \in Resources : resource'[r].key # NoRef =>
         Exists(resource[r].key[1], resource[r].key[2], resource[r].key[3])'
  BY <1>3 DEF TypeOK, ResourceRow
<1>7. QED
  BY <1>4, <1>5, <1>6

\* Likewise for the tasks: each keeps its frame or has an empty one.
LEMMA TasksKept ==
    ASSUME TypeOK, TypeOK', KeysHeld,
           \A j \in Jobs, u \in Units : made[j][u] <= made'[j][u],
           \A t \in Tasks : task'[t] = task[t] \/ Empty(task'[t]) \/ Carries(t)',
           \A p \in Projects, t \in Tasks : lock'[p] = t =>
              (lock[p] = t /\ task'[t] = task[t]) \/ MayLock(p, t)'
    PROVE  KeysHeld'
<1>1. \A j \in Jobs, u \in Units : made[j][u] \in Nat /\ made'[j][u] \in Nat
  BY DEF TypeOK
<1>2. ASSUME NEW t \in Tasks PROVE Carries(t)'
  <2>1. CASE task'[t] = task[t]
    <3>1. t[1] \in Jobs /\ task[t].unit \in Units /\ task[t].n \in Keys
      BY TaskParts DEF TypeOK, Frame
    <3>2. \A u \in Units : task[t].row.key[u] \in Keys
      BY DEF TypeOK, Frame, Row
    <3>3. Carries(t)
      BY DEF KeysHeld, Carries
    <3>4. QED
      BY <1>1, <2>1, <3>1, <3>2, <3>3 DEF Carries, Exists
  <2>2. CASE Empty(task'[t])
    BY <2>2 DEF Empty, Carries, NoKeys
  <2>3. QED
    BY <2>1, <2>2
<1>3. ASSUME NEW p \in Projects, NEW t \in Tasks, lock'[p] = t PROVE MayLock(p, t)'
  BY <1>3 DEF KeysHeld, MayLock
<1>4. QED
  BY <1>2, <1>3 DEF KeysHeld, Carries, MayLock

\* What a step of task t leaves alone.
LEMMA StepOfTask ==
    ASSUME TypeOK, NEW t \in Tasks, TaskStep(t) \/ RecoverFails(t)
    PROVE  /\ task[t].pc # "idle"
           /\ \A x \in Tasks : x # t => task'[x] = task[x]
           /\ \A j \in Jobs : j # t[1] => /\ job'[j] = job[j]
                                          /\ made'[j] = made[j]
                                          /\ lost'[j] = lost[j]
           /\ UNCHANGED <<claim, sweep, overlap, server>>
<1> USE DEF mem, jira, db, Leave, TypeOK
<1>1. CASE Begin(t)
  BY <1>1 DEF Begin
<1>2. CASE Resume(t)
  BY <1>2 DEF Resume
<1>3. CASE Record(t)
  <2>1. task[t].pc = "reply" /\ \A x \in Tasks : x # t => task'[x] = task[x]
    BY <1>3 DEF Record
  <2>2. \A j \in Jobs : j # t[1] => job'[j] = job[j]
    BY <1>3 DEF Record
  <2>3. QED
    BY <1>3, <2>1, <2>2 DEF Record
<1>4. CASE Refresh(t)
  BY <1>4 DEF Refresh
<1>5. CASE Complete(t)
  <2>1. \A j \in Jobs : j # t[1] => job'[j] = job[j]
    BY <1>5 DEF Complete
  <2>2. QED
    BY <1>5, <2>1 DEF Complete
<1>6. CASE Recover(t)
  BY <1>6 DEF Recover
<1>7. CASE Exit(t)
  BY <1>7 DEF Exit
<1>8. CASE JiraFails(t)
  BY <1>8 DEF JiraFails, Creates, Acts
<1>9. CASE ReplyLost(t)
  BY <1>9 DEF ReplyLost
<1>10. ASSUME NEW u \in Units, Skip(t, u)
       PROVE  /\ task[t].pc # "idle"
              /\ \A x \in Tasks : x # t => task'[x] = task[x]
              /\ UNCHANGED <<job, made, lost, claim, sweep, overlap, server>>
  BY <1>10 DEF Skip
<1>11. ASSUME NEW u \in Units, CallJira(t, u)
       PROVE  /\ task[t].pc # "idle"
              /\ \A x \in Tasks : x # t => task'[x] = task[x]
              /\ \A j \in Jobs : j # t[1] => made'[j] = made[j]
              /\ UNCHANGED <<job, lost, claim, sweep, overlap, server>>
  <2>1. task' = [task EXCEPT ![t] = task'[t]]
    BY <1>11 DEF CallJira
  <2>2. \A j \in Jobs : j # t[1] => made'[j] = made[j]
    BY <1>11 DEF CallJira
  <2>3. QED
    BY <1>11, <2>1, <2>2 DEF CallJira, Creates
<1>12. ASSUME NEW x \in Resources, Act(t, x)
       PROVE  /\ task[t].pc # "idle"
              /\ \A y \in Tasks : y # t => task'[y] = task[y]
              /\ UNCHANGED <<job, made, lost, claim, sweep, overlap, server>>
  BY <1>12 DEF Act, Acts
<1>13. CASE RecoverFails(t)
  BY <1>13 DEF RecoverFails
<1>14. QED
  BY <1>1, <1>2, <1>3, <1>4, <1>5, <1>6, <1>7, <1>8, <1>9, <1>10, <1>11, <1>12, <1>13
  DEF TaskStep

\* The part of Asleep that is about pod v.
AsleepAt(v) ==
    /\ sweep[v].phase = "reset" => server[v] = "starting"
    /\ server[v] = "down" => sweep[v].phase = "idle"
    /\ server[v] = "down" \/ sweep[v].phase = "reset" =>
          /\ claim[v] = {}
          /\ \A t \in Tasks : PodOf(t) = v => task[t].pc = "idle"

\* A pod that is down, or a worker that has not reset the stale jobs, stays as it is
\* when nothing of its own moves.
LEMMA AsleepKept ==
    ASSUME NEW v \in Pods, AsleepAt(v),
           sweep'[v].phase = sweep[v].phase, server'[v] = server[v],
           \/ server[v] = "up"
           \/ /\ claim'[v] \subseteq claim[v]
              /\ \A t \in Tasks : PodOf(t) = v /\ task[t].pc = "idle" => task'[t].pc = "idle"
    PROVE  AsleepAt(v)'
<1>1. CASE server[v] = "up"
  BY <1>1 DEF AsleepAt
<1>2. CASE /\ claim'[v] \subseteq claim[v]
           /\ \A t \in Tasks : PodOf(t) = v /\ task[t].pc = "idle" => task'[t].pc = "idle"
  BY <1>2 DEF AsleepAt, PodOf
<1>3. QED
  BY <1>1, <1>2

\* A task started in pod w is no task of another pod.
LEMMA SpawnHome ==
    ASSUME TypeOK, NEW w \in Pods, NEW i \in Jobs, Spawn(w, i), NEW t \in Tasks, PodOf(t) # w
    PROVE  task'[t] = task[t]
<1>1. PICK s \in Slots : Home[s] = w /\ task' = [task EXCEPT ![<<i, s>>] = Fresh]
  BY DEF Spawn
<1>2. t # <<i, s>>
  BY <1>1 DEF PodOf
<1>3. QED
  BY <1>1, <1>2 DEF TypeOK

\* What is down, or about to reset the stale jobs, runs no task.
LEMMA AsleepStep ==
    ASSUME TypeOK, Asleep, [Next]_vars PROVE Asleep'
<1> USE DEF mem, jira, db
<1> SUFFICES ASSUME NEW v \in Pods PROVE AsleepAt(v)'
  BY DEF Asleep, AsleepAt
<1>0. AsleepAt(v)
  BY DEF Asleep, AsleepAt
<1>1. ASSUME UNCHANGED <<task, sweep, server>>,
             claim'[v] = claim[v] \/ server[v] = "up"
      PROVE  AsleepAt(v)'
  BY <1>0, <1>1, AsleepKept
<1>2. CASE Request
  <2>1. ASSUME NEW w \in Fronts, NEW j \in Jobs, Create(w, j) PROVE AsleepAt(v)'
    BY <1>1, <2>1 DEF Create, Serving, TypeOK
  <2>2. ASSUME NEW w \in Fronts, NEW p \in Projects, Retry(w, p) PROVE AsleepAt(v)'
    BY <1>1, <2>2 DEF Retry, Serving, TypeOK
  <2>3. QED
    BY <1>1, <1>2, <2>1, <2>2 DEF Request, ResetProject, SyncWithoutJob, EditScope
<1>3. ASSUME NEW w \in Pods, NEW i \in Jobs, Claim(w, i) PROVE AsleepAt(v)'
  <2>1. sweep' = sweep /\ server' = server /\ claim' = [claim EXCEPT ![w] = @ \ {i}]
    BY <1>3 DEF Claim
  <2>2. CASE w = v
    BY <1>0, <1>3, <2>1, <2>2 DEF Claim, AsleepAt
  <2>3. CASE w # v
    <3>1. \A t \in Tasks : PodOf(t) = v => task'[t] = task[t]
      BY <1>3, <2>3, SpawnHome DEF Claim
    <3>2. claim'[v] = claim[v]
      BY <2>1, <2>3 DEF TypeOK
    <3>3. QED
      BY <1>0, <2>1, <3>1, <3>2, AsleepKept
  <2>4. QED
    BY <2>2, <2>3
<1>4. ASSUME NEW t \in Tasks, TaskStep(t) \/ RecoverFails(t) PROVE AsleepAt(v)'
  <2>1. /\ UNCHANGED <<claim, sweep, server>>
        /\ task[t].pc # "idle"
        /\ \A x \in Tasks : x # t => task'[x] = task[x]
    BY <1>4, StepOfTask
  <2>2. QED
    BY <1>0, <2>1, AsleepKept
<1>5. ASSUME NEW w \in Pods, SweepRead(w) PROVE AsleepAt(v)'
  <2>1. CASE w = v
    BY <1>0, <1>5, <2>1 DEF SweepRead, AsleepAt, TypeOK
  <2>2. CASE w # v
    BY <1>0, <1>5, <2>2, AsleepKept DEF SweepRead, TypeOK
  <2>3. QED
    BY <2>1, <2>2
<1>6. ASSUME NEW w \in Pods, SweepCheck(w) PROVE AsleepAt(v)'
  <2>1. CASE w = v
    BY <1>0, <1>6, <2>1, AdvanceType DEF SweepCheck, AsleepAt
  <2>2. CASE w # v
    BY <1>0, <1>6, <2>2, AsleepKept, AdvanceType DEF SweepCheck
  <2>3. QED
    BY <2>1, <2>2
<1>7. ASSUME NEW w \in Pods, NEW i \in Jobs, SweepSpawn(w, i) PROVE AsleepAt(v)'
  <2>1. CASE w = v
    BY <1>0, <1>7, <2>1, AdvanceType DEF SweepSpawn, AsleepAt
  <2>2. CASE w # v
    <3>1. \A t \in Tasks : PodOf(t) = v => task'[t] = task[t]
      BY <1>7, <2>2, SpawnHome DEF SweepSpawn
    <3>2. sweep'[v] = sweep[v] /\ claim' = claim /\ server' = server
      BY <1>7, <2>2, AdvanceType DEF SweepSpawn
    <3>3. QED
      BY <1>0, <3>1, <3>2, AsleepKept
  <2>3. QED
    BY <2>1, <2>2
<1>8. ASSUME NEW w \in Pods, SweepFault(w) PROVE AsleepAt(v)'
  <2>1. CASE w = v
    BY <1>8, <2>1 DEF SweepFault, AsleepAt, TypeOK, NoSweep
  <2>2. CASE w # v
    BY <1>0, <1>8, <2>2, AsleepKept DEF SweepFault, TypeOK
  <2>3. QED
    BY <2>1, <2>2
<1>9. ASSUME NEW w \in Pods, Crash(w) PROVE AsleepAt(v)'
  <2>1. \A t \in Tasks : task'[t] = IF PodOf(t) = w THEN Idle ELSE task[t]
    BY <1>9 DEF Crash
  <2>2. CASE w = v
    <3>1. server'[v] = "down" /\ sweep'[v] = NoSweep /\ claim'[v] = {}
      BY <1>9, <2>2 DEF Crash, TypeOK
    <3>2. QED
      BY <2>1, <2>2, <3>1 DEF AsleepAt, NoSweep, Idle, PodOf
  <2>3. CASE w # v
    <3>1. server'[v] = server[v] /\ sweep'[v] = sweep[v] /\ claim'[v] = claim[v]
      BY <1>9, <2>3 DEF Crash, TypeOK
    <3>2. QED
      BY <1>0, <2>1, <2>3, <3>1, AsleepKept
  <2>4. QED
    BY <2>2, <2>3
<1>10. ASSUME NEW w \in Pods, Restart(w) PROVE AsleepAt(v)'
  <2>1. UNCHANGED <<task, claim>> /\ server[w] = "down"
    BY <1>10 DEF Restart
  <2>2. CASE w # v
    BY <1>0, <1>10, <2>1, <2>2, AsleepKept DEF Restart, TypeOK
  <2>3. CASE w = v
    BY <1>0, <1>10, <2>1, <2>3 DEF Restart, AsleepAt, PodOf, TypeOK
  <2>4. QED
    BY <2>2, <2>3
<1>11. ASSUME NEW w \in Pods, ResetStale(w) PROVE AsleepAt(v)'
  <2>1. PICK s \in Slots :
           /\ Home[s] = w
           /\ task' = [t \in Tasks |->
                 IF t[2] = s /\ t[1] \in sweep[w].cur THEN Fresh ELSE task[t]]
    BY <1>11 DEF ResetStale
  <2>2. CASE w # v
    <3>1. \A t \in Tasks : PodOf(t) = v => task'[t] = task[t]
      BY <2>1, <2>2 DEF PodOf
    <3>2. sweep'[v] = sweep[v] /\ claim' = claim /\ server' = server
      BY <1>11, <2>2 DEF ResetStale, TypeOK
    <3>3. QED
      BY <1>0, <3>1, <3>2, AsleepKept
  <2>3. CASE w = v
    BY <1>0, <1>11, <2>3 DEF ResetStale, AsleepAt, NoSweep, TypeOK
  <2>4. QED
    BY <2>2, <2>3
<1>12. ASSUME NEW w \in Pods, Started(w) PROVE AsleepAt(v)'
  <2>1. CASE w # v
    BY <1>0, <1>12, <2>1, AsleepKept DEF Started, TypeOK
  <2>2. CASE w = v
    BY <1>12, <2>2 DEF Started, AsleepAt, TypeOK
  <2>3. QED
    BY <2>1, <2>2
<1>13. CASE UNCHANGED vars
  BY <1>1, <1>13 DEF vars
<1>14. QED
  BY <1>2, <1>3, <1>4, <1>5, <1>6, <1>7, <1>8, <1>9, <1>10, <1>11, <1>12, <1>13
  DEF Next, SweepStep, StartUp, Fault

\* At first every pod is up.
LEMMA AsleepInit == Init => Asleep
BY DEF Init, Asleep, NoSweep

\* At first there are no keys.
LEMMA KeysInit == Init => KeysExist /\ KeysHeld
<1> SUFFICES ASSUME Init PROVE KeysExist /\ KeysHeld
  OBVIOUS
<1>1. KeysExist
  BY DEF Init, KeysExist, NewRow, NoKeys
<1>2. \A t \in Tasks : task[t] = Idle
  BY DEF Init
<1>3. \A p \in Projects, t \in Tasks : lock[p] # t
  BY TaskParts DEF Init
<1>4. QED
  BY <1>1, <1>2, <1>3, EmptyFrames DEF KeysHeld, Empty, NoKeys

\* Only Begin, Resume, Record, Refresh, Skip, CallJira, Act and Complete write a
\* key or a frame that is not empty.
LEMMA QuietKeys ==
    ASSUME TypeOK, TypeOK', KeysExist, KeysHeld,
           UNCHANGED made,
           \A j \in Jobs : job'[j].key \in {job[j].key, NoKeys},
           \A p \in Projects : project'[p].story \in {project[p].story, NoRef},
           \A r \in Resources : resource'[r].key = resource[r].key,
           \A t \in Tasks : task'[t] = task[t] \/ Empty(task'[t]),
           \A p \in Projects, t \in Tasks : lock'[p] = t =>
              lock[p] = t /\ (task'[t] = task[t] \/ task'[t].pc = "error")
    PROVE  KeysExist' /\ KeysHeld'
<1>1. \A j \in Jobs, u \in Units : made[j][u] <= made'[j][u]
  BY DEF TypeOK
<1>2. KeysExist'
  BY <1>1, TablesKept DEF NoKeys
<1>3. \A p \in Projects, t \in Tasks : lock'[p] = t =>
         (lock[p] = t /\ task'[t] = task[t]) \/ MayLock(p, t)'
  BY DEF KeysHeld, MayLock, Proj, Migrates
<1>4. KeysHeld'
  BY <1>1, <1>3, TasksKept
<1>5. QED
  BY <1>2, <1>4

\* Each action keeps KeysExist and KeysHeld; one step per action.
LEMMA KeysStep ==
    ASSUME TypeOK, TypeOK', KeysExist, KeysHeld, Asleep, [Next]_vars
    PROVE  KeysExist' /\ KeysHeld'
<1> USE DEF mem, jira, db
<1> DEFINE Goal == KeysExist' /\ KeysHeld'
<1>0. /\ \A j \in Jobs : job[j] \in Row
      /\ \A t \in Tasks : task[t] \in Frame
  BY DEF TypeOK
<1>1. ASSUME NEW v \in Pods, NEW j \in Jobs, Create(v, j) PROVE Goal
  <2>1. \A i \in Jobs : job'[i].key \in {job[i].key, NoKeys}
    BY <1>1 DEF Create, NewRow, TypeOK
  <2>2. \A p \in Projects : project'[p].story = project[p].story
    <3>1. JobProject[j] \in Projects /\ "pending" \in PStatus
      BY ConstantsOK DEF PStatus
    <3>2. QED
      BY <1>1, <3>1, ProjectType DEF Create
  <2>3. QED
    BY <1>1, <2>1, <2>2, QuietKeys DEF Create
<1>2. ASSUME NEW v \in Pods, NEW p \in Projects, Retry(v, p) PROVE Goal
  <2>1. \A i \in Jobs : job'[i].key = job[i].key
    BY <1>2 DEF Retry, TypeOK, Row
  <2>2. \A q \in Projects : project'[q].story = project[q].story
    <3>1. "pending" \in PStatus
      BY DEF PStatus
    <3>2. QED
      BY <1>2, <3>1, ProjectType DEF Retry
  <2>3. QED
    BY <1>2, <2>1, <2>2, QuietKeys DEF Retry
<1>3. ASSUME NEW p \in Projects, ResetProject(p) PROVE Goal
  <2>1. \A q \in Projects : project'[q].story \in {project[q].story, NoRef}
    BY <1>3 DEF ResetProject, TypeOK, ProjectRow
  <2>2. QED
    BY <1>3, <2>1, QuietKeys DEF ResetProject
<1>4. ASSUME NEW r \in Resources, SyncWithoutJob(r) PROVE Goal
  <2>1. \A x \in Resources : resource'[x].key = resource[x].key
    BY <1>4 DEF SyncWithoutJob, TypeOK, ResourceRow
  <2>2. QED
    BY <1>4, <2>1, QuietKeys DEF SyncWithoutJob
<1>5. ASSUME NEW r \in Resources, EditScope(r) PROVE Goal
  <2>1. \A x \in Resources : resource'[x].key = resource[x].key
    BY <1>5 DEF EditScope, TypeOK, ResourceRow
  <2>2. QED
    BY <1>5, <2>1, QuietKeys DEF EditScope
<1>6. ASSUME NEW v \in Pods, NEW j \in Jobs, Spawn(v, j), UNCHANGED <<db, jira, lock>> PROVE Goal
  <2>1. PICK s \in Slots : /\ task[<<j, s>>].pc = "idle"
                          /\ task' = [task EXCEPT ![<<j, s>>] = Fresh]
    BY <1>6 DEF Spawn
  <2>2. \A t \in Tasks : task'[t] = task[t] \/ Empty(task'[t])
    BY <2>1, EmptyFrames DEF TypeOK
  <2>3. \A p \in Projects, t \in Tasks : lock'[p] = t =>
              lock[p] = t /\ (task'[t] = task[t] \/ task'[t].pc = "error")
    BY <1>6, <2>1 DEF KeysHeld, TypeOK
  <2>4. QED
    BY <1>6, <2>2, <2>3, QuietKeys
<1>7. ASSUME NEW t \in Tasks, Begin(t) PROVE Goal
  <2>1. /\ t[1] \in Jobs /\ Proj(t) \in Projects /\ "processing" \in PStatus
        /\ "story" \in Units
    BY TaskParts DEF PStatus, Units
  <2>2. \A i \in Jobs : job'[i].key = job[i].key
    BY <1>7, BeginParts
  <2>3. \A p \in Projects : project'[p].story = project[p].story
    BY <1>7, <2>1, ProjectType DEF Begin
  <2>4. KeysExist'
    <3>1. UNCHANGED <<made, resource>>
      BY <1>7 DEF Begin
    <3>2. \A j \in Jobs, u \in Units : made[j][u] <= made'[j][u]
      BY <3>1 DEF TypeOK
    <3>3. QED
      BY <2>2, <2>3, <3>1, <3>2, TablesKept
  <2>5. \A x \in Tasks : x # t => task'[x] = task[x]
    BY <1>7, BeginParts
  <2>6. /\ task'[t].row.key = job[t[1]].key
        /\ task'[t].pc # "reply"
        /\ task'[t].pc = "resume" => Migrates(t[1]) /\ job[t[1]].key["story"] # NoKey
    BY <1>7, BeginParts
  <2>7. Carries(t)'
    BY <1>7, <2>1, <2>6 DEF Begin, Carries, KeysExist, Exists, Migrates
  <2>8. \A p \in Projects : lock[p] # t
    BY <1>7 DEF Begin, KeysHeld
  <2>9. KeysHeld'
    <3>1. \A p \in Projects, x \in Tasks : lock'[p] = x => lock[p] = x /\ task'[x] = task[x]
      BY <1>7, <2>5, <2>8 DEF Begin
    <3>2. \A x \in Tasks : task'[x] = task[x] \/ Carries(x)'
      BY <2>5, <2>7
    <3>3. \A j \in Jobs, u \in Units : made[j][u] <= made'[j][u]
      BY <1>7 DEF Begin, TypeOK
    <3>4. QED
      BY <3>1, <3>2, <3>3, TasksKept
  <2>10. QED
    BY <2>4, <2>9
<1>8. ASSUME NEW t \in Tasks, Resume(t) PROVE Goal
  <2>1. KeysExist'
    BY <1>8, TablesKept DEF Resume, TypeOK
  <2>2. \A x \in Tasks : x # t => task'[x] = task[x]
    BY <1>8 DEF Resume, TypeOK
  <2>3. task'[t].pc = "loop" /\ task'[t].row = task[t].row
    BY <1>8, <1>0 DEF Resume, Frame, TypeOK
  <2>4. Carries(t)'
    BY <1>8, <2>3 DEF Resume, KeysHeld, Carries, Exists
  <2>5. \A p \in Projects, x \in Tasks : lock'[p] = x =>
              (lock[p] = x /\ x # t) \/ (x = t /\ p = Proj(t))
    BY <1>8, TaskParts DEF Resume, KeysHeld, TypeOK
  <2>6. MayLock(Proj(t), t)'
    BY <1>8, <2>3 DEF Resume, KeysHeld, MayLock, Proj, Migrates
  <2>7. KeysHeld'
    <3>1. \A p \in Projects, x \in Tasks : lock'[p] = x =>
              (lock[p] = x /\ task'[x] = task[x]) \/ MayLock(p, x)'
      BY <2>2, <2>5, <2>6 DEF Proj
    <3>2. \A x \in Tasks : task'[x] = task[x] \/ Carries(x)'
      BY <2>2, <2>4
    <3>3. \A j \in Jobs, u \in Units : made[j][u] <= made'[j][u]
      BY <1>8 DEF Resume, TypeOK
    <3>4. QED
      BY <3>1, <3>2, <3>3, TasksKept
  <2>8. QED
    BY <2>1, <2>7
<1>9. ASSUME NEW t \in Tasks, Record(t) PROVE Goal
  <2> DEFINE u == task[t].unit
             story == IF u = "story" THEN task[t].n ELSE task[t].row.key["story"]
  <2>1. /\ t[1] \in Jobs /\ Proj(t) \in Projects /\ "story" \in Units /\ u \in Units
        /\ task[t].n \in Keys /\ Exists(t[1], u, task[t].n)
        /\ job[t[1]] \in Row /\ task[t].row \in Row
    BY <1>9, <1>0, TaskParts DEF Record, KeysHeld, Units, Frame
  <2>2. \A j \in Jobs, v \in Units :
           \/ job'[j].key[v] = job[j].key[v]
           \/ j = t[1] /\ v = u /\ job'[j].key[v] = task[t].n
           \/ j = t[1] /\ job'[j].key[v] = task[t].row.key[v]
    <3>1. CASE u = "story"
      BY <1>9, <2>1, <3>1 DEF Record, Row, TypeOK
    <3>2. CASE u # "story"
      BY <1>9, <2>1, <3>2 DEF Record, Row, TypeOK
    <3>3. QED
      BY <3>1, <3>2
  <2>3. \A j \in Jobs, v \in Units : job'[j].key[v] # NoKey => Exists(j, v, job'[j].key[v])
    BY <2>1, <2>2 DEF KeysExist, KeysHeld
  <2>4. (u = "story" \/ lock[Proj(t)] = t) => /\ Exists(t[1], "story", story)
                                            /\ <<t[1], "story", story>> \in Refs
    <3>1. CASE u = "story"
      BY <2>1, <3>1 DEF Refs
    <3>2. CASE lock[Proj(t)] = t /\ u # "story"
      <4>1. task[t].row.key["story"] # NoKey
        BY <1>9, <2>1, <3>2 DEF Record, KeysHeld
      <4>2. task[t].row.key["story"] \in Keys /\ Exists(t[1], "story", task[t].row.key["story"])
        BY <2>1, <4>1 DEF Row, KeysHeld
      <4>3. QED
        BY <2>1, <3>2, <4>2 DEF Refs
    <3>3. QED
      BY <3>1, <3>2
  <2>5. \/ project' = project
        \/ /\ u = "story" \/ lock[Proj(t)] = t
           /\ project' = SetStory(Proj(t), <<t[1], "story", story>>)
    BY <1>9 DEF Record, SetStory
  <2>6. \A p \in Projects :
           \/ project'[p].story = project[p].story
           \/ Exists(project'[p].story[1], project'[p].story[2], project'[p].story[3])
    <3> HIDE DEF story
    <3>1. CASE project' = project
      BY <3>1
    <3>2. CASE project' # project
      <4>1. \A p \in Projects : project'[p].story
               = IF p = Proj(t) THEN <<t[1], "story", story>> ELSE project[p].story
        BY <2>1, <2>4, <2>5, <3>2, StoryType
      <4>2. QED
        BY <2>4, <2>5, <3>2, <4>1
    <3>3. QED
      BY <3>1, <3>2
  <2>7. made' = made /\ resource' = resource
    BY <1>9 DEF Record
  <2>8. KeysExist'
    BY <2>3, <2>6, <2>7 DEF KeysExist, Exists
  <2>9. \A x \in Tasks : x # t => task'[x] = task[x]
    BY <1>9 DEF Record, TypeOK
  <2>10. Empty(task'[t])
    BY <1>9 DEF Record, TypeOK, Empty, Idle, NewRow
  <2>11. \A p \in Projects, x \in Tasks : lock'[p] = x => lock[p] = x /\ x # t
    <3>1. \A p \in Projects : lock'[p] = lock[p] \/ lock'[p] = NoTask
      BY <1>9 DEF Record, TypeOK
    <3>2. lock'[Proj(t)] # t
      BY <1>9, <2>1, TaskParts DEF Record, TypeOK
    <3>3. QED
      BY <3>1, <3>2, TaskParts DEF KeysHeld
  <2>12. KeysHeld'
    <3>1. \A j \in Jobs, v \in Units : made[j][v] <= made'[j][v]
      BY <2>7 DEF TypeOK
    <3>2. QED
      BY <2>9, <2>10, <2>11, <3>1, TasksKept
  <2>13. QED
    BY <2>8, <2>12
<1>10. ASSUME NEW t \in Tasks, Refresh(t) PROVE Goal
  <2>1. KeysExist'
    BY <1>10, TablesKept DEF Refresh, TypeOK
  <2>2. \A x \in Tasks : x # t => task'[x] = task[x]
    BY <1>10 DEF Refresh, TypeOK
  <2>3. task'[t].pc = "loop" /\ task'[t].row.key = job[t[1]].key
    BY <1>10, <1>0, TaskParts DEF Refresh, Frame, TypeOK
  <2>4. Carries(t)'
    BY <1>10, <2>3, TaskParts DEF Refresh, KeysExist, Carries, Exists
  <2>5. \A p \in Projects : lock[p] # t
    BY <1>10 DEF Refresh, KeysHeld
  <2>6. KeysHeld'
    <3>1. \A p \in Projects, x \in Tasks : lock'[p] = x => lock[p] = x /\ task'[x] = task[x]
      BY <1>10, <2>2, <2>5 DEF Refresh
    <3>2. \A j \in Jobs, u \in Units : made[j][u] <= made'[j][u]
      BY <1>10 DEF Refresh, TypeOK
    <3>3. QED
      BY <2>2, <2>4, <3>1, <3>2, TasksKept
  <2>7. QED
    BY <2>1, <2>6
<1>11. ASSUME NEW t \in Tasks, Complete(t) PROVE Goal
  <2>1. /\ t[1] \in Jobs /\ Proj(t) \in Projects /\ "story" \in Units
        /\ task[t].row \in Row /\ made' = made
    BY <1>11, <1>0, TaskParts DEF Complete, Units, Frame
  <2>2. \A j \in Jobs : job'[j].key = job[j].key
    BY <1>11, <1>0 DEF Complete, Row, TypeOK
  <2>3. lock[Proj(t)] = t => /\ task[t].row.key["story"] \in Keys
                             /\ Exists(t[1], "story", task[t].row.key["story"])
    BY <1>11, <2>1 DEF Complete, KeysHeld, Row
  <2>4. \A p \in Projects :
           \/ project'[p].story = project[p].story
           \/ Exists(project'[p].story[1], project'[p].story[2], project'[p].story[3])
    <3> DEFINE ref == <<t[1], "story", task[t].row.key["story"]>>
               story == IF lock[Proj(t)] = t THEN ref ELSE project[Proj(t)].story
    <3>1. \/ project' = project
          \/ project' = [project EXCEPT ![Proj(t)] = [status |-> "completed", story |-> story]]
      BY <1>11 DEF Complete
    <3>2. story = project[Proj(t)].story \/ Exists(story[1], story[2], story[3])
      BY <2>3
    <3> HIDE DEF story
    <3>3. \A p \in Projects : project'[p].story = project[p].story
                             \/ (p = Proj(t) /\ project'[p].story = story)
      BY <2>1, <3>1 DEF TypeOK
    <3>4. QED
      BY <3>2, <3>3
  <2>5. \A r \in Resources :
           \/ resource'[r].key \in {resource[r].key, NoRef}
           \/ Exists(resource'[r].key[1], resource'[r].key[2], resource'[r].key[3])
    <3>1. \A r \in Resources : resource[r] \in ResourceRow
      BY DEF TypeOK
    <3>2. \A r \in Resources :
             \/ WriteBack(t, r) \in {resource[r].key, NoRef}
             \/ Exists(WriteBack(t, r)[1], WriteBack(t, r)[2], WriteBack(t, r)[3])
      <4> SUFFICES ASSUME NEW r \in Resources, task[t].row.key[BucketOf[r]] # NoKey
                   PROVE  Exists(t[1], BucketOf[r], task[t].row.key[BucketOf[r]])
        BY DEF WriteBack
      <4>1. BucketOf[r] \in Units
        BY ConstantsOK DEF Units
      <4>2. QED
        BY <4>1 DEF KeysHeld
    <3>3. \A r \in Resources : \/ resource'[r].key = resource[r].key
                               \/ resource'[r].key = WriteBack(t, r)
      <4>1. CASE Kind(t) = "migration"
        BY <1>11, <3>1, <4>1 DEF Complete, ResourceRow
      <4>2. CASE Kind(t) = "operation"
        BY <1>11, <4>2 DEF Complete
      <4>3. CASE Kind(t) = "sync-complete"
        BY <1>11, <3>1, <4>3 DEF Complete, ResourceRow
      <4>4. QED
        BY <1>11, <4>1, <4>2, <4>3 DEF Complete
    <3>4. QED
      BY <3>2, <3>3
  <2>6. KeysExist'
    <3>1. \A j \in Jobs, u \in Units : job'[j].key[u] # NoKey => Exists(j, u, job'[j].key[u])
      BY <2>2 DEF KeysExist
    <3>2. QED
      BY <2>1, <2>4, <2>5, <3>1 DEF KeysExist, Exists
  <2>7. \A x \in Tasks : x # t => task'[x] = task[x]
    BY <1>11 DEF Complete, Leave, TypeOK
  <2>8. Empty(task'[t])
    BY <1>11 DEF Complete, Leave, TypeOK, Empty, Idle, NewRow
  <2>9. \A p \in Projects, x \in Tasks : lock'[p] = x => lock[p] = x /\ x # t
    <3>1. \A p \in Projects : lock'[p] = lock[p] \/ lock'[p] = NoTask
      BY <1>11 DEF Complete, TypeOK
    <3>2. Migrates(t[1]) => lock'[Proj(t)] # t
      BY <1>11, <2>1, TaskParts DEF Complete, TypeOK, Migrates, Kind
    <3>3. QED
      BY <3>1, <3>2, TaskParts DEF KeysHeld
  <2>10. KeysHeld'
    <3>1. \A j \in Jobs, v \in Units : made[j][v] <= made'[j][v]
      BY <2>1 DEF TypeOK
    <3>2. QED
      BY <2>7, <2>8, <2>9, <3>1, TasksKept
  <2>11. QED
    BY <2>6, <2>10
<1>12. ASSUME NEW t \in Tasks, Recover(t) PROVE Goal
  <2>1. \A j \in Jobs : job'[j].key = job[j].key
    BY <1>12, <1>0 DEF Recover, Row, TypeOK
  <2>2. \A p \in Projects : project'[p].story = project[p].story
    <3>1. "failed" \in PStatus
      BY DEF PStatus
    <3>2. QED
      BY <1>12, <3>1, TaskParts, ProjectType DEF Recover
  <2>3. \A x \in Tasks : task'[x] = task[x] \/ Empty(task'[x])
    BY <1>12, EmptyFrames DEF Recover, Leave, TypeOK, Phases
  <2>4. \A p \in Projects, x \in Tasks : lock'[p] = x => lock[p] = x /\ task'[x] = task[x]
    <3>1. \A p \in Projects : lock[p] # t
      BY <1>12, TaskParts DEF Recover, KeysHeld
    <3>2. QED
      BY <1>12, <3>1 DEF Recover, Leave, TypeOK
  <2>5. QED
    BY <1>12, <2>1, <2>2, <2>3, <2>4, QuietKeys DEF Recover
<1>13. ASSUME NEW t \in Tasks, Exit(t) PROVE Goal
  <2>1. \A x \in Tasks : task'[x] = task[x] \/ Empty(task'[x])
    BY <1>13, EmptyFrames DEF Exit, TypeOK
  <2>2. \A p \in Projects, x \in Tasks : lock'[p] = x => lock[p] = x /\ task'[x] = task[x]
    BY <1>13 DEF Exit, KeysHeld, TypeOK
  <2>3. QED
    BY <1>13, <2>1, <2>2, QuietKeys DEF Exit
<1>14. ASSUME NEW t \in Tasks, Leave(t, "error"), UNCHANGED <<made, db, lock>> PROVE Goal
  <2>1. \A x \in Tasks : task'[x] = task[x] \/ Empty(task'[x])
    BY <1>14, EmptyFrames DEF Leave, TypeOK, Phases
  <2>2. \A x \in Tasks : task'[x] = task[x] \/ task'[x].pc = "error"
    BY <1>14 DEF Leave, TypeOK, Idle
  <2>3. QED
    BY <1>14, <2>1, <2>2, QuietKeys
<1>15. ASSUME NEW t \in Tasks, NEW u, task' = [task EXCEPT ![t].todo = @ \ {u}],
              task[t].pc = "loop", UNCHANGED <<made, db, lock>>
       PROVE Goal
  <2>1. KeysExist'
    BY <1>15, TablesKept DEF TypeOK
  <2>2. \A x \in Tasks : x # t => task'[x] = task[x]
    BY <1>15 DEF TypeOK
  <2>3. task'[t].pc = "loop" /\ task'[t].row = task[t].row
    BY <1>15, <1>0 DEF Frame, TypeOK
  <2>4. Carries(t)'
    BY <1>15, <2>3 DEF KeysHeld, Carries, Exists
  <2>5. \A p \in Projects, x \in Tasks : lock'[p] = x =>
              (lock[p] = x /\ task'[x] = task[x]) \/ MayLock(p, x)'
    BY <1>15, <2>2, <2>3 DEF KeysHeld, MayLock, Proj, Migrates
  <2>6. KeysHeld'
    <3>1. \A j \in Jobs, v \in Units : made[j][v] <= made'[j][v]
      BY <1>15 DEF TypeOK
    <3>2. QED
      BY <2>2, <2>4, <2>5, <3>1, TasksKept
  <2>7. QED
    BY <2>1, <2>6
<1>16. ASSUME NEW t \in Tasks, NEW u \in Units, CallJira(t, u) PROVE Goal
  <2> DEFINE n == NewKey(t, u)
             new == [task[t] EXCEPT !.pc = "reply", !.unit = u, !.n = n,
                                    !.todo = task[t].todo \ {u}]
  <2>1. t[1] \in Jobs /\ made[t[1]][u] \in Nat
    BY TaskParts DEF TypeOK
  <2>2. \A j \in Jobs, v \in Units : made[j][v] <= made'[j][v]
    <3>1. /\ \A j \in Jobs, v \in Units : made[j][v] \in Nat
          /\ made \in [Jobs -> [Units -> Nat]]
      BY DEF TypeOK
    <3>2. made' = made \/ made' = [made EXCEPT ![t[1]][u] = made[t[1]][u] + 1]
      BY <1>16 DEF CallJira, NewKey
    <3>3. QED
      BY <2>1, <3>1, <3>2
  <2>3. n = MockKey \/ n \in 1 .. made'[t[1]][u]
    BY <1>16, <2>1 DEF CallJira, NewKey, TypeOK
  <2>4. KeysExist'
    BY <1>16, <2>2, TablesKept DEF CallJira
  <2>5. task' = [task EXCEPT ![t] = new]
    BY <1>16 DEF CallJira
  <2>6. /\ new.pc = "reply" /\ new.unit = u /\ new.n = n /\ new.row = task[t].row
    BY <1>0 DEF Frame
  <2> HIDE DEF new, n
  <2>7. /\ task'[t] = new
        /\ \A x \in Tasks : x # t => task'[x] = task[x]
    BY <2>5 DEF TypeOK
  <2>8. Carries(t)'
    <3>1. \A v \in Units : task[t].row.key[v] \in Keys
      BY <1>0 DEF Frame, Row
    <3>2. \A v \in Units : made[t[1]][v] \in Nat /\ made'[t[1]][v] \in Nat
      BY <2>1 DEF TypeOK
    <3>3. \A v \in Units : task[t].row.key[v] # NoKey => Exists(t[1], v, task[t].row.key[v])'
      BY <2>1, <2>2, <2>6, <2>7, <3>1, <3>2 DEF KeysHeld, Exists
    <3>4. QED
      BY <2>3, <2>6, <2>7, <3>3 DEF Carries, Exists
  <2>9. \A p \in Projects, x \in Tasks : lock'[p] = x =>
              (lock[p] = x /\ task'[x] = task[x]) \/ MayLock(p, x)'
    <3>1. lock' = lock /\ task[t].pc \in {"loop", "story"}
      BY <1>16 DEF CallJira, Creates
    <3>2. QED
      BY <2>6, <2>7, <3>1 DEF KeysHeld, MayLock, Proj, Migrates
  <2>10. KeysHeld'
    BY <2>2, <2>7, <2>8, <2>9, TasksKept
  <2>11. QED
    BY <2>4, <2>10
<1>17. ASSUME UNCHANGED <<made, db, task, lock>> PROVE Goal
  BY <1>17, QuietKeys
<1>18. ASSUME NEW v \in Pods, Crash(v) PROVE Goal
  <2>1. \A x \in Tasks : task'[x] = IF PodOf(x) = v THEN Idle ELSE task[x]
    BY <1>18 DEF Crash
  <2>2. \A p \in Projects, x \in Tasks : lock'[p] = x => lock[p] = x /\ PodOf(x) # v
    BY <1>18, TaskParts DEF Crash
  <2>3. QED
    BY <1>18, <2>1, <2>2, EmptyFrames, QuietKeys DEF Crash
<1>19. ASSUME NEW t \in Tasks, RecoverFails(t) PROVE Goal
  <2>1. \A x \in Tasks : task'[x] = task[x] \/ Empty(task'[x])
    BY <1>19, EmptyFrames DEF RecoverFails, Leave, TypeOK, Phases
  <2>2. \A p \in Projects, x \in Tasks : lock'[p] = x => lock[p] = x /\ task'[x] = task[x]
    BY <1>19, TaskParts DEF RecoverFails, Leave, TypeOK
  <2>3. QED
    BY <1>19, <2>1, <2>2, QuietKeys DEF RecoverFails
<1>20. ASSUME NEW v \in Pods, ResetStale(v) PROVE Goal
  <2>1. PICK s \in Slots :
           /\ Home[s] = v
           /\ task' = [t \in Tasks |->
                 IF t[2] = s /\ t[1] \in sweep[v].cur THEN Fresh ELSE task[t]]
    BY <1>20 DEF ResetStale
  <2>2. \A x \in Tasks : task'[x] = task[x] \/ (task'[x] = Fresh /\ task[x].pc = "idle")
    BY <1>20, <2>1 DEF ResetStale, Asleep, PodOf
  <2>3. \A j \in Jobs : job'[j].key = job[j].key
    BY <1>20, <1>0 DEF ResetStale, Row
  <2>4. \A p \in Projects : project'[p].story = project[p].story
    <3>1. \A p \in Projects : project[p] \in ProjectRow
      BY DEF TypeOK
    <3>2. QED
      BY <1>20, <3>1 DEF ResetStale, ProjectRow
  <2>5. \A p \in Projects, x \in Tasks : lock[p] = x => task[x].pc # "idle"
    BY DEF KeysHeld
  <2>6. UNCHANGED <<made, resource, lock>>
    BY <1>20 DEF ResetStale
  <2>7. QED
    BY <2>2, <2>3, <2>4, <2>5, <2>6, EmptyFrames, QuietKeys
<1>21. ASSUME NEW t \in Tasks, TaskStep(t) PROVE Goal
  <2>1. CASE JiraFails(t)
    BY <2>1, <1>14 DEF JiraFails
  <2>2. CASE ReplyLost(t)
    BY <2>2, <1>14 DEF ReplyLost
  <2>3. ASSUME NEW u \in Units, Skip(t, u) PROVE Goal
    BY <2>3, <1>15 DEF Skip
  <2>4. ASSUME NEW x \in Resources, Act(t, x) PROVE Goal
    BY <2>4, <1>14, <1>15 DEF Act, Acts
  <2>5. QED
    BY <1>21, <2>1, <2>2, <2>3, <2>4, <1>7, <1>8, <1>9, <1>10, <1>11, <1>12, <1>13, <1>16
    DEF TaskStep
<1>22. ASSUME NEW v \in Pods, SweepStep(v) PROVE Goal
  <2>1. ASSUME NEW j \in Jobs, SweepSpawn(v, j) PROVE Goal
    BY <2>1, <1>6 DEF SweepSpawn
  <2>2. QED
    BY <1>22, <2>1, <1>17 DEF SweepStep, SweepRead, SweepCheck
<1>23. CASE Fault
  <2>1. ASSUME NEW v \in Pods, SweepFault(v) PROVE Goal
    BY <2>1, <1>17 DEF SweepFault
  <2>2. QED
    BY <1>23, <2>1, <1>18, <1>19 DEF Fault
<1>24. ASSUME NEW v \in Pods, NEW j \in Jobs, Claim(v, j) PROVE Goal
  BY <1>24, <1>6 DEF Claim
<1>25. ASSUME NEW v \in Pods, StartUp(v) PROVE Goal
  BY <1>25, <1>17, <1>20 DEF StartUp, Restart, Started
<1>26. CASE UNCHANGED vars
  BY <1>26, <1>17 DEF vars
<1>27. QED
  BY ConstantsOK, <1>1, <1>2, <1>3, <1>4, <1>5, <1>21, <1>22, <1>23, <1>24, <1>25, <1>26
  DEF Next, Request

\* routers/jira.py and jira_service.py: whatever tasks, requests, resets, crashes
\* and lost replies interleave, a story or subtask key in jira_jobs, projects or
\* cloud_resources names an issue that Jira has made (or is a generated one).
THEOREM KeysAlwaysExist == Spec => []KeysExist
<1> DEFINE Inv == TypeOK /\ Asleep /\ KeysExist /\ KeysHeld
<1>1. Init => Inv
  BY InitType, KeysInit, AsleepInit
<1>2. Inv /\ [Next]_vars => Inv'
  BY TypeStep, AsleepStep, KeysStep
<1>3. Inv => KeysExist
  OBVIOUS
<1>4. QED
  BY <1>1, <1>2, <1>3, PTL DEF Spec

-----------------------------------------------------------------------------
(* Nothing made is forgotten, and no checkpoint is lost, while a job is not  *)
(* shared by two tasks.                                                      *)

\* No row appears in a pod's memory, or in Jira, before a request has inserted it.
LEMMA RequestedStep ==
    ASSUME TypeOK, Requested, [Next]_vars PROVE Requested'
<1> USE DEF mem, jira, db
<1> SUFFICES ASSUME NEW j \in Jobs, job'[j].status = "absent"
             PROVE  /\ job'[j].key = NoKeys
                    /\ \A v \in Pods : j \notin claim'[v] \cup sweep'[v].todo \cup sweep'[v].cur
                    /\ \A s \in Slots : task'[<<j, s>>].pc = "idle"
  BY DEF Requested
<1> DEFINE Held(v) == claim[v] \cup sweep[v].todo \cup sweep[v].cur
           SamePods  == \A v \in Pods : j \in claim'[v] \cup sweep'[v].todo \cup sweep'[v].cur
                                       => j \in Held(v)
           SameTasks == \A s \in Slots : task'[<<j, s>>] = task[<<j, s>>]
           Goal == /\ job'[j].key = NoKeys
                   /\ \A v \in Pods : j \notin claim'[v] \cup sweep'[v].todo \cup sweep'[v].cur
                   /\ \A s \in Slots : task'[<<j, s>>].pc = "idle"
<1>0. /\ job[j] \in Row
      /\ \A s \in Slots : <<j, s>> \in Tasks
  BY DEF TypeOK, Tasks
<1>1. ASSUME job'[j] = job[j], SamePods, SameTasks PROVE Goal
  BY <1>1 DEF Requested
<1>2. ASSUME NEW v \in Pods, NEW i \in Jobs, Create(v, i) PROVE Goal
  <2>1. i # j
    BY <1>2, IdleType DEF Create, TypeOK, NewRow
  <2>2. job'[j] = job[j] /\ SameTasks
    BY <1>2, <2>1 DEF Create, TypeOK
  <2>3. sweep' = sweep /\ \A w \in Pods : claim'[w] \subseteq claim[w] \cup {i}
    BY <1>2 DEF Create, TypeOK
  <2>4. QED
    BY <1>1, <2>1, <2>2, <2>3
<1>3. ASSUME NEW v \in Pods, NEW p \in Projects, Retry(v, p) PROVE Goal
  <2>1. PICK i \in Retryable(p) : /\ job' = [job EXCEPT ![i].status = "pending"]
                                 /\ claim' = [claim EXCEPT ![v] = @ \cup {i}]
    BY <1>3 DEF Retry
  <2>2. i \in Jobs /\ i # j
    BY <2>1, <1>0 DEF TypeOK, Row, Retryable
  <2>3. job'[j] = job[j] /\ UNCHANGED <<task, sweep>>
    BY <1>3, <2>1, <2>2 DEF Retry, TypeOK
  <2>4. \A w \in Pods : claim'[w] \subseteq claim[w] \cup {i}
    BY <2>1 DEF TypeOK
  <2>5. QED
    BY <1>1, <2>2, <2>3, <2>4
<1>4. ASSUME NEW v \in Pods, NEW i \in Jobs, Spawn(v, i), i # j PROVE SameTasks
  BY <1>0, <1>4 DEF Spawn, TypeOK
<1>5. ASSUME NEW v \in Pods, NEW i \in Jobs, Claim(v, i) PROVE Goal
  <2>1. job'[j] = job[j] /\ sweep' = sweep /\ \A w \in Pods : claim'[w] \subseteq claim[w]
    BY <1>5 DEF Claim, TypeOK
  <2>2. i # j
    BY <1>5, <2>1 DEF Claim, Requested
  <2>3. SameTasks
    BY <1>4, <1>5, <2>2 DEF Claim
  <2>4. QED
    BY <1>1, <2>1, <2>3
<1>6. ASSUME NEW v \in Pods, Advance(v)
      PROVE  \A w \in Pods : sweep'[w].todo \cup sweep'[w].cur \subseteq sweep[w].todo \cup sweep[w].cur
  BY <1>6, AdvanceType
<1>7. ASSUME NEW v \in Pods, NEW i \in Jobs, SweepSpawn(v, i) PROVE Goal
  <2>1. job'[j] = job[j] /\ claim' = claim /\ i \in sweep[v].cur
    BY <1>7 DEF SweepSpawn
  <2>2. i # j
    BY <2>1 DEF Requested
  <2>3. SameTasks
    BY <1>4, <1>7, <2>2 DEF SweepSpawn
  <2>4. SamePods
    BY <1>6, <1>7, <2>1 DEF SweepSpawn
  <2>5. QED
    BY <1>1, <2>1, <2>3, <2>4
<1>8. ASSUME NEW t \in Tasks, TaskStep(t) \/ RecoverFails(t) PROVE Goal
  <2>1. UNCHANGED <<claim, sweep>>
    BY <1>8, StepOfTask
  <2>2. CASE t[1] = j
    <3>1. t = <<j, t[2]>> /\ t[2] \in Slots
      BY <2>2, TaskParts
    <3>2. task[t].pc # "idle"
      BY <1>8, StepOfTask
    <3>3. job[j].status # "absent"
      BY <3>1, <3>2 DEF Requested
    <3>4. job'[j].status # "absent"
      <4>1. CASE Begin(t)
        BY <1>0, <2>2, <4>1 DEF Begin, TypeOK, Row
      <4>2. CASE Record(t)
        BY <1>0, <2>2, <3>3, <4>2 DEF Record, TypeOK, Row
      <4>3. CASE Complete(t)
        BY <1>0, <2>2, <3>3, <4>3 DEF Complete, TypeOK, Row
      <4>4. CASE Recover(t)
        BY <1>0, <2>2, <4>4 DEF Recover, TypeOK, Row
      <4>5. QED
        BY <1>8, <3>3, <4>1, <4>2, <4>3, <4>4
        DEF TaskStep, Resume, Refresh, Exit, JiraFails, ReplyLost, Skip, CallJira, Act,
            RecoverFails
    <3>5. QED
      BY <3>4
  <2>3. CASE t[1] # j
    <3>1. \A s \in Slots : <<j, s>> # t
      BY <2>3
    <3>2. job'[j] = job[j] /\ SameTasks
      BY <1>0, <1>8, <2>3, <3>1, StepOfTask
    <3>3. QED
      BY <1>1, <2>1, <3>2
  <2>4. QED
    BY <2>2, <2>3
<1>9. ASSUME NEW v \in Pods, SweepRead(v) PROVE Goal
  <2>1. j \notin Pending
    BY <1>0, <1>9 DEF SweepRead, Pending, Row
  <2>2. \A w \in Pods : sweep'[w] = sweep[w] \/ sweep'[w] = [phase |-> "read", todo |-> Pending,
                                                           cur |-> {}]
    BY <1>9 DEF SweepRead, TypeOK
  <2>3. SamePods
    BY <1>9, <2>1, <2>2 DEF SweepRead
  <2>4. QED
    BY <1>1, <1>9, <2>3 DEF SweepRead
<1>10. ASSUME NEW v \in Pods, SweepCheck(v) PROVE Goal
  BY <1>1, <1>6, <1>10 DEF SweepCheck
<1>11. ASSUME NEW v \in Pods, Crash(v) PROVE Goal
  <2>1. job' = job /\ \A s \in Slots : task'[<<j, s>>].pc = "idle" \/ task'[<<j, s>>] = task[<<j, s>>]
    BY <1>0, <1>11 DEF Crash, Idle
  <2>2. \A w \in Pods : /\ claim'[w] \subseteq claim[w]
                        /\ sweep'[w] = sweep[w] \/ sweep'[w] = NoSweep
    BY <1>11 DEF Crash, TypeOK
  <2>3. QED
    BY <2>1, <2>2 DEF Requested, NoSweep
<1>12. ASSUME NEW v \in Pods, Restart(v) PROVE Goal
  <2>1. UNCHANGED <<job, claim, task>> /\ j \notin Stale
    BY <1>0, <1>12 DEF Restart, Row, Stale
  <2>2. \A w \in Pods : \/ sweep'[w] = sweep[w]
                        \/ sweep'[w].todo \cup sweep'[w].cur \subseteq Stale
    BY <1>12 DEF Restart, TypeOK
  <2>3. QED
    BY <1>1, <2>1, <2>2
<1>13. ASSUME NEW v \in Pods, ResetStale(v) PROVE Goal
  <2>1. j \notin sweep[v].todo
    BY <1>0, <1>13 DEF ResetStale, Row
  <2>2. job'[j] = job[j] /\ claim' = claim
    BY <1>13, <2>1 DEF ResetStale
  <2>3. j \notin sweep[v].cur
    BY <2>2 DEF Requested
  <2>4. SameTasks
    BY <1>0, <1>13, <2>3 DEF ResetStale
  <2>5. \A w \in Pods : \/ sweep'[w] = sweep[w]
                        \/ sweep'[w].todo = {} /\ sweep'[w].cur = {}
    BY <1>13 DEF ResetStale, NoSweep, TypeOK
  <2>6. QED
    BY <1>1, <2>2, <2>4, <2>5
<1>14. ASSUME UNCHANGED <<job, claim, sweep, task>> PROVE Goal
  BY <1>1, <1>14
<1>15. ASSUME NEW v \in Pods, SweepFault(v) PROVE Goal
  <2>1. \A w \in Pods : \/ sweep'[w] = sweep[w]
                        \/ sweep'[w].todo = {} /\ sweep'[w].cur = {}
    BY <1>15 DEF SweepFault, NoSweep, TypeOK
  <2>2. QED
    BY <1>1, <1>15, <2>1 DEF SweepFault
<1>16. CASE Request
  BY ConstantsOK, <1>2, <1>3, <1>14, <1>16 DEF Request, ResetProject, SyncWithoutJob, EditScope
<1>17. ASSUME NEW v \in Pods, SweepStep(v) PROVE Goal
  BY <1>7, <1>9, <1>10, <1>17 DEF SweepStep
<1>18. CASE Fault
  BY <1>8, <1>11, <1>15, <1>18 DEF Fault
<1>19. ASSUME NEW v \in Pods, StartUp(v) PROVE Goal
  BY <1>12, <1>13, <1>14, <1>19 DEF StartUp, Started
<1>20. CASE UNCHANGED vars
  BY <1>14, <1>20 DEF vars
<1>21. QED
  BY <1>5, <1>8, <1>16, <1>17, <1>18, <1>19, <1>20 DEF Next

\* Every issue Jira made for unit u of job j is accounted for, as NoOrphanIssue says.
Accounted(j, u) ==
    \A n \in 1 .. made[j][u] :
        \/ n = job[j].key[u]
        \/ n \in lost[j][u]
        \/ \E s \in Slots : /\ task[<<j, s>>].pc = "reply"
                            /\ task[<<j, s>>].unit = u
                            /\ task[<<j, s>>].n = n

\* What one frame f of job j must satisfy.
InStep(f, k) ==
    /\ f.pc \in {"resume", "story", "loop", "reply"} => f.row.key = k
    /\ f.pc = "story" => k["story"] = NoKey
    /\ f.pc = "reply" => k[f.unit] = NoKey

Whole(j) == SoleTask(j) /\ \A u \in Units : Accounted(j, u)

\* A task that stops working or starts anew has nothing to be in step with; its
\* unanswered request must be among the lost ones.
LEMMA WholeQuiet ==
    ASSUME TypeOK, NEW j \in Jobs, Whole(j),
           job'[j].key = job[j].key, made'[j] = made[j],
           \A u \in Units : lost[j][u] \subseteq lost'[j][u],
           \A s \in Slots :
              \/ task'[<<j, s>>] = task[<<j, s>>]
              \/ /\ task'[<<j, s>>].pc \in {"idle", "exit", "error"}
                 /\ Working(<<j, s>>)' => Working(<<j, s>>)
                 /\ task[<<j, s>>].pc = "reply" =>
                       \/ task[<<j, s>>].n \in lost'[j][task[<<j, s>>].unit]
                       \/ task[<<j, s>>].n = MockKey
    PROVE  Whole(j)'
<1>1. \A s \in Slots : Working(<<j, s>>)' => Working(<<j, s>>)
  BY DEF Working
<1>2. \A s \in Slots : InStep(task[<<j, s>>], job[j].key)
  BY DEF Whole, SoleTask, InStep
<1>3. \A s \in Slots : InStep(task'[<<j, s>>], job'[j].key)
  BY <1>2 DEF InStep
<1>4. SoleTask(j)'
  BY <1>1, <1>3 DEF Whole, SoleTask, InStep
<1>5. ASSUME NEW u \in Units PROVE Accounted(j, u)'
  <2> SUFFICES ASSUME NEW n \in 1 .. made[j][u]
               PROVE \/ n = job'[j].key[u]
                     \/ n \in lost'[j][u]
                     \/ \E s \in Slots : /\ task'[<<j, s>>].pc = "reply"
                                         /\ task'[<<j, s>>].unit = u
                                         /\ task'[<<j, s>>].n = n
    BY DEF Accounted
  <2>1. n # MockKey
    BY DEF MockKey, TypeOK
  <2>2. CASE n = job[j].key[u] \/ n \in lost[j][u]
    BY <2>2
  <2>3. ASSUME NEW s \in Slots, task[<<j, s>>].pc = "reply", task[<<j, s>>].unit = u,
               task[<<j, s>>].n = n
        PROVE  n \in lost'[j][u] \/ task'[<<j, s>>] = task[<<j, s>>]
    BY <2>1, <2>3
  <2>4. ASSUME NEW s \in Slots, task[<<j, s>>].pc = "reply", task[<<j, s>>].unit = u,
               task[<<j, s>>].n = n
        PROVE  \/ n \in lost'[j][u]
               \/ \E x \in Slots : /\ task'[<<j, x>>].pc = "reply"
                                   /\ task'[<<j, x>>].unit = u
                                   /\ task'[<<j, x>>].n = n
    BY <2>3, <2>4
  <2>5. Accounted(j, u)
    BY DEF Whole
  <2>6. \/ n = job[j].key[u]
        \/ n \in lost[j][u]
        \/ \E s \in Slots : /\ task[<<j, s>>].pc = "reply"
                            /\ task[<<j, s>>].unit = u
                            /\ task[<<j, s>>].n = n
    BY <2>5 DEF Accounted
  <2>7. QED
    BY <2>2, <2>4, <2>6
<1>6. QED
  BY <1>4, <1>5 DEF Whole

\* A step of the one working task of a job, which goes on working.
LEMMA WholeMove ==
    ASSUME TypeOK, NEW j \in Jobs, Whole(j), NEW s \in Slots, Working(<<j, s>>),
           \A x \in Slots : x # s => task'[<<j, x>>] = task[<<j, x>>],
           InStep(task'[<<j, s>>], job'[j].key),
           \A u \in Units : Accounted(j, u)'
    PROVE  Whole(j)'
<1>1. \A x \in Slots : x # s => task[<<j, x>>].pc \in {"idle", "exit"}
  BY DEF Whole, SoleTask, Working
<1>2. \A x \in Slots : InStep(task'[<<j, x>>], job'[j].key)
  BY <1>1 DEF InStep
<1>3. \A x \in Slots : Working(<<j, x>>)' => x = s
  BY <1>1 DEF Working
<1>4. SoleTask(j)'
  BY <1>2, <1>3 DEF SoleTask, InStep
<1>5. QED
  BY <1>4 DEF Whole

\* A task is started for a job that none is working on.
LEMMA WholeStart ==
    ASSUME TypeOK, NEW j \in Jobs, Whole(j),
           job'[j].key = job[j].key, made'[j] = made[j], lost'[j] = lost[j],
           \A s \in Slots : ~Working(<<j, s>>),
           NEW x \in Slots,
           \A s \in Slots : \/ task'[<<j, s>>] = task[<<j, s>>]
                            \/ task'[<<j, s>>] = Idle
                            \/ s = x /\ task'[<<j, s>>] = Fresh
    PROVE  Whole(j)'
<1>1. \A s \in Slots : task[<<j, s>>].pc \in {"idle", "exit"}
  BY DEF Working
<1>2. \A s \in Slots : s # x => task'[<<j, s>>].pc \in {"idle", "exit"}
  BY <1>1 DEF Idle
<1>3. task'[<<j, x>>].pc \in {"idle", "exit", "start"}
  BY <1>1 DEF Idle, Fresh
<1>4. \A s \in Slots : task'[<<j, s>>].pc \in {"idle", "exit", "start"}
  BY <1>2, <1>3
<1>5. \A s \in Slots : Working(<<j, s>>)' => s = x
  BY <1>2 DEF Working
<1>6. SoleTask(j)'
  BY <1>4, <1>5 DEF SoleTask
<1>7. \A u \in Units : Accounted(j, u)'
  BY <1>1 DEF Whole, Accounted
<1>8. QED
  BY <1>6, <1>7 DEF Whole

\* A step that is not the answer to a request leaves the accounts as they are.
LEMMA AccountsKept ==
    ASSUME TypeOK, NEW j \in Jobs, Whole(j), NEW s \in Slots,
           task[<<j, s>>].pc # "reply",
           job'[j].key = job[j].key, made'[j] = made[j], lost'[j] = lost[j],
           \A x \in Slots : x # s => task'[<<j, x>>] = task[<<j, x>>]
    PROVE  \A u \in Units : Accounted(j, u)'
BY DEF Whole, Accounted

\* The steps of a task of the job itself.
LEMMA WholeTask ==
    ASSUME TypeOK, TypeOK', NEW t \in Tasks, Whole(t[1]),
           TaskStep(t) \/ RecoverFails(t)
    PROVE  /\ Whole(t[1])'
           /\ \A u \in Units : job[t[1]].key[u] # NoKey
                               => job'[t[1]].key[u] = job[t[1]].key[u]
<1> USE DEF mem, jira, db
<1> DEFINE j == t[1]
           s == t[2]
           Kept == \A u \in Units : job[j].key[u] # NoKey => job'[j].key[u] = job[j].key[u]
<1>1. /\ j \in Jobs /\ s \in Slots /\ t = <<j, s>>
      /\ job[j] \in Row /\ task[t] \in Frame /\ task'[t] \in Frame
      /\ "story" \in Units
  BY TaskParts DEF TypeOK, Units
<1>2. \A x \in Slots : x # s => task'[<<j, x>>] = task[<<j, x>>]
  <2>1. \A x \in Slots : <<j, x>> \in Tasks /\ (x # s => <<j, x>> # t)
    BY <1>1 DEF Tasks
  <2>2. QED
    BY <2>1, StepOfTask
<1>3. InStep(task[t], job[j].key)
  BY <1>1 DEF Whole, SoleTask, InStep
<1>4. Whole(j)
  OBVIOUS
<1> HIDE DEF j, s
<1>5. ASSUME job'[j].key = job[j].key, made'[j] = made[j],
             \A u \in Units : lost[j][u] \subseteq lost'[j][u],
             task'[t].pc \in {"idle", "exit", "error"},
             Working(t)' => Working(t),
             task[t].pc = "reply" => task[t].n \in lost'[j][task[t].unit]
      PROVE  Whole(j)' /\ Kept
  <2>1. \A x \in Slots :
           \/ task'[<<j, x>>] = task[<<j, x>>]
           \/ x = s /\ <<j, x>> = t
    BY <1>1, <1>2
  <2>2. Whole(j)'
    BY <1>1, <1>4, <1>5, <2>1, WholeQuiet
  <2>3. QED
    BY <1>5, <2>2
<1>6. ASSUME job'[j].key = job[j].key, made'[j] = made[j], lost'[j] = lost[j],
             task[t].pc # "reply", Working(t), InStep(task'[t], job[j].key)
      PROVE  Whole(j)' /\ Kept
  <2>1. \A u \in Units : Accounted(j, u)'
    BY <1>1, <1>2, <1>4, <1>6, AccountsKept
  <2>2. QED
    BY <1>1, <1>2, <1>4, <1>6, <2>1, WholeMove
<1>7. ASSUME Begin(t) PROVE Whole(j)' /\ Kept
  <2>1. job'[j].key = job[j].key /\ made' = made /\ lost' = lost /\ task[t].pc = "start"
    BY <1>1, <1>7, BeginParts DEF Begin
  <2>2. /\ task'[t].row.key = job[j].key
        /\ task'[t].pc # "reply"
        /\ task'[t].pc = "story" => job[j].key["story"] = NoKey
    BY <1>7, BeginParts DEF j
  <2>3. QED
    BY <1>6, <2>1, <2>2 DEF InStep, Working
<1>8. ASSUME Resume(t) PROVE Whole(j)' /\ Kept
  <2>1. task'[t].pc = "loop" /\ task'[t].row = task[t].row /\ task[t].pc = "resume"
    BY <1>1, <1>8 DEF Resume, Frame, TypeOK
  <2>2. QED
    BY <1>3, <1>6, <1>8, <2>1 DEF InStep, Working, Resume
<1>9. ASSUME Refresh(t) PROVE Whole(j)' /\ Kept
  <2>1. task'[t].pc = "loop" /\ task'[t].row = job[j] /\ task[t].pc = "refresh"
    BY <1>1, <1>9 DEF Refresh, Frame, TypeOK, j
  <2>2. QED
    BY <1>6, <1>9, <2>1 DEF InStep, Working, Refresh
<1>10. ASSUME NEW u, task' = [task EXCEPT ![t].todo = @ \ {u}], task[t].pc = "loop",
              UNCHANGED <<job, made, lost>>
       PROVE  Whole(j)' /\ Kept
  <2>1. task'[t].pc = "loop" /\ task'[t].row = task[t].row
    BY <1>1, <1>10 DEF Frame, TypeOK
  <2>2. QED
    BY <1>3, <1>6, <1>10, <2>1 DEF InStep, Working
<1>11. ASSUME NEW pc \in {"exit", "error"}, Leave(t, pc), Working(t), task[t].pc # "reply",
              job'[j].key = job[j].key, UNCHANGED <<made, lost>>
       PROVE  Whole(j)' /\ Kept
  <2>1. task'[t].pc = pc
    BY <1>1, <1>11 DEF Leave, TypeOK, Idle
  <2>2. QED
    BY <1>5, <1>11, <2>1
<1>12. ASSUME Complete(t) PROVE Whole(j)' /\ Kept
  BY <1>1, <1>11, <1>12 DEF Complete, Row, TypeOK, Working, j
<1>13. ASSUME Recover(t) PROVE Whole(j)' /\ Kept
  BY <1>1, <1>11, <1>13 DEF Recover, Row, TypeOK, Working, j
<1>14. ASSUME RecoverFails(t) PROVE Whole(j)' /\ Kept
  BY <1>11, <1>14 DEF RecoverFails, Working
<1>15. ASSUME JiraFails(t) PROVE Whole(j)' /\ Kept
  BY <1>11, <1>15 DEF JiraFails, Creates, Acts, Working
<1>16. ASSUME Exit(t) PROVE Whole(j)' /\ Kept
  <2>1. task'[t].pc = "idle" /\ task[t].pc = "exit"
    BY <1>1, <1>16 DEF Exit, TypeOK, Idle
  <2>2. ~Working(t)'
    BY <2>1 DEF Working
  <2>3. QED
    BY <1>5, <1>16, <2>1, <2>2 DEF Exit
<1>17. ASSUME ReplyLost(t) PROVE Whole(j)' /\ Kept
  <2>1. task'[t].pc = "error" /\ Working(t)
    BY <1>1, <1>17 DEF ReplyLost, Leave, Working, Idle, TypeOK
  <2>2. lost' = [lost EXCEPT ![j][task[t].unit] = @ \cup {task[t].n}]
    BY <1>17 DEF ReplyLost, j
  <2>3. lost[j] \in [Units -> SUBSET Nat] /\ task[t].unit \in Units
    BY <1>1 DEF TypeOK, Frame
  <2>4. /\ task[t].n \in lost'[j][task[t].unit]
        /\ \A u \in Units : lost[j][u] \subseteq lost'[j][u]
    BY <1>1, <2>2, <2>3 DEF TypeOK
  <2>5. QED
    BY <1>5, <1>17, <2>1, <2>4 DEF ReplyLost
<1>18. ASSUME NEW x \in Resources, Act(t, x) PROVE Whole(j)' /\ Kept
  BY <1>10, <1>11, <1>18 DEF Act, Acts, Working
<1>19. ASSUME NEW u \in Units, Skip(t, u) PROVE Whole(j)' /\ Kept
  BY <1>10, <1>19 DEF Skip
<1>20. ASSUME NEW u \in Units, CallJira(t, u) PROVE Whole(j)' /\ Kept
  <2> DEFINE new == [task[t] EXCEPT !.pc = "reply", !.unit = u, !.n = NewKey(t, u),
                                    !.todo = task[t].todo \ {u}]
  <2>1. job' = job /\ lost' = lost /\ task' = [task EXCEPT ![t] = new]
    BY <1>20 DEF CallJira
  <2>2. /\ new.pc = "reply" /\ new.unit = u /\ new.n = NewKey(t, u)
        /\ new.row = task[t].row
    BY <1>1 DEF Frame
  <2> HIDE DEF new
  <2>3. task'[t] = new
    BY <1>1, <2>1 DEF TypeOK
  <2>4. task[t].pc \in {"story", "loop"} /\ job[j].key[u] = NoKey
    BY <1>3, <1>20 DEF CallJira, Creates, InStep
  <2>5. InStep(task'[t], job'[j].key)
    BY <1>3, <2>1, <2>2, <2>3, <2>4 DEF InStep
  <2>6. /\ \A v \in Units : v # u => made'[j][v] = made[j][v]
        /\ made'[j][u] = made[j][u] \/ (/\ made'[j][u] = made[j][u] + 1
                                        /\ NewKey(t, u) = made[j][u] + 1)
        /\ made[j][u] \in Nat
    BY <1>1, <1>20 DEF CallJira, NewKey, TypeOK, j
  <2>7. ASSUME NEW v \in Units PROVE Accounted(j, v)'
    <3> SUFFICES ASSUME NEW n \in 1 .. made'[j][v]
                 PROVE \/ n = job'[j].key[v]
                       \/ n \in lost'[j][v]
                       \/ \E x \in Slots : /\ task'[<<j, x>>].pc = "reply"
                                           /\ task'[<<j, x>>].unit = v
                                           /\ task'[<<j, x>>].n = n
      BY DEF Accounted
    <3>1. CASE n \in 1 .. made[j][v]
      <4>1. ASSUME NEW x \in Slots, task[<<j, x>>].pc = "reply"
            PROVE  task'[<<j, x>>] = task[<<j, x>>]
        BY <1>1, <1>2, <2>4, <4>1
      <4>2. QED
        BY <1>4, <2>1, <3>1, <4>1 DEF Whole, Accounted
    <3>2. CASE n \notin 1 .. made[j][v]
      <4>1. v = u /\ n = NewKey(t, u)
        BY <2>6, <3>2
      <4>2. QED
        BY <1>1, <2>2, <2>3, <4>1
    <3>3. QED
      BY <3>1, <3>2
  <2>8. Working(t)
    BY <2>4 DEF Working
  <2>9. Whole(j)'
    BY <1>1, <1>2, <1>4, <2>5, <2>7, <2>8, WholeMove
  <2>10. QED
    BY <2>1, <2>9
<1>21. ASSUME Record(t) PROVE Whole(j)' /\ Kept
  <2> DEFINE u == task[t].unit
  <2>1. /\ task[t].pc = "reply" /\ u \in Units /\ made' = made /\ lost' = lost
        /\ task[t].row \in Row /\ task[t].row.key = job[j].key /\ job[j].key[u] = NoKey
    BY <1>1, <1>3, <1>21 DEF Record, Frame, InStep
  <2>2. \A v \in Units : job'[j].key[v] = IF v = u THEN task[t].n ELSE job[j].key[v]
    <3>1. CASE u = "story"
      BY <1>1, <1>21, <2>1, <3>1 DEF Record, Row, TypeOK, j
    <3>2. CASE u # "story"
      BY <1>1, <1>21, <2>1, <3>2 DEF Record, Row, TypeOK, j
    <3>3. QED
      BY <3>1, <3>2
  <2>3. task'[t].pc = "refresh"
    BY <1>1, <1>21 DEF Record, TypeOK, Idle
  <2>4. Working(t) /\ InStep(task'[t], job'[j].key)
    BY <2>1, <2>3 DEF Working, InStep
  <2>5. \A x \in Slots : task[<<j, x>>].pc = "reply" => x = s
    BY <1>1, <1>4, <2>4 DEF Whole, SoleTask, Working
  <2>6. ASSUME NEW v \in Units PROVE Accounted(j, v)'
    <3> SUFFICES ASSUME NEW n \in 1 .. made[j][v]
                 PROVE n = job'[j].key[v] \/ n \in lost[j][v]
      BY <2>1 DEF Accounted
    <3>1. n # NoKey
      BY DEF NoKey, TypeOK
    <3>2. CASE n = job[j].key[v]
      BY <2>1, <2>2, <3>1, <3>2
    <3>3. ASSUME NEW x \in Slots, task[<<j, x>>].pc = "reply", task[<<j, x>>].unit = v,
                 task[<<j, x>>].n = n
          PROVE  n = job'[j].key[v]
      BY <1>1, <2>2, <2>5, <3>3
    <3>4. Accounted(j, v)
      BY <1>4 DEF Whole
    <3>5. \/ n = job[j].key[v]
          \/ n \in lost[j][v]
          \/ \E x \in Slots : /\ task[<<j, x>>].pc = "reply"
                              /\ task[<<j, x>>].unit = v
                              /\ task[<<j, x>>].n = n
      BY <3>4 DEF Accounted
    <3>6. QED
      BY <3>2, <3>3, <3>5
  <2>7. Whole(j)'
    BY <1>1, <1>2, <1>4, <2>4, <2>6, WholeMove
  <2>8. QED
    BY <2>1, <2>2, <2>7
<1>22. QED
  BY <1>7, <1>8, <1>9, <1>12, <1>13, <1>14, <1>15, <1>16, <1>17, <1>18, <1>19, <1>20, <1>21
  DEF TaskStep, j

\* Each action keeps the accounts of a job that no two tasks have shared, and
\* the keys its row records.
LEMMA WholeStep ==
    ASSUME TypeOK, TypeOK', Requested, NEW j \in Jobs,
           j \notin overlap => Whole(j), j \notin overlap', [Next]_vars
    PROVE  /\ Whole(j)'
           /\ \A u \in Units : job[j].key[u] # NoKey => job'[j].key[u] = job[j].key[u]
<1> USE DEF mem, jira, db
<1> DEFINE Goal == /\ Whole(j)'
                   /\ \A u \in Units : job[j].key[u] # NoKey => job'[j].key[u] = job[j].key[u]
<1>1. /\ job[j] \in Row
      /\ \A s \in Slots : <<j, s>> \in Tasks
      /\ \A u \in Units : lost[j][u] \subseteq Nat
  BY DEF TypeOK, Tasks
<1>2. ASSUME j \notin overlap, job'[j].key = job[j].key, made'[j] = made[j], lost'[j] = lost[j],
             \A s \in Slots : task'[<<j, s>>] = task[<<j, s>>]
      PROVE  Goal
  BY <1>2, WholeQuiet
<1>3. ASSUME NEW v \in Pods, NEW i \in Jobs, Create(v, i) PROVE Goal
  <2>1. job'[j].key = job[j].key
    BY <1>1, <1>3 DEF Create, TypeOK, NewRow, Requested
  <2>2. QED
    BY <1>2, <1>3, <2>1 DEF Create
<1>4. ASSUME NEW v \in Pods, NEW p \in Projects, Retry(v, p) PROVE Goal
  <2>1. job'[j].key = job[j].key
    BY <1>1, <1>4 DEF Retry, TypeOK, Row
  <2>2. QED
    BY <1>2, <1>4, <2>1 DEF Retry
<1>5. CASE Request
  BY ConstantsOK, <1>2, <1>3, <1>4, <1>5 DEF Request, ResetProject, SyncWithoutJob, EditScope
<1>6. ASSUME NEW v \in Pods, NEW i \in Jobs, Spawn(v, i), UNCHANGED <<job, made, lost>> PROVE Goal
  <2>1. overlap \subseteq overlap'
    BY <1>6 DEF Spawn
  <2>2. CASE i # j
    <3>1. \A s \in Slots : task'[<<j, s>>] = task[<<j, s>>]
      BY <1>1, <1>6, <2>2 DEF Spawn, TypeOK
    <3>2. QED
      BY <1>2, <1>6, <2>1, <3>1
  <2>3. CASE i = j
    <3>1. PICK x \in Slots : task' = [task EXCEPT ![<<j, x>>] = Fresh]
      BY <1>6, <2>3 DEF Spawn
    <3>2. \A s \in Slots : ~Working(<<j, s>>)
      BY <1>6, <2>3 DEF Spawn
    <3>3. \A s \in Slots : \/ task'[<<j, s>>] = task[<<j, s>>]
                           \/ s = x /\ task'[<<j, s>>] = Fresh
      BY <1>1, <3>1 DEF TypeOK
    <3>4. Whole(j)'
      BY <1>6, <2>1, <3>2, <3>3, WholeStart
    <3>5. QED
      BY <1>6, <3>4
  <2>4. QED
    BY <2>2, <2>3
<1>7. ASSUME NEW t \in Tasks, TaskStep(t) \/ RecoverFails(t) PROVE Goal
  <2>1. overlap' = overlap
    BY <1>7, StepOfTask
  <2>2. CASE t[1] = j
    BY <1>7, <2>1, <2>2, WholeTask
  <2>3. CASE t[1] # j
    <3>1. \A s \in Slots : <<j, s>> # t
      BY <2>3
    <3>2. /\ job'[j] = job[j] /\ made'[j] = made[j] /\ lost'[j] = lost[j]
          /\ \A s \in Slots : task'[<<j, s>>] = task[<<j, s>>]
      BY <1>1, <1>7, <2>3, <3>1, StepOfTask
    <3>3. QED
      BY <1>2, <2>1, <3>2
  <2>4. QED
    BY <2>2, <2>3
<1>8. ASSUME NEW v \in Pods, SweepStep(v) PROVE Goal
  <2>1. ASSUME NEW i \in Jobs, SweepSpawn(v, i) PROVE Goal
    BY <1>6, <2>1 DEF SweepSpawn
  <2>2. CASE SweepRead(v) \/ SweepCheck(v)
    BY <1>2, <2>2 DEF SweepRead, SweepCheck
  <2>3. QED
    BY <1>8, <2>1, <2>2 DEF SweepStep
<1>9. ASSUME NEW v \in Pods, Crash(v) PROVE Goal
  <2>1. /\ job' = job /\ made' = made /\ overlap' = overlap
        /\ \A s \in Slots : task'[<<j, s>>] = IF Home[s] = v THEN Idle ELSE task[<<j, s>>]
        /\ \A u \in Units : lost[j][u] \subseteq lost'[j][u]
    BY <1>1, <1>9 DEF Crash, PodOf
  <2>2. ASSUME NEW s \in Slots, Home[s] = v, task[<<j, s>>].pc = "reply"
        PROVE  \/ task[<<j, s>>].n \in lost'[j][task[<<j, s>>].unit]
               \/ task[<<j, s>>].n = MockKey
    <3>1. task[<<j, s>>].unit \in Units
      BY <1>1 DEF TypeOK, Frame
    <3>2. QED
      BY <1>9, <2>2, <3>1 DEF Crash
  <2>3. \A s \in Slots : Home[s] = v => ~Working(<<j, s>>)' /\ task'[<<j, s>>].pc = "idle"
    BY <2>1 DEF Working, Idle
  <2>4. Whole(j)'
    BY <2>1, <2>2, <2>3, WholeQuiet
  <2>5. QED
    BY <2>1, <2>4
<1>10. ASSUME NEW v \in Pods, ResetStale(v) PROVE Goal
  <2>1. overlap' = overlap \cup {i \in sweep[v].cur : \E s \in Slots : Working(<<i, s>>)}
    BY <1>10 DEF ResetStale
  <2>2. job'[j].key = job[j].key
    BY <1>1, <1>10 DEF ResetStale, Row
  <2>3. PICK x \in Slots :
           task' = [t \in Tasks |->
              IF t[2] = x /\ t[1] \in sweep[v].cur THEN Fresh ELSE task[t]]
    BY <1>10 DEF ResetStale
  <2>4. made' = made /\ lost' = lost
    BY <1>10 DEF ResetStale
  <2>5. CASE j \in sweep[v].cur
    <3>1. \A s \in Slots : ~Working(<<j, s>>)
      BY <2>1, <2>5
    <3>2. \A s \in Slots : \/ task'[<<j, s>>] = task[<<j, s>>]
                           \/ s = x /\ task'[<<j, s>>] = Fresh
      BY <1>1, <2>3
    <3>3. Whole(j)'
      BY <2>1, <2>2, <2>4, <3>1, <3>2, WholeStart
    <3>4. QED
      BY <2>2, <3>3
  <2>6. CASE j \notin sweep[v].cur
    BY <1>1, <1>2, <2>1, <2>2, <2>3, <2>4, <2>6
  <2>7. QED
    BY <2>5, <2>6
<1>11. ASSUME NEW v \in Pods, Started(v) \/ Restart(v) \/ SweepFault(v) PROVE Goal
  BY <1>2, <1>11 DEF Started, Restart, SweepFault
<1>12. ASSUME NEW v \in Pods, NEW i \in Jobs, Claim(v, i) PROVE Goal
  BY <1>6, <1>12 DEF Claim
<1>13. CASE UNCHANGED vars
  BY <1>2, <1>13 DEF vars
<1>14. QED
  BY <1>5, <1>7, <1>8, <1>9, <1>10, <1>11, <1>12, <1>13 DEF Next, StartUp, Fault

\* The inductive invariant of both theorems.
Ind == TypeOK /\ Asleep /\ Requested /\ \A j \in Jobs \ overlap : Whole(j)

\* It holds at first.
LEMMA IndInit == Init => Ind
<1> SUFFICES ASSUME Init PROVE Ind
  OBVIOUS
<1>1. TypeOK
  BY InitType
<1>2. \A j \in Jobs, s \in Slots : task[<<j, s>>] = Idle
  BY DEF Init, Tasks
<1>3. \A j \in Jobs : SoleTask(j)
  BY <1>2 DEF SoleTask, Working, Idle
<1>4. \A j \in Jobs, u \in Units : Accounted(j, u)
  BY DEF Init, Accounted
<1>5. Asleep
  BY AsleepInit
<1>6. Requested
  <2>1. \A j \in Jobs : job[j].key = NoKeys
    BY DEF Init, NewRow
  <2>2. \A v \in Pods : claim[v] = {} /\ sweep[v].todo = {} /\ sweep[v].cur = {}
    BY DEF Init, NoSweep
  <2>3. QED
    BY <1>2, <2>1, <2>2 DEF Requested, Idle
<1>7. QED
  BY <1>1, <1>3, <1>4, <1>5, <1>6 DEF Ind, Whole

\* It is kept by every step.
LEMMA IndStep == Ind /\ [Next]_vars => Ind'
<1> SUFFICES ASSUME Ind, [Next]_vars PROVE Ind'
  OBVIOUS
<1>1. TypeOK /\ TypeOK' /\ Asleep /\ Asleep' /\ Requested /\ Requested'
  BY TypeStep, AsleepStep, RequestedStep DEF Ind
<1>2. ASSUME NEW j \in Jobs, j \notin overlap' PROVE Whole(j)'
  BY <1>1, <1>2, WholeStep DEF Ind
<1>3. QED
  BY <1>1, <1>2 DEF Ind

\* jira_service.py, _complete_job: an issue made for a job that no two tasks worked
\* on at once is on record, about to be, or its reply was lost, through every
\* failure, retry, reset, crash and restart.
THEOREM NothingForgotten == Spec => []NoOrphanIssue
<1>1. Ind => NoOrphanIssue
  BY DEF Ind, Whole, Accounted, NoOrphanIssue
<1>2. QED
  BY <1>1, IndInit, IndStep, PTL DEF Spec

\* jira_service.py:573-583: the key of a checkpoint, once committed, stays.
THEOREM CheckpointsAreKept == Spec => CheckpointsKept
<1>1. Ind /\ [Next]_vars =>
        [\A j \in Jobs \ overlap', u \in Units :
            job[j].key[u] # NoKey => job'[j].key[u] = job[j].key[u]]_vars
  <2> SUFFICES ASSUME Ind, [Next]_vars, NEW j \in Jobs, j \notin overlap', NEW u \in Units
               PROVE  job[j].key[u] # NoKey => job'[j].key[u] = job[j].key[u]
    OBVIOUS
  <2>1. TypeOK /\ TypeOK' /\ Asleep /\ Requested /\ (j \notin overlap => Whole(j))
    BY TypeStep DEF Ind
  <2>2. QED
    BY <2>1, WholeStep
<1>2. QED
  BY <1>1, IndInit, IndStep, PTL DEF Spec, CheckpointsKept

-----------------------------------------------------------------------------
(* What a step does to one job.                                              *)

\* The frame of t after a step.
Becomes(t, pc, row, todo, has) ==
    /\ task'[t].pc = pc /\ task'[t].row = row
    /\ task'[t].todo = todo /\ task'[t].hasStory = has

SameRow(j) == job'[j].key = job[j].key /\ job'[j].sel = job[j].sel

\* A step that is no task's work: the row may be queued again or failed, and the
\* tasks are left alone, die, or start.
Calm(j) ==
    /\ SameRow(j)
    /\ \/ job'[j].status = job[j].status
       \/ job[j].status # "absent" /\ job'[j].status \in {"pending", "failed"}
    /\ \A s \in Slots : \/ task'[<<j, s>>] = task[<<j, s>>]
                        \/ task'[<<j, s>>] \in {Idle, Fresh}

\* A request inserts the row.
Inserted(j) ==
    /\ job[j].status = "absent" /\ job'[j].status = "pending"
    /\ job'[j].key = job[j].key
    /\ \A s \in Slots : task'[<<j, s>>] = task[<<j, s>>] /\ task[<<j, s>>].pc = "idle"

\* The actions of a task, by what they do to its frame and its job.
Begins(t) ==
    /\ task[t].pc = "start"
    /\ SameRow(t[1]) /\ job'[t[1]].status = "processing"
    /\ task'[t].row.key = job[t[1]].key /\ task'[t].row.status = "processing"
    /\ task'[t].pc \in {"loop", "story", "resume"}
    /\ ~Migrates(t[1]) => task'[t].pc = "loop"
    /\ Migrates(t[1]) => task'[t].pc \in {"story", "resume"}
    /\ task'[t].hasStory = (project[Proj(t)].story # NoRef)
    /\ task'[t].todo = Todo(t[1], task'[t].hasStory)

Resumes(t) ==
    /\ task[t].pc = "resume"
    /\ Becomes(t, "loop", task[t].row, task[t].todo, TRUE)

Skips(t, u) ==
    /\ task[t].pc = "loop" /\ u \in task[t].todo /\ task[t].row.key[u] # NoKey
    /\ Migrates(t[1]) \/ u = "cr"
    /\ Becomes(t, "loop", task[t].row, task[t].todo \ {u}, task[t].hasStory)

Calls(t, u) ==
    /\ Creates(t, u)
    /\ Becomes(t, "reply", task[t].row, task[t].todo \ {u}, task[t].hasStory)
    /\ task'[t].unit = u /\ task'[t].n = NewKey(t, u)

Refreshes(t) ==
    /\ task[t].pc = "refresh"
    /\ Becomes(t, "loop", job[t[1]], task[t].todo, task[t].hasStory)

ActsOn(t, r) ==
    /\ Acts(t, r)
    /\ Kind(t) = "sync-complete" \/ r \in acted'[t[1]]
    /\ Becomes(t, "loop", task[t].row, task[t].todo \ {r}, task[t].hasStory)

Records(t) ==
    LET u == task[t].unit  j == t[1] IN
    /\ task[t].pc = "reply"
    /\ job'[j].status = job[j].status /\ job'[j].sel = job[j].sel
    /\ job'[j].key = IF u = "story" THEN [job[j].key EXCEPT !["story"] = task[t].n]
                     ELSE [task[t].row.key EXCEPT !["story"] = job[j].key["story"],
                                                  ![u] = task[t].n]
    /\ Becomes(t, "refresh", NewRow, task[t].todo, task[t].hasStory \/ u = "story")

Completes(t) ==
    /\ task[t].pc = "loop" /\ task[t].todo = {}
    /\ SameRow(t[1])
    /\ job'[t[1]].status = IF task[t].row.status = "completed" THEN job[t[1]].status
                           ELSE "completed"
    /\ Becomes(t, "exit", NewRow, {}, FALSE)

\* Out of the handler by an exception, and what becomes of it.
Fails(t) ==
    /\ task[t].pc \in {"story", "loop", "reply"}
    /\ Becomes(t, "error", NewRow, {}, FALSE)

Recovers(t) ==
    /\ task[t].pc = "error"
    /\ SameRow(t[1])
    /\ \/ job'[t[1]].status = "failed"
       \/ job'[t[1]].status = job[t[1]].status /\ spent'["fault"] # 0
    /\ Becomes(t, "exit", NewRow, {}, FALSE)

Exits(t) ==
    /\ task[t].pc = "exit"
    /\ Becomes(t, "idle", NewRow, {}, FALSE)

\* An action of a task is one of these.
LEMMA StepKinds ==
    ASSUME TypeOK, NEW t \in Tasks, TaskStep(t) \/ RecoverFails(t)
    PROVE  \/ Begins(t) \/ Records(t) \/ Completes(t) \/ Recovers(t)
           \/ /\ job' = job
              /\ \/ Resumes(t) \/ Refreshes(t) \/ Fails(t) \/ Exits(t)
                 \/ \E u \in Units : Skips(t, u) \/ Calls(t, u)
                 \/ \E r \in Resources : ActsOn(t, r)
<1> USE DEF mem, jira, db
<1>1. /\ task[t] \in Frame /\ t[1] \in Jobs /\ job[t[1]] \in Row /\ Proj(t) \in Projects
      /\ \A i \in Jobs : job[i] \in Row
  BY TaskParts DEF TypeOK
<1>2. ASSUME NEW pc \in Phases, Leave(t, pc) PROVE Becomes(t, pc, NewRow, {}, FALSE)
  BY <1>2 DEF Leave, Becomes, TypeOK, Idle
<1>3. ASSUME NEW u, task' = [task EXCEPT ![t].todo = @ \ {u}], task[t].pc = "loop"
      PROVE  Becomes(t, "loop", task[t].row, task[t].todo \ {u}, task[t].hasStory)
  BY <1>1, <1>3 DEF Becomes, TypeOK, Frame
<1>4. CASE Begin(t)
  <2> DEFINE row == [job[t[1]] EXCEPT !.status = "processing"]
             has == project[Proj(t)].story # NoRef
             pc  == IF ~Migrates(t[1]) THEN "loop"
                    ELSE IF row.key["story"] = NoKey THEN "story" ELSE "resume"
             new == [task[t] EXCEPT !.pc = pc, !.row = row, !.hasStory = has,
                                    !.todo = Todo(t[1], has)]
  <2>1. task' = [task EXCEPT ![t] = new] /\ job' = [job EXCEPT ![t[1]] = row]
        /\ task[t].pc = "start"
    BY <1>4 DEF Begin
  <2>2. row.key = job[t[1]].key /\ row.sel = job[t[1]].sel /\ row.status = "processing"
    BY <1>1 DEF Row
  <2> HIDE DEF row, has
  <2>3. /\ pc \in {"loop", "story", "resume"}
        /\ ~Migrates(t[1]) => pc = "loop"
        /\ Migrates(t[1]) => pc \in {"story", "resume"}
    OBVIOUS
  <2> HIDE DEF pc
  <2>4. new.pc = pc /\ new.row = row /\ new.hasStory = has /\ new.todo = Todo(t[1], has)
    BY <1>1 DEF Frame
  <2> HIDE DEF new
  <2>5. task'[t] = new /\ job'[t[1]] = row
    BY <1>1, <2>1 DEF TypeOK
  <2>6. has = (project[Proj(t)].story # NoRef)
    BY DEF has
  <2>7. QED
    BY <2>1, <2>2, <2>3, <2>4, <2>5, <2>6 DEF Begins, SameRow
<1>5. CASE Resume(t)
  <2>1. Becomes(t, "loop", task[t].row, task[t].todo, TRUE)
    BY <1>1, <1>5 DEF Resume, Becomes, TypeOK, Frame
  <2>2. QED
    BY <1>5, <2>1 DEF Resume, Resumes
<1>6. CASE Refresh(t)
  <2>1. Becomes(t, "loop", job[t[1]], task[t].todo, task[t].hasStory)
    BY <1>1, <1>6 DEF Refresh, Becomes, TypeOK, Frame
  <2>2. QED
    BY <1>6, <2>1 DEF Refresh, Refreshes
<1>7. ASSUME NEW u \in Units, Skip(t, u) PROVE Skips(t, u) /\ job' = job
  BY <1>3, <1>7 DEF Skip, Skips
<1>8. ASSUME NEW u \in Units, CallJira(t, u) PROVE Calls(t, u) /\ job' = job
  <2> DEFINE new == [task[t] EXCEPT !.pc = "reply", !.unit = u, !.n = NewKey(t, u),
                                    !.todo = task[t].todo \ {u}]
  <2>1. task' = [task EXCEPT ![t] = new] /\ Creates(t, u) /\ job' = job
    BY <1>8 DEF CallJira
  <2>2. /\ new.pc = "reply" /\ new.unit = u /\ new.n = NewKey(t, u) /\ new.row = task[t].row
        /\ new.todo = task[t].todo \ {u} /\ new.hasStory = task[t].hasStory
    BY <1>1 DEF Frame
  <2> HIDE DEF new
  <2>3. task'[t] = new
    BY <2>1 DEF TypeOK
  <2>4. QED
    BY <2>1, <2>2, <2>3 DEF Calls, Becomes
<1>9. ASSUME NEW r \in Resources, Act(t, r) PROVE (ActsOn(t, r) \/ Fails(t)) /\ job' = job
  <2>1. Kind(t) = "sync-complete" \/ r \in acted'[t[1]]
    BY <1>1, <1>9 DEF Act, TypeOK
  <2>2. Acts(t, r) /\ task[t].pc = "loop" /\ job' = job
    BY <1>9 DEF Act, Acts
  <2>3. task' = [task EXCEPT ![t].todo = @ \ {r}] \/ Leave(t, "error")
    BY <1>9 DEF Act
  <2>4. "error" \in Phases
    BY DEF Phases
  <2>5. QED
    BY <1>2, <1>3, <2>1, <2>2, <2>3, <2>4 DEF ActsOn, Fails
<1>10. CASE Record(t)
  <2> DEFINE u == task[t].unit
             new == [Idle EXCEPT !.pc = "refresh", !.todo = task[t].todo,
                                 !.hasStory = task[t].hasStory \/ u = "story"]
             key == IF u = "story" THEN [job[t[1]].key EXCEPT !["story"] = task[t].n]
                    ELSE [task[t].row.key EXCEPT !["story"] = job[t[1]].key["story"],
                                                 ![u] = task[t].n]
  <2>1. /\ task' = [task EXCEPT ![t] = new]
        /\ job' = [job EXCEPT ![t[1]].key =
                     IF u = "story" THEN [@ EXCEPT !["story"] = task[t].n]
                     ELSE [task[t].row.key EXCEPT !["story"] = job[t[1]].key["story"],
                                                  ![u] = task[t].n]]
        /\ task[t].pc = "reply"
    BY <1>10 DEF Record
  <2>2. /\ new.pc = "refresh" /\ new.row = NewRow /\ new.todo = task[t].todo
        /\ new.hasStory = (task[t].hasStory \/ u = "story")
    BY DEF Idle
  <2> HIDE DEF new
  <2>3. task'[t] = new
    BY <2>1 DEF TypeOK
  <2>4. job' = [job EXCEPT ![t[1]].key = key]
    BY <2>1
  <2> HIDE DEF key
  <2>5. /\ job'[t[1]].key = key /\ job'[t[1]].sel = job[t[1]].sel
        /\ job'[t[1]].status = job[t[1]].status
    BY <1>1, <2>4 DEF TypeOK, Row
  <2>6. QED
    BY <2>1, <2>2, <2>3, <2>5 DEF Records, Becomes, key
<1>11. CASE Complete(t)
  <2>1. Becomes(t, "exit", NewRow, {}, FALSE)
    BY <1>2, <1>11 DEF Complete, Phases
  <2>2. /\ SameRow(t[1])
        /\ job'[t[1]].status = IF task[t].row.status = "completed" THEN job[t[1]].status
                               ELSE "completed"
    BY <1>1, <1>11 DEF Complete, SameRow, TypeOK, Row
  <2>3. QED
    BY <1>11, <2>1, <2>2 DEF Completes, Complete
<1>12. CASE JiraFails(t)
  BY <1>2, <1>12 DEF JiraFails, Creates, Acts, Fails, Phases
<1>13. CASE ReplyLost(t)
  BY <1>2, <1>13 DEF ReplyLost, Fails, Phases
<1>14. CASE Recover(t)
  <2>1. Becomes(t, "exit", NewRow, {}, FALSE)
    BY <1>2, <1>14 DEF Recover, Phases
  <2>2. SameRow(t[1]) /\ job'[t[1]].status = "failed"
    BY <1>1, <1>14 DEF Recover, SameRow, TypeOK, Row
  <2>3. QED
    BY <1>14, <2>1, <2>2 DEF Recovers, Recover
<1>15. CASE RecoverFails(t)
  <2>1. spent'["fault"] # 0
    BY <1>15 DEF RecoverFails, Occurs, TypeOK, Events
  <2>2. Becomes(t, "exit", NewRow, {}, FALSE)
    BY <1>2, <1>15 DEF RecoverFails, Phases
  <2>3. QED
    BY <1>15, <2>1, <2>2 DEF RecoverFails, Recovers, SameRow
<1>16. CASE Exit(t)
  <2>1. Becomes(t, "idle", NewRow, {}, FALSE)
    BY <1>16 DEF Exit, Becomes, TypeOK, Idle
  <2>2. QED
    BY <1>16, <2>1 DEF Exit, Exits
<1>17. QED
  BY <1>4, <1>5, <1>6, <1>7, <1>8, <1>9, <1>10, <1>11, <1>12, <1>13, <1>14, <1>15, <1>16
  DEF TaskStep

\* Any other step leaves each job calm, or inserts it.
LEMMA StepOfJob ==
    ASSUME TypeOK, Asleep, Requested, NEW j \in Jobs, [Next]_vars
    PROVE  \/ Calm(j) \/ Inserted(j)
           \/ \E t \in Tasks : t[1] = j /\ (TaskStep(t) \/ RecoverFails(t))
<1> USE DEF mem, jira, db
<1>1. /\ job[j] \in Row
      /\ \A s \in Slots : <<j, s>> \in Tasks
  BY DEF TypeOK, Tasks
<1> DEFINE Unmoved == \A s \in Slots : task'[<<j, s>>] = task[<<j, s>>]
<1>2. ASSUME job'[j] = job[j], Unmoved PROVE Calm(j)
  BY <1>2 DEF Calm, SameRow
<1>3. ASSUME NEW v \in Pods, NEW i \in Jobs, Create(v, i) PROVE Calm(j) \/ Inserted(j)
  <2>1. CASE i = j
    <3>1. PICK sel \in Selections(j) :
             job' = [job EXCEPT ![j] = [NewRow EXCEPT !.status = "pending", !.sel = sel]]
      BY <1>3, <2>1 DEF Create
    <3>2. job'[j].status = "pending" /\ job'[j].key = NoKeys
      BY <3>1 DEF TypeOK, NewRow
    <3>3. job[j].status = "absent" /\ task' = task
      BY <1>3, <2>1 DEF Create
    <3>4. QED
      BY <3>2, <3>3 DEF Requested, Inserted
  <2>2. CASE i # j
    BY <1>2, <1>3, <2>2 DEF Create, TypeOK
  <2>3. QED
    BY <2>1, <2>2
<1>4. ASSUME NEW v \in Pods, NEW p \in Projects, Retry(v, p) PROVE Calm(j)
  <2>1. PICK i \in Retryable(p) : job' = [job EXCEPT ![i].status = "pending"]
    BY <1>4 DEF Retry
  <2>2. CASE i = j
    <3>1. job[j].status \in {"failed", "pending"}
      BY <2>1, <2>2 DEF Retryable
    <3>2. QED
      BY <1>1, <1>4, <2>1, <2>2, <3>1 DEF Retry, Calm, SameRow, Row, TypeOK
  <2>3. CASE i # j
    BY <1>2, <1>4, <2>1, <2>3 DEF Retry, TypeOK
  <2>4. QED
    BY <2>2, <2>3
<1>5. CASE Request
  BY ConstantsOK, <1>2, <1>3, <1>4, <1>5 DEF Request, ResetProject, SyncWithoutJob, EditScope
<1>6. ASSUME NEW v \in Pods, NEW i \in Jobs, Spawn(v, i), job' = job PROVE Calm(j)
  <2>1. PICK x \in Slots : task' = [task EXCEPT ![<<i, x>>] = Fresh]
    BY <1>6 DEF Spawn
  <2>2. \A s \in Slots : task'[<<j, s>>] \in {task[<<j, s>>], Fresh}
    BY <1>1, <2>1 DEF TypeOK
  <2>3. QED
    BY <1>6, <2>2 DEF Calm, SameRow
<1>7. ASSUME NEW t \in Tasks, TaskStep(t) \/ RecoverFails(t), t[1] # j PROVE Calm(j)
  <2>1. \A s \in Slots : <<j, s>> # t
    BY <1>7
  <2>2. QED
    BY <1>1, <1>2, <1>7, <2>1, StepOfTask
<1>8. ASSUME NEW v \in Pods, SweepStep(v) PROVE Calm(j)
  BY <1>2, <1>6, <1>8 DEF SweepStep, SweepRead, SweepCheck, SweepSpawn
<1>9. ASSUME NEW v \in Pods, Crash(v) PROVE Calm(j)
  BY <1>1, <1>9 DEF Crash, Calm, SameRow
<1>10. ASSUME NEW v \in Pods, ResetStale(v) PROVE Calm(j)
  <2>1. PICK x \in Slots :
           task' = [t \in Tasks |->
              IF t[2] = x /\ t[1] \in sweep[v].cur THEN Fresh ELSE task[t]]
    BY <1>10 DEF ResetStale
  <2>2. \A s \in Slots : task'[<<j, s>>] \in {task[<<j, s>>], Fresh}
    BY <1>1, <2>1
  <2>3. /\ SameRow(j)
        /\ \/ job'[j].status = job[j].status
           \/ j \in sweep[v].todo /\ job'[j].status \in {"pending", "failed"}
    BY <1>1, <1>10 DEF ResetStale, Row, SameRow
  <2>4. QED
    BY <2>2, <2>3 DEF Calm, Requested
<1>11. ASSUME NEW v \in Pods, Started(v) \/ Restart(v) \/ SweepFault(v) PROVE Calm(j)
  BY <1>2, <1>11 DEF Started, Restart, SweepFault
<1>12. ASSUME NEW v \in Pods, NEW i \in Jobs, Claim(v, i) PROVE Calm(j)
  BY <1>6, <1>12 DEF Claim
<1>13. CASE UNCHANGED vars
  BY <1>2, <1>13 DEF vars
<1>14. QED
  BY <1>5, <1>7, <1>8, <1>9, <1>10, <1>11, <1>12, <1>13 DEF Next, StartUp, Fault

-----------------------------------------------------------------------------
(* The order of the checkpoints: StoryFirst, Progress and StoryKnown.        *)

\* Jira has made the issues a task's frame names, so it names them by no null.
LEMMA ReplyHasKey ==
    ASSUME TypeOK, KeysHeld, NEW t \in Tasks, task[t].pc = "reply"
    PROVE  task[t].n # NoKey /\ task[t].unit \in Units /\ task[t].n \in Keys
<1>1. task[t] \in Frame /\ t[1] \in Jobs
  BY TaskParts DEF TypeOK
<1>2. task[t].unit \in Units /\ task[t].n \in Keys
  BY <1>1 DEF Frame
<1>3. made[t[1]][task[t].unit] \in Nat
  BY <1>1, <1>2 DEF TypeOK
<1>4. Exists(t[1], task[t].unit, task[t].n)
  BY DEF KeysHeld
<1>5. QED
  BY <1>2, <1>3, <1>4 DEF Exists, NoKey, MockKey

\* The two checkpoints that come first are never lost, even by tasks that share
\* the job.
LEMMA FirstKept ==
    ASSUME TypeOK, Asleep, Requested, KeysHeld, StoryFirst, [Next]_vars, NEW j \in Jobs
    PROVE  /\ job[j].key["story"] # NoKey => job'[j].key["story"] # NoKey
           /\ JobType[j] = "operation" /\ job[j].key["cr"] # NoKey
              => job'[j].key["cr"] # NoKey
<1>1. CASE Calm(j)
  BY <1>1 DEF Calm, SameRow
<1>2. CASE Inserted(j)
  BY <1>2 DEF Inserted
<1>3. ASSUME NEW t \in Tasks, t[1] = j, TaskStep(t) \/ RecoverFails(t)
      PROVE  /\ job[j].key["story"] # NoKey => job'[j].key["story"] # NoKey
             /\ JobType[j] = "operation" /\ job[j].key["cr"] # NoKey
                => job'[j].key["cr"] # NoKey
  <2>1. CASE Records(t)
    <3> DEFINE u == task[t].unit
    <3>1. task[t].n # NoKey /\ u \in Units
      BY <2>1, ReplyHasKey DEF Records
    <3>2. /\ job[j] \in Row /\ task[t] \in Frame /\ InOrder(t)
      BY DEF TypeOK, StoryFirst
    <3>3. /\ job[j].key \in [Units -> Keys] /\ task[t].row.key \in [Units -> Keys]
          /\ "story" \in Units /\ "cr" \in Units
      BY <3>2 DEF Row, Frame, Units
    <3>4. job'[j].key = IF u = "story" THEN [job[j].key EXCEPT !["story"] = task[t].n]
                        ELSE [task[t].row.key EXCEPT !["story"] = job[j].key["story"],
                                                     ![u] = task[t].n]
      BY <1>3, <2>1 DEF Records
    <3>5. JobType[j] = "operation" => u = "cr"
      BY <1>3, <2>1, <3>2 DEF Records, InOrder, Kind
    <3>6. QED
      BY <3>1, <3>3, <3>4, <3>5
  <2>2. CASE SameRow(j)
    BY <2>2 DEF SameRow
  <2>3. QED
    BY <1>3, <2>1, <2>2, StepKinds DEF Begins, Completes, Recovers, SameRow
<1>4. QED
  BY <1>1, <1>2, <1>3, StepOfJob

LEMMA InOrderStep ==
    ASSUME TypeOK, Asleep, Requested, KeysHeld, StoryFirst, [Next]_vars, NEW t \in Tasks
    PROVE  InOrder(t)'
<1> DEFINE j == t[1]
<1>1. /\ j \in Jobs /\ t[2] \in Slots /\ t = <<j, t[2]>>
      /\ task[t] \in Frame /\ job[j] \in Row /\ InOrder(t)
  BY TaskParts DEF TypeOK, StoryFirst
<1>2. /\ job[j].key["story"] # NoKey => job'[j].key["story"] # NoKey
      /\ JobType[j] = "operation" /\ job[j].key["cr"] # NoKey
         => job'[j].key["cr"] # NoKey
  BY <1>1, FirstKept
<1>3. ASSUME task'[t] = task[t] PROVE InOrder(t)'
  BY <1>1, <1>2, <1>3 DEF InOrder, Kind, Migrates
<1>4. ASSUME task'[t].row = NewRow, task'[t].pc \notin {"loop", "reply", "refresh", "story"}
      PROVE  InOrder(t)'
  BY <1>4, "story" \in Units, "cr" \in Units DEF InOrder, NewRow, NoKeys, Units
<1>5. CASE Calm(j)
  <2>1. task'[t] = task[t] \/ task'[t] \in {Idle, Fresh}
    BY <1>1, <1>5 DEF Calm
  <2>2. QED
    BY <1>3, <1>4, <2>1 DEF Idle, Fresh
<1>6. CASE Inserted(j)
  BY <1>1, <1>3, <1>6 DEF Inserted
<1>7. ASSUME NEW x \in Tasks, x # t, TaskStep(x) \/ RecoverFails(x) PROVE InOrder(t)'
  BY <1>3, <1>7, StepOfTask
<1>8. CASE TaskStep(t) \/ RecoverFails(t)
  <2>1. "story" \in Units /\ "cr" \in Units
    BY DEF Units
  <2>2. CASE Begins(t)
    <3>1. task'[t].row.key = job[j].key /\ job'[j].key = job[j].key
      BY <2>2 DEF Begins, SameRow
    <3>2. Kind(t) = "operation" => ~Migrates(j) /\ "cr" \in task'[t].todo
      BY <2>2 DEF Begins, Kind, Migrates, Todo
    <3>3. QED
      BY <2>2, <3>1, <3>2 DEF Begins, InOrder, Kind, Migrates
  <2>3. CASE Resumes(t) /\ job' = job
    <3>1. Migrates(j) /\ task[t].row.key["story"] # NoKey
      BY <2>3 DEF Resumes, KeysHeld
    <3>2. QED
      BY <1>1, <2>3, <3>1 DEF Resumes, Becomes, InOrder, Kind, Migrates
  <2>4. CASE Refreshes(t) /\ job' = job
    BY <1>1, <2>4 DEF Refreshes, Becomes, InOrder, Kind, Migrates
  <2>5. ASSUME NEW u \in Units, Skips(t, u), job' = job PROVE InOrder(t)'
    BY <1>1, <2>5 DEF Skips, Becomes, InOrder, Kind, Migrates
  <2>6. ASSUME NEW u \in Units, Calls(t, u), job' = job PROVE InOrder(t)'
    <3>1. Kind(t) = "operation" => u = "cr"
      BY <1>1, <2>6 DEF Calls, Creates, InOrder, Kind, Migrates
    <3>2. Migrates(j) => u = "story" \/ task[t].row.key["story"] # NoKey
      BY <1>1, <2>6 DEF Calls, Creates, InOrder
    <3>3. /\ task'[t].pc = "reply" /\ task'[t].unit = u
          /\ task'[t].row = task[t].row
      BY <2>6 DEF Calls, Becomes
    <3>4. QED
      BY <1>1, <2>6, <3>1, <3>2, <3>3 DEF InOrder, Kind, Migrates
  <2>7. ASSUME NEW r \in Resources, ActsOn(t, r), job' = job PROVE InOrder(t)'
    <3>1. r # "cr"
      BY ConstantsOK
    <3>2. QED
      BY <1>1, <2>7, <3>1 DEF ActsOn, Acts, Becomes, InOrder, Kind, Migrates
  <2>8. CASE Records(t)
    <3>1. task[t].n # NoKey /\ task[t].unit \in Units
      BY <2>8, ReplyHasKey DEF Records
    <3>2. job[j].key \in [Units -> Keys] /\ task[t].row.key \in [Units -> Keys]
      BY <1>1 DEF Row, Frame
    <3>3. Migrates(j) => job'[j].key["story"] # NoKey
      BY <1>1, <1>2, <2>1, <2>8, <3>1, <3>2 DEF Records, InOrder
    <3>4. Kind(t) = "operation" => job'[j].key["cr"] # NoKey
      BY <1>1, <2>1, <2>8, <3>1, <3>2 DEF Records, InOrder
    <3>5. task'[t].pc = "refresh" /\ task'[t].row = NewRow
      BY <2>8 DEF Records, Becomes
    <3>6. NewRow.key["story"] = NoKey /\ NewRow.key["cr"] = NoKey
      BY <2>1 DEF NewRow, NoKeys
    <3>7. QED
      BY <3>3, <3>4, <3>5, <3>6 DEF InOrder, Kind, Migrates
  <2>9. CASE Completes(t) \/ Recovers(t) \/ Fails(t) \/ Exits(t)
    BY <1>4, <2>9 DEF Completes, Recovers, Fails, Exits, Becomes
  <2>10. QED
    BY <1>8, <2>2, <2>3, <2>4, <2>5, <2>6, <2>7, <2>8, <2>9, StepKinds
<1>9. QED
  BY <1>1, <1>5, <1>6, <1>7, <1>8, StepOfJob

\* What only grows.
LEMMA HistoryGrows ==
    ASSUME TypeOK, [Next]_vars
    PROVE  /\ overlap \subseteq overlap' /\ overlap' \subseteq Jobs
           /\ \A j \in Jobs : acted[j] \subseteq acted'[j]
           /\ spent'["reset"] = 0 => spent["reset"] = 0
           /\ spent'["fault"] = 0 => spent["fault"] = 0
<1> USE DEF mem, jira, db, TypeOK
<1>1. ASSUME NEW e \in Events, Occurs(e)
      PROVE  \A x \in Events : spent'[x] = 0 => spent[x] = 0
  BY <1>1 DEF Occurs
<1>2. {"crash", "retry", "reset", "edit", "fault", "lost"} = Events
  BY DEF Events
<1> DEFINE Same == UNCHANGED <<overlap, acted, spent>>
           Goal == /\ overlap \subseteq overlap' /\ overlap' \subseteq Jobs
                   /\ \A j \in Jobs : acted[j] \subseteq acted'[j]
                   /\ spent'["reset"] = 0 => spent["reset"] = 0
                   /\ spent'["fault"] = 0 => spent["fault"] = 0
<1>3. CASE Same
  BY <1>3
<1>4. ASSUME NEW e \in Events, Occurs(e), UNCHANGED <<overlap, acted>> PROVE Goal
  BY <1>1, <1>2, <1>4
<1>5. ASSUME NEW v \in Pods, NEW j \in Jobs, Spawn(v, j), UNCHANGED <<acted, spent>> PROVE Goal
  BY <1>5 DEF Spawn
<1>6. CASE Request
  <2>1. ASSUME NEW v \in Fronts, NEW j \in Jobs, Create(v, j) PROVE Goal
    BY <1>3, <2>1 DEF Create
  <2>2. ASSUME NEW v \in Fronts, NEW p \in Projects, Retry(v, p) PROVE Goal
    BY <1>2, <1>4, <2>2 DEF Retry
  <2>3. ASSUME NEW p \in Projects, ResetProject(p) PROVE Goal
    BY <1>2, <1>4, <2>3 DEF ResetProject
  <2>4. ASSUME NEW r \in Resources, SyncWithoutJob(r) \/ EditScope(r) PROVE Goal
    BY <1>2, <1>3, <1>4, <2>4 DEF SyncWithoutJob, EditScope
  <2>5. QED
    BY <1>6, <2>1, <2>2, <2>3, <2>4 DEF Request
<1>7. ASSUME NEW t \in Tasks, TaskStep(t) PROVE Goal
  <2>1. ASSUME NEW r \in Resources, Act(t, r) PROVE Goal
    BY <2>1 DEF Act
  <2>2. CASE ReplyLost(t)
    BY <1>2, <1>4, <2>2 DEF ReplyLost
  <2>3. ASSUME NEW u \in Units, Skip(t, u) \/ CallJira(t, u) PROVE Goal
    BY <1>3, <2>3 DEF Skip, CallJira
  <2>4. CASE Begin(t) \/ Resume(t) \/ Record(t) \/ Refresh(t)
    BY <1>3, <2>4 DEF Begin, Resume, Record, Refresh
  <2>5. CASE Complete(t) \/ Recover(t) \/ Exit(t) \/ JiraFails(t)
    BY <1>3, <2>5 DEF Complete, Recover, Exit, JiraFails
  <2>6. QED
    BY <1>7, <2>1, <2>2, <2>3, <2>4, <2>5 DEF TaskStep
<1>8. CASE Fault
  BY <1>2, <1>4, <1>8 DEF Fault, Crash, SweepFault, RecoverFails
<1>9. ASSUME NEW v \in Pods, SweepStep(v) \/ StartUp(v) PROVE Goal
  <2>1. CASE ResetStale(v)
    <3>1. /\ overlap' = overlap \cup {j \in sweep[v].cur : \E s \in Slots : Working(<<j, s>>)}
          /\ UNCHANGED <<acted, spent>>
      BY <2>1 DEF ResetStale
    <3>2. sweep[v].cur \subseteq Jobs
      BY DEF Sweeps
    <3>3. QED
      BY <3>1, <3>2
  <2>2. CASE SweepRead(v) \/ SweepCheck(v) \/ Restart(v) \/ Started(v)
    BY <1>3, <2>2 DEF SweepRead, SweepCheck, Restart, Started
  <2>3. ASSUME NEW j \in Jobs, SweepSpawn(v, j) PROVE Goal
    BY <1>5, <2>3 DEF SweepSpawn
  <2>4. QED
    BY <1>9, <2>1, <2>2, <2>3 DEF SweepStep, StartUp
<1>10. ASSUME NEW v \in Pods, NEW j \in Jobs, Claim(v, j) PROVE Goal
  BY <1>5, <1>10 DEF Claim
<1>11. CASE UNCHANGED vars
  BY <1>3, <1>11 DEF vars
<1>12. QED
  BY <1>6, <1>7, <1>8, <1>9, <1>10, <1>11 DEF Next

\* While no project is reset, the story a projects row names stays.
LEMMA StoryStays ==
    ASSUME TypeOK, [Next]_vars, spent'["reset"] = 0, NEW p \in Projects,
           project[p].story # NoRef
    PROVE  project'[p].story # NoRef
<1> USE DEF mem, jira, db
<1>1. \A q \in Projects : project[q] \in ProjectRow
  BY DEF TypeOK
<1>2. ASSUME NEW q \in Projects, NEW st, project' = SetProject(q, st)
      PROVE  project'[p].story # NoRef
  BY <1>1, <1>2 DEF SetProject, TypeOK, ProjectRow
<1>3. CASE project' = project
  BY <1>3
<1>4. CASE Request
  <2>1. ASSUME NEW v \in Fronts, NEW j \in Jobs, Create(v, j) PROVE project'[p].story # NoRef
    BY ConstantsOK, <1>2, <2>1 DEF Create
  <2>2. ASSUME NEW v \in Fronts, NEW q \in Projects, Retry(v, q)
        PROVE  project'[p].story # NoRef
    BY <1>2, <2>2 DEF Retry
  <2>3. ASSUME NEW q \in Projects, ResetProject(q) PROVE FALSE
    BY <2>3 DEF ResetProject, Occurs, TypeOK, Events
  <2>4. QED
    BY <1>4, <2>1, <2>2, <2>3 DEF Request, SyncWithoutJob, EditScope
<1>5. ASSUME NEW t \in Tasks, TaskStep(t) PROVE project'[p].story # NoRef
  <2>1. /\ t[1] \in Jobs /\ Proj(t) \in Projects /\ task[t] \in Frame
        /\ "story" \in Units
    BY TaskParts DEF TypeOK, Units
  <2>2. \A n \in Keys : <<t[1], "story", n>> # NoRef
    BY ConstantsOK, <2>1
  <2>3. CASE Record(t)
    <3> DEFINE story == IF task[t].unit = "story" THEN task[t].n ELSE task[t].row.key["story"]
    <3>1. story \in Keys
      BY <2>1 DEF Frame, Row
    <3>2. \/ project' = project
          \/ project' = [project EXCEPT ![Proj(t)].story = <<t[1], "story", story>>]
      BY <2>3 DEF Record
    <3> HIDE DEF story
    <3>3. QED
      BY <1>1, <2>1, <2>2, <3>1, <3>2 DEF TypeOK, ProjectRow
  <2>4. CASE Complete(t)
    <3>1. task[t].row.key["story"] \in Keys
      BY <2>1 DEF Frame, Row
    <3> DEFINE story == IF lock[Proj(t)] = t
                        THEN <<t[1], "story", task[t].row.key["story"]>>
                        ELSE project[Proj(t)].story
               new == [status |-> "completed", story |-> story]
    <3>2. project' = project \/ project' = [project EXCEPT ![Proj(t)] = new]
      BY <2>4 DEF Complete
    <3>3. project[Proj(t)].story # NoRef => story # NoRef
      BY <2>2, <3>1
    <3>4. new.story = story
      OBVIOUS
    <3> HIDE DEF story, new
    <3>5. QED
      BY <2>1, <3>2, <3>3, <3>4 DEF TypeOK
  <2>5. CASE Begin(t) \/ Recover(t)
    BY <1>2, <2>1, <2>5 DEF Begin, Recover
  <2>6. QED
    BY <1>5, <2>3, <2>4, <2>5
    DEF TaskStep, Resume, Refresh, Exit, JiraFails, ReplyLost, Skip, CallJira, Act
<1>6. ASSUME NEW v \in Pods, ResetStale(v) PROVE project'[p].story # NoRef
  <2> DEFINE after(j) == IF j \in sweep[v].cur THEN "pending" ELSE "failed"
             of(q) == {j \in sweep[v].todo : Migrates(j) /\ JobProject[j] = q}
  <2>1. PICK last \in [Projects -> Jobs] :
           project' = [q \in Projects |->
              IF of(q) = {} THEN project[q]
              ELSE [project[q] EXCEPT !.status = after(last[q])]]
    BY <1>6 DEF ResetStale
  <2>2. QED
    BY <1>1, <2>1 DEF ProjectRow
<1>7. QED
  BY <1>3, <1>4, <1>5, <1>6
  DEF Next, StartUp, Fault, Claim, Restart, Started, SweepStep, SweepRead, SweepCheck,
      SweepSpawn, SweepFault, Crash, RecoverFails, vars

\* While a task is at work on a job that is not shared, no other one is.
LEMMA OnlyOne ==
    ASSUME NEW j \in Jobs, SoleTask(j), NEW t \in Tasks, t[1] = j, Working(t),
           NEW x \in Tasks, x[1] = j, x # t
    PROVE  ~Underway(x)
<1>1. /\ t = <<j, t[2]>> /\ t[2] \in Slots /\ x = <<j, x[2]>> /\ x[2] \in Slots
  BY TaskParts
<1>2. ~Working(x)
  BY <1>1 DEF SoleTask
<1>3. QED
  BY <1>2 DEF Working, Underway, Making

LEMMA OnTrackStep ==
    ASSUME TypeOK, Asleep, Requested, KeysHeld, StoryFirst, StoryKnown, Progress,
           [Next]_vars, NEW t \in Tasks, t[1] \notin overlap', SoleTask(t[1])
    PROVE  OnTrack(t)'
<1> DEFINE j == t[1]
<1>1. /\ j \in Jobs /\ t[2] \in Slots /\ t = <<j, t[2]>>
      /\ task[t] \in Frame /\ job[j] \in Row /\ InOrder(t)
  BY TaskParts DEF TypeOK, StoryFirst
<1>2. /\ acted[j] \subseteq acted'[j] /\ (spent'["reset"] = 0 => spent["reset"] = 0)
      /\ j \notin overlap
  BY <1>1, HistoryGrows
<1>3. OnTrack(t)
  BY <1>2 DEF Progress
<1>4. /\ "story" \in Units /\ "cr" \in Units /\ "cr" \notin job[j].sel
      /\ Migrates(j) /\ ~Grouped => job[j].sel \subseteq Units \ {"story", "cr"}
  <2>1. job[j].sel \subseteq Resources
    BY <1>1 DEF Row
  <2>2. ~Grouped => \A r \in Resources : r \in Buckets
    BY ConstantsOK
  <2>3. QED
    BY ConstantsOK, <2>1, <2>2 DEF Units
<1>5. ASSUME task'[t] = task[t], SameRow(j),
             \/ job'[j].status = job[j].status
             \/ job'[j].status \in {"pending", "failed"}
      PROVE  OnTrack(t)'
  BY <1>2, <1>3, <1>5 DEF OnTrack, Underway, Making, SameRow, Kind, Migrates
<1>6. ASSUME ~Underway(t)' PROVE OnTrack(t)'
  BY <1>6 DEF OnTrack, Underway
<1>7. CASE Calm(j)
  <2>1. task'[t] = task[t] \/ task'[t] \in {Idle, Fresh}
    BY <1>1, <1>7 DEF Calm
  <2>2. CASE task'[t] \in {Idle, Fresh}
    BY <1>6, <2>2 DEF Idle, Fresh, Underway, Making
  <2>3. QED
    BY <1>5, <1>7, <2>1, <2>2 DEF Calm
<1>8. CASE Inserted(j)
  BY <1>1, <1>6, <1>8 DEF Inserted, Underway, Making
<1>9. ASSUME NEW x \in Tasks, x # t, x[1] = j, TaskStep(x) \/ RecoverFails(x)
      PROVE  OnTrack(t)'
  <2>1. task'[t] = task[t]
    BY <1>9, StepOfTask
  <2>2. CASE Working(x)
    BY <1>1, <1>6, <1>9, <2>1, <2>2, OnlyOne DEF Underway, Making
  <2>3. CASE ~Working(x)
    <3>1. task[x].pc = "exit"
      BY <1>9, <2>3, StepOfTask DEF Working
    <3>2. job' = job
      BY <1>9, <3>1, StepKinds DEF Begins, Records, Completes, Recovers
    <3>3. QED
      BY <1>5, <2>1, <3>2 DEF SameRow
  <2>4. QED
    BY <2>2, <2>3
<1>10. CASE TaskStep(t) \/ RecoverFails(t)
  <2>1. /\ task[t].pc \in {"resume", "story", "loop", "reply"} => task[t].row.key = job[j].key
    BY <1>1 DEF SoleTask
  <2>2. CASE Begins(t)
    <3>1. /\ job'[j].status = "processing" /\ task'[t].row.status = "processing"
          /\ job'[j].key = job[j].key /\ job'[j].sel = job[j].sel
          /\ task'[t].pc # "reply"
          /\ task'[t].hasStory = (project[Proj(t)].story # NoRef)
          /\ task'[t].todo = Todo(j, task'[t].hasStory)
      BY <2>2 DEF Begins, SameRow
    <3>2. Migrates(j) /\ ~Grouped => job[j].sel \subseteq task'[t].todo
      BY <3>1 DEF Todo, Plan, Migrates
    <3>3. Kind(t) = "operation" /\ task'[t].hasStory => job[j].sel \subseteq task'[t].todo
      BY <3>1 DEF Todo, Kind
    <3>4. Kind(t) = "operation" /\ spent["reset"] = 0 /\ ~task'[t].hasStory =>
             job[j].key["cr"] \in {NoKey, MockKey}
      BY <1>1, <1>2, <3>1 DEF StoryKnown, Kind, Proj
    <3>5. QED
      BY <1>2, <3>1, <3>2, <3>3, <3>4 DEF OnTrack, Kind, Migrates
  <2>3. CASE Resumes(t) /\ job' = job
    <3>1. Kind(t) # "operation"
      BY <2>3 DEF Resumes, KeysHeld, Kind, Migrates
    <3>2. QED
      BY <1>2, <1>3, <2>3, <3>1
      DEF Resumes, Becomes, OnTrack, Underway, Making, Kind, Migrates
  <2>4. CASE Refreshes(t) /\ job' = job
    BY <1>2, <1>3, <2>4 DEF Refreshes, Becomes, OnTrack, Underway, Making, Kind, Migrates
  <2>5. ASSUME NEW u \in Units, Skips(t, u), job' = job PROVE OnTrack(t)'
    <3>1. job[j].key[u] # NoKey /\ (Kind(t) = "operation" => u \notin job[j].sel)
      BY <1>4, <2>1, <2>5 DEF Skips, Kind, Migrates
    <3>2. QED
      BY <1>2, <1>3, <2>5, <3>1 DEF Skips, Becomes, OnTrack, Underway, Making, Kind, Migrates
  <2>6. ASSUME NEW u \in Units, Calls(t, u), job' = job PROVE OnTrack(t)'
    <3>1. Kind(t) = "operation" => u = "cr"
      BY <1>1, <2>6 DEF Calls, Creates, InOrder, Kind, Migrates
    <3>2. Kind(t) = "operation" /\ ~task[t].hasStory => NewKey(t, u) = MockKey
      BY DEF NewKey, Mock, Kind, Migrates
    <3>3. Underway(t) /\ Making(t) /\ task[t].pc # "reply"
      BY <2>6 DEF Calls, Creates, Underway, Making
    <3>4. /\ task'[t].pc = "reply" /\ task'[t].unit = u /\ task'[t].n = NewKey(t, u)
          /\ task'[t].row = task[t].row /\ task'[t].todo = task[t].todo \ {u}
          /\ task'[t].hasStory = task[t].hasStory
      BY <2>6 DEF Calls, Becomes
    <3>5. Migrates(j) /\ ~Grouped =>
             \A b \in job[j].sel : b \in task'[t].todo \/ job[j].key[b] # NoKey \/ u = b
      BY <1>3, <3>3, <3>4 DEF OnTrack
    <3>6. Kind(t) = "operation" /\ spent["reset"] = 0 /\ task[t].hasStory =>
             job[j].sel \subseteq task'[t].todo \cup acted'[j]
      BY <1>2, <1>3, <1>4, <3>1, <3>3, <3>4 DEF OnTrack
    <3>7. QED
      BY <1>2, <1>3, <2>6, <3>2, <3>3, <3>4, <3>5, <3>6 DEF OnTrack, Kind, Migrates
  <2>7. ASSUME NEW r \in Resources, ActsOn(t, r), job' = job PROVE OnTrack(t)'
    BY <1>2, <1>3, <2>7
    DEF ActsOn, Acts, Becomes, OnTrack, Underway, Making, Kind, Migrates
  <2>8. CASE Records(t)
    <3> DEFINE u == task[t].unit  n == task[t].n
    <3>1. n # NoKey /\ u \in Units /\ n \in Keys
      BY <2>8, ReplyHasKey DEF Records
    <3>2. job[j].key \in [Units -> Keys] /\ task[t].row.key = job[j].key
      BY <1>1, <2>1, <2>8 DEF Row, Records
    <3>3. \A b \in Units : job'[j].key[b] = IF b = u THEN n ELSE job[j].key[b]
      BY <1>4, <2>8, <3>1, <3>2 DEF Records
    <3>4. Underway(t) /\ Making(t) /\ task[t].pc = "reply"
      BY <2>8 DEF Records, Underway, Making
    <3>5. /\ job'[j].status = job[j].status /\ job'[j].sel = job[j].sel
          /\ task'[t].pc = "refresh" /\ task'[t].row = NewRow /\ task'[t].todo = task[t].todo
          /\ task'[t].hasStory = (task[t].hasStory \/ u = "story")
      BY <2>8 DEF Records, Becomes
    <3>6. Kind(t) = "operation" => u = "cr"
      BY <1>1, <3>4 DEF InOrder
    <3>7. Migrates(j) /\ ~Grouped =>
             \A b \in job[j].sel : b \in task[t].todo \/ job'[j].key[b] # NoKey
      BY <1>3, <1>4, <3>1, <3>3, <3>4 DEF OnTrack
    <3>8. Kind(t) = "operation" /\ spent["reset"] = 0 =>
             IF task'[t].hasStory THEN job[j].sel \subseteq task[t].todo \cup acted'[j]
             ELSE job'[j].key["cr"] \in {NoKey, MockKey}
      BY <1>2, <1>3, <1>4, <3>3, <3>4, <3>5, <3>6 DEF OnTrack
    <3>9. NewRow.status # "completed"
      BY DEF NewRow
    <3>10. QED
      BY <1>2, <1>3, <3>4, <3>5, <3>7, <3>8, <3>9 DEF OnTrack, Kind, Migrates
  <2>9. CASE Fails(t) /\ job' = job
    BY <1>3, <2>9 DEF Fails, Becomes, OnTrack, Underway, Making
  <2>10. CASE Completes(t) \/ Recovers(t) \/ Exits(t)
    BY <1>6, <2>10 DEF Completes, Recovers, Exits, Becomes, Underway, Making
  <2>11. QED
    BY <1>10, <2>2, <2>3, <2>4, <2>5, <2>6, <2>7, <2>8, <2>9, <2>10, StepKinds
<1>11. QED
  BY <1>1, <1>7, <1>8, <1>9, <1>10, StepOfJob

LEMMA StoryKnownStep ==
    ASSUME TypeOK, Asleep, Requested, KeysHeld, StoryFirst, StoryKnown, Progress,
           \A j \in Jobs \ overlap : SoleTask(j), [Next]_vars
    PROVE  StoryKnown'
<1> SUFFICES ASSUME spent'["reset"] = 0
             PROVE  /\ \A t \in Tasks : Kind(t) = "operation" /\ task'[t].hasStory
                                         => project'[Proj(t)].story # NoRef
                    /\ \A j \in Jobs \ overlap' :
                          JobType[j] = "operation" /\ job'[j].key["cr"] \notin {NoKey, MockKey}
                          => project'[JobProject[j]].story # NoRef
  BY DEF StoryKnown, Kind, Proj
<1>1. /\ spent["reset"] = 0 /\ overlap \subseteq overlap'
      /\ \A p \in Projects : project[p].story # NoRef => project'[p].story # NoRef
  BY HistoryGrows, StoryStays
<1>2. \A j \in Jobs : JobProject[j] \in Projects
  BY ConstantsOK
<1>3. ASSUME NEW t \in Tasks, Kind(t) = "operation", task'[t].hasStory
      PROVE  project'[Proj(t)].story # NoRef
  <2>1. /\ t[1] \in Jobs /\ t[2] \in Slots /\ t = <<t[1], t[2]>>
        /\ Proj(t) \in Projects /\ InOrder(t)
    BY TaskParts DEF StoryFirst
  <2>2. SUFFICES task[t].hasStory \/ project[Proj(t)].story # NoRef
    BY <1>1, <1>3, <2>1 DEF StoryKnown
  <2>3. CASE task'[t] = task[t]
    BY <1>3, <2>3
  <2>4. CASE Calm(t[1]) \/ Inserted(t[1])
    BY <1>3, <2>1, <2>3, <2>4 DEF Calm, Inserted, Idle, Fresh
  <2>5. ASSUME NEW x \in Tasks, x # t, TaskStep(x) \/ RecoverFails(x)
        PROVE  task[t].hasStory \/ project[Proj(t)].story # NoRef
    BY <2>3, <2>5, StepOfTask
  <2>6. CASE TaskStep(t) \/ RecoverFails(t)
    <3>1. CASE Begins(t)
      BY <1>3, <3>1 DEF Begins
    <3>2. CASE Resumes(t)
      BY <1>3, <3>2 DEF Resumes, KeysHeld, Kind, Migrates
    <3>3. CASE Records(t)
      BY <1>3, <2>1, <3>3 DEF Records, Becomes, InOrder
    <3>4. QED
      BY <1>3, <2>6, <3>1, <3>2, <3>3, StepKinds
      DEF Becomes, Refreshes, Skips, Calls, ActsOn, Completes, Fails, Recovers, Exits
  <2>7. QED
    BY <2>1, <2>4, <2>5, <2>6, StepOfJob
<1>4. ASSUME NEW j \in Jobs, j \notin overlap', JobType[j] = "operation",
             job'[j].key["cr"] \notin {NoKey, MockKey}
      PROVE  project'[JobProject[j]].story # NoRef
  <2>1. CASE job'[j].key = job[j].key
    BY <1>1, <1>2, <1>4, <2>1 DEF StoryKnown
  <2>2. ASSUME NEW t \in Tasks, t[1] = j, Records(t)
        PROVE  project'[JobProject[j]].story # NoRef
    <3>1. task[t].unit = "cr" /\ task[t].n # NoKey /\ Making(t) /\ task[t].pc = "reply"
      BY <1>4, <2>2, ReplyHasKey DEF Records, StoryFirst, InOrder, Kind, Making
    <3>2. task[t] \in Frame /\ "cr" \in Units
      BY DEF TypeOK, Units
    <3>3. job'[j].key["cr"] = task[t].n
      BY <2>2, <3>1, <3>2 DEF Records, Frame, Row
    <3>4. task[t].hasStory
      BY <1>1, <1>4, <2>2, <3>1, <3>3 DEF Progress, OnTrack, Kind
    <3>5. QED
      BY <1>1, <1>2, <1>4, <2>2, <3>4 DEF StoryKnown, Kind, Proj
  <2>3. ASSUME NEW t \in Tasks, t[1] = j, TaskStep(t) \/ RecoverFails(t)
        PROVE  job'[j].key = job[j].key \/ Records(t)
    BY <2>3, StepKinds DEF Begins, Completes, Recovers, SameRow
  <2>4. QED
    BY <2>1, <2>2, <2>3, StepOfJob DEF Calm, SameRow, Inserted
<1>5. QED
  BY <1>3, <1>4

\* A job that is completed now was before, or its task has just completed it.
LEMMA WhoCompletes ==
    ASSUME TypeOK, Asleep, Requested, [Next]_vars, NEW j \in Jobs,
           job'[j].status = "completed"
    PROVE  \/ /\ job[j].status = "completed" /\ job'[j].sel = job[j].sel
              /\ \/ job'[j].key = job[j].key
                 \/ \E t \in Tasks : t[1] = j /\ Records(t)
           \/ \E t \in Tasks : t[1] = j /\ Completes(t)
<1>1. ASSUME NEW t \in Tasks, t[1] = j, TaskStep(t) \/ RecoverFails(t)
      PROVE  \/ /\ job[j].status = "completed" /\ job'[j].sel = job[j].sel
                /\ job'[j].key = job[j].key \/ Records(t)
             \/ Completes(t)
  <2>1. CASE Begins(t) \/ Completes(t) \/ Recovers(t)
    BY <1>1, <2>1 DEF Begins, Recovers, SameRow
  <2>2. CASE Records(t)
    BY <1>1, <2>2 DEF Records
  <2>3. QED
    BY <1>1, <2>1, <2>2, StepKinds
<1>2. QED
  BY <1>1, StepOfJob DEF Calm, SameRow, Inserted

LEMMA WholeWhenCompleted ==
    ASSUME TypeOK, TypeOK', Asleep, Requested, KeysHeld, StoryFirst, Progress,
           \A j \in Jobs \ overlap : Whole(j), CompletedIsWhole, [Next]_vars
    PROVE  CompletedIsWhole'
<1> SUFFICES ASSUME NEW j \in Jobs, job'[j].status = "completed"
             PROVE  /\ Migrates(j) => job'[j].key["story"] # NoKey
                    /\ JobType[j] = "operation" => job'[j].key["cr"] # NoKey
                    /\ Migrates(j) /\ ~Grouped /\ j \notin overlap' =>
                          \A b \in job'[j].sel : job'[j].key[b] # NoKey
  BY DEF CompletedIsWhole, Migrates
<1>1. /\ job[j].key["story"] # NoKey => job'[j].key["story"] # NoKey
      /\ JobType[j] = "operation" /\ job[j].key["cr"] # NoKey => job'[j].key["cr"] # NoKey
      /\ overlap \subseteq overlap'
  BY FirstKept, HistoryGrows
<1>2. /\ job[j] \in Row
      /\ ~Grouped => job[j].sel \subseteq Units
  <2>1. job[j] \in Row /\ job[j].sel \subseteq Resources
    BY DEF TypeOK, Row
  <2>2. ~Grouped => \A r \in Resources : r \in Buckets
    BY ConstantsOK
  <2>3. QED
    BY <2>1, <2>2 DEF Units
<1>3. CASE job[j].status = "completed" /\ job'[j].sel = job[j].sel
  <2>1. j \notin overlap' => \A u \in Units : job[j].key[u] # NoKey => job'[j].key[u] = job[j].key[u]
    BY <1>1, WholeStep
  <2>2. QED
    BY <1>1, <1>2, <1>3, <2>1 DEF CompletedIsWhole
<1>4. ASSUME NEW t \in Tasks, t[1] = j, Completes(t)
      PROVE  /\ Migrates(j) => job'[j].key["story"] # NoKey
             /\ JobType[j] = "operation" => job'[j].key["cr"] # NoKey
             /\ Migrates(j) /\ ~Grouped /\ j \notin overlap' =>
                   \A b \in job'[j].sel : job'[j].key[b] # NoKey
  <2>1. /\ job'[j].key = job[j].key /\ job'[j].sel = job[j].sel
        /\ task[t].pc = "loop" /\ task[t].todo = {} /\ InOrder(t)
    BY <1>4 DEF Completes, SameRow, StoryFirst
  <2>2. Migrates(j) /\ ~Grouped /\ j \notin overlap =>
           \A b \in job[j].sel : job[j].key[b] # NoKey
    BY <1>4, <2>1 DEF Progress, OnTrack, Making
  <2>3. QED
    BY <1>1, <1>4, <2>1, <2>2 DEF InOrder, Kind
<1>5. QED
  BY <1>3, <1>4, WhoCompletes

LEMMA LinksStep ==
    ASSUME TypeOK, Asleep, Requested, KeysHeld, StoryFirst, Progress, OperationLinksAll, [Next]_vars
    PROVE  OperationLinksAll'
<1> SUFFICES ASSUME NEW j \in Jobs, j \notin overlap', job'[j].status = "completed",
                    JobType[j] = "operation", job'[j].key["cr"] # MockKey, spent'["reset"] = 0
             PROVE  job'[j].sel \subseteq acted'[j]
  BY DEF OperationLinksAll
<1>1. /\ acted[j] \subseteq acted'[j] /\ spent["reset"] = 0 /\ j \notin overlap
  BY HistoryGrows
<1>2. ASSUME NEW t \in Tasks, t[1] = j, Completes(t) PROVE job'[j].sel \subseteq acted'[j]
  <2>1. /\ job'[j].key = job[j].key /\ job'[j].sel = job[j].sel
        /\ task[t].pc = "loop" /\ task[t].todo = {} /\ InOrder(t)
    BY <1>2 DEF Completes, SameRow, StoryFirst
  <2>2. job[j].key["cr"] # NoKey
    BY <1>2, <2>1 DEF InOrder, Kind
  <2>3. QED
    BY <1>1, <1>2, <2>1, <2>2 DEF Progress, OnTrack, Making, Kind
<1>3. ASSUME job[j].status = "completed", NEW t \in Tasks, t[1] = j, Records(t) PROVE FALSE
  BY <1>1, <1>3 DEF Records, Progress, OnTrack, Underway, Making
<1>4. QED
  BY <1>1, <1>2, <1>3, WhoCompletes DEF OperationLinksAll

-----------------------------------------------------------------------------
(* The status of a project and that of its migration job.                    *)

LEMMA RowsStay ==
    ASSUME TypeOK, Asleep, Requested, [Next]_vars, NEW j \in Jobs, job'[j].status = "absent"
    PROVE  job[j].status = "absent"
<1>1. ASSUME NEW t \in Tasks, t[1] = j, TaskStep(t) \/ RecoverFails(t)
      PROVE  job[j].status = "absent"
  <2>1. CASE Begins(t) \/ Completes(t) \/ Recovers(t)
    BY <1>1, <2>1 DEF Begins, Completes, Recovers
  <2>2. CASE Records(t)
    BY <1>1, <2>2 DEF Records
  <2>3. QED
    BY <1>1, <2>1, <2>2, StepKinds
<1>2. QED
  BY <1>1, StepOfJob DEF Calm, Inserted

LEMMA MirrorStep ==
    ASSUME TypeOK, Asleep, Requested, Progress, ProjectMirrorsJob, [Next]_vars
    PROVE  ProjectMirrorsJob'
<1> USE DEF mem, jira, db
<1> DEFINE Alone(j, i) == Migrates(i) /\ JobProject[i] = JobProject[j]
<1> SUFFICES ASSUME NEW j \in Jobs, j \notin overlap', Migrates(j),
                    job'[j].status # "absent",
                    \A i \in Jobs \ {j} : Alone(j, i) => job'[i].status = "absent",
                    spent'["reset"] = 0
             PROVE  project'[JobProject[j]].status = job'[j].status
  BY DEF ProjectMirrorsJob, Migrates
<1> DEFINE p == JobProject[j]
           Goal == project'[p].status = job'[j].status
<1>1. /\ p \in Projects /\ job[j] \in Row /\ j \notin overlap /\ spent["reset"] = 0
      /\ \A q \in Projects : project[q] \in ProjectRow
  BY HistoryGrows, ConstantsOK DEF TypeOK
<1>2. \A i \in Jobs \ {j} : Alone(j, i) => job'[i].status = "absent" /\ job[i].status = "absent"
  BY RowsStay
<1> HIDE DEF Alone
<1>3. job[j].status # "absent" => project[p].status = job[j].status
  BY <1>1, <1>2 DEF ProjectMirrorsJob, Alone
<1>4. ASSUME project'[p].status = project[p].status, job'[j].status = job[j].status PROVE Goal
  BY <1>3, <1>4
<1>5. ASSUME NEW st, project' = SetProject(p, st), job'[j].status = st PROVE Goal
  BY <1>1, <1>5 DEF SetProject, TypeOK, ProjectRow
<1>6. ASSUME NEW q \in Projects, q # p, NEW st, project' = SetProject(q, st),
             job'[j].status = job[j].status
      PROVE  Goal
  BY <1>1, <1>4, <1>6 DEF SetProject, TypeOK
<1>7. CASE project' = project /\ job' = job
  BY <1>4, <1>7
\* A request for, or a task of, a migration job of the project is one of job j.
<1>8. ASSUME NEW i \in Jobs, i # j, Migrates(i), job[i].status # "absent" \/ job'[i].status # "absent"
      PROVE  JobProject[i] # p /\ JobProject[i] \in Projects
  BY ConstantsOK, <1>2, <1>8 DEF Alone
<1>9. ASSUME NEW v \in Pods, NEW i \in Jobs, Create(v, i) PROVE Goal
  <2>1. PICK sel : job' = [job EXCEPT ![i] = [NewRow EXCEPT !.status = "pending", !.sel = sel]]
    BY <1>9 DEF Create
  <2>2. job'[i].status = "pending"
    BY <2>1 DEF TypeOK, NewRow
  <2>3. CASE i = j
    BY <1>5, <1>9, <2>2, <2>3 DEF Create
  <2>4. CASE i # j
    <3>1. job'[j].status = job[j].status
      BY <2>1, <2>4 DEF TypeOK
    <3>2. CASE Migrates(i)
      BY <1>6, <1>8, <1>9, <2>2, <2>4, <3>1, <3>2 DEF Create
    <3>3. CASE ~Migrates(i)
      BY <1>4, <1>9, <3>1, <3>3 DEF Create
    <3>4. QED
      BY <3>2, <3>3
  <2>5. QED
    BY <2>3, <2>4
<1>10. ASSUME NEW v \in Pods, NEW q \in Projects, Retry(v, q) PROVE Goal
  <2>1. PICK i \in Retryable(q) :
           /\ job' = [job EXCEPT ![i].status = "pending"]
           /\ IF Migrates(i) THEN project' = SetProject(q, "pending") ELSE project' = project
    BY <1>10 DEF Retry
  <2>2. i \in Jobs /\ JobProject[i] = q /\ job[i].status # "absent"
    BY <2>1 DEF Retryable
  <2>3. CASE i = j
    <3>1. job'[j].status = "pending"
      BY <1>1, <2>1, <2>3 DEF TypeOK, Row
    <3>2. QED
      BY <1>5, <2>1, <2>2, <2>3, <3>1
  <2>4. CASE i # j
    <3>1. job'[j].status = job[j].status
      BY <2>1, <2>2, <2>4 DEF TypeOK
    <3>2. CASE Migrates(i)
      BY <1>6, <1>8, <2>1, <2>2, <2>4, <3>1, <3>2
    <3>3. CASE ~Migrates(i)
      BY <1>4, <2>1, <3>1, <3>3
    <3>4. QED
      BY <3>2, <3>3
  <2>5. QED
    BY <2>3, <2>4
<1>11. CASE Request
  <2>1. ASSUME NEW q \in Projects, ResetProject(q) PROVE FALSE
    BY <2>1 DEF ResetProject, Occurs, TypeOK, Events
  <2>2. ASSUME NEW v \in Fronts, NEW i \in Jobs, Create(v, i) PROVE Goal
    BY ConstantsOK, <1>9, <2>2
  <2>3. ASSUME NEW v \in Fronts, NEW q \in Projects, Retry(v, q) PROVE Goal
    BY ConstantsOK, <1>10, <2>3
  <2>4. ASSUME NEW r \in Resources, SyncWithoutJob(r) \/ EditScope(r) PROVE Goal
    BY <1>7, <2>4 DEF SyncWithoutJob, EditScope
  <2>5. QED
    BY <1>11, <2>1, <2>2, <2>3, <2>4 DEF Request
<1>12. ASSUME NEW t \in Tasks, TaskStep(t) \/ RecoverFails(t) PROVE Goal
  <2>1. /\ t[1] \in Jobs /\ t[2] \in Slots /\ t = <<t[1], t[2]>> /\ Proj(t) \in Projects
        /\ job[t[1]].status # "absent"
    <3>1. task[t].pc # "idle"
      BY <1>12, StepOfTask
    <3>2. QED
      BY <3>1, TaskParts DEF Requested
  <2>2. CASE Begin(t) \/ Recover(t)
    <3>1. PICK st \in {"processing", "failed"} :
             /\ job'[t[1]].status = st
             /\ IF Migrates(t[1]) THEN project' = SetProject(Proj(t), st)
                ELSE project' = project
      BY <2>1, <2>2 DEF Begin, Recover, TypeOK, Row
    <3>2. t[1] # j => job'[j] = job[j]
      BY <1>12, StepOfTask
    <3>3. CASE t[1] = j
      BY <1>5, <3>1, <3>3 DEF Proj
    <3>4. CASE t[1] # j /\ Migrates(t[1])
      BY <1>6, <1>8, <2>1, <3>1, <3>2, <3>4 DEF Proj
    <3>5. CASE t[1] # j /\ ~Migrates(t[1])
      BY <1>4, <3>1, <3>2, <3>5
    <3>6. QED
      BY <3>3, <3>4, <3>5
  <2>3. CASE Record(t)
    <3>1. job'[j].status = job[j].status
      BY <1>1, <2>1, <2>3 DEF Record, TypeOK, Row
    <3>2. PICK story : project' \in {project, [project EXCEPT ![Proj(t)].story = story]}
      BY <2>3 DEF Record
    <3>3. project'[p].status = project[p].status
      <4>1. project'[p] \in {project[p], [project[p] EXCEPT !.story = story]}
        BY <1>1, <3>2 DEF TypeOK
      <4>2. QED
        BY <1>1, <4>1 DEF ProjectRow
    <3>4. QED
      BY <1>4, <3>1, <3>3
  <2>4. CASE Complete(t)
    <3>1. CASE Kind(t) # "migration"
      BY <1>4, <1>12, <2>4, <3>1, StepOfTask DEF Complete, Kind, Migrates
    <3>2. CASE Kind(t) = "migration"
      <4> DEFINE new == [status |-> "completed",
                         story  |-> IF lock[Proj(t)] = t
                                    THEN <<t[1], "story", task[t].row.key["story"]>>
                                    ELSE project[Proj(t)].story]
      <4>1. project' = [project EXCEPT ![Proj(t)] = new]
        BY <2>4, <3>2 DEF Complete
      <4>2. new.status = "completed"
        OBVIOUS
      <4> HIDE DEF new
      <4>3. CASE t[1] = j
        <5>1. task[t].row.status # "completed"
          BY <1>1, <2>4, <4>3 DEF Progress, OnTrack, Making, Complete
        <5>2. job'[j].status = "completed"
          BY <1>1, <2>4, <4>3, <5>1 DEF Complete, TypeOK, Row
        <5>3. QED
          BY <1>1, <4>1, <4>2, <4>3, <5>2 DEF TypeOK, Proj
      <4>4. CASE t[1] # j
        <5>1. Proj(t) # p
          BY <1>8, <2>1, <3>2, <4>4 DEF Proj, Kind, Migrates
        <5>2. job'[j] = job[j] /\ project'[p] = project[p]
          BY <1>1, <1>12, <2>1, <4>1, <4>4, <5>1, StepOfTask DEF TypeOK
        <5>3. QED
          BY <1>4, <5>2
      <4>5. QED
        BY <4>3, <4>4
    <3>3. QED
      BY <3>1, <3>2
  <2>5. QED
    BY <1>7, <1>12, <2>2, <2>3, <2>4
    DEF TaskStep, Resume, Refresh, Exit, JiraFails, ReplyLost, Skip, CallJira, Act, RecoverFails
<1>13. ASSUME NEW v \in Pods, ResetStale(v) PROVE Goal
  <2> DEFINE after(i) == IF i \in sweep[v].cur THEN "pending" ELSE "failed"
             of(q) == {i \in sweep[v].todo : Migrates(i) /\ JobProject[i] = q}
  <2>1. PICK last \in [Projects -> Jobs] :
           /\ \A q \in Projects : of(q) # {} => last[q] \in of(q) /\ lock[q] = NoTask
           /\ project' = [q \in Projects |->
                IF of(q) = {} THEN project[q]
                ELSE [project[q] EXCEPT !.status = after(last[q])]]
    BY <1>13 DEF ResetStale
  <2>2. /\ sweep[v].todo \subseteq Jobs
        /\ \A i \in sweep[v].todo : job[i].status # "absent"
    BY DEF TypeOK, Sweeps, Requested
  <2>3. job' = [i \in Jobs |->
              IF i \in sweep[v].todo THEN [job[i] EXCEPT !.status = after(i)] ELSE job[i]]
    BY <1>13 DEF ResetStale
  <2>4. of(p) = IF j \in sweep[v].todo THEN {j} ELSE {}
    BY <1>8, <2>2
  <2>5. CASE j \in sweep[v].todo
    <3>1. job'[j].status = after(j)
      BY <1>1, <2>3, <2>5 DEF Row
    <3>2. last[p] = j /\ project'[p].status = after(j)
      BY <1>1, <2>1, <2>4, <2>5 DEF ProjectRow
    <3>3. QED
      BY <3>1, <3>2
  <2>6. CASE j \notin sweep[v].todo
    BY <1>1, <1>4, <2>1, <2>3, <2>4, <2>6
  <2>7. QED
    BY <2>5, <2>6
<1>14. QED
  BY <1>7, <1>11, <1>12, <1>13
  DEF Next, StartUp, Fault, Claim, Restart, Started, SweepStep, SweepRead, SweepCheck,
      SweepSpawn, SweepFault, Crash, vars

-----------------------------------------------------------------------------
(* What a finished job has to show.                                          *)

\* The inductive invariant of what follows.
Ordered == Ind /\ KeysExist /\ KeysHeld /\ StoryFirst /\ Progress /\ StoryKnown

LEMMA OrderedInit == Init => Ordered
<1> SUFFICES ASSUME Init PROVE Ordered
  OBVIOUS
<1>1. \A t \in Tasks : task[t] = Idle
  BY DEF Init
<1>2. Idle.pc = "idle" /\ Idle.row.key = NoKeys /\ Idle.hasStory = FALSE
  BY DEF Idle, NewRow
<1>3. NoKeys["story"] = NoKey /\ NoKeys["cr"] = NoKey
  BY DEF NoKeys, Units
<1>4. StoryFirst
  BY <1>1, <1>2, <1>3 DEF StoryFirst, InOrder
<1>5. Progress
  BY <1>1, <1>2 DEF Progress, OnTrack, Underway, Making
<1>6. StoryKnown
  <2>1. \A j \in Jobs : job[j].key = NoKeys
    BY DEF Init, NewRow
  <2>2. QED
    BY <1>1, <1>2, <1>3, <2>1 DEF StoryKnown
<1>7. QED
  BY <1>4, <1>5, <1>6, IndInit, KeysInit DEF Ordered

LEMMA OrderedStep == Ordered /\ [Next]_vars => Ordered'
<1> SUFFICES ASSUME Ordered, [Next]_vars PROVE Ordered'
  OBVIOUS
<1>1. /\ TypeOK /\ TypeOK' /\ Asleep /\ Requested /\ KeysExist /\ KeysHeld /\ StoryFirst
      /\ Progress /\ StoryKnown /\ \A j \in Jobs \ overlap : Whole(j)
  BY TypeStep DEF Ordered, Ind
<1>2. Ind' /\ KeysExist' /\ KeysHeld'
  BY <1>1, IndStep, KeysStep DEF Ordered
<1>3. StoryFirst'
  BY <1>1, InOrderStep DEF StoryFirst
<1>4. \A j \in Jobs \ overlap : SoleTask(j)
  BY <1>1 DEF Whole
<1>5. StoryKnown'
  BY <1>1, <1>4, StoryKnownStep
<1>6. ASSUME NEW t \in Tasks, t[1] \notin overlap' PROVE OnTrack(t)'
  <2>1. SoleTask(t[1])
    BY <1>1, <1>4, <1>6, TaskParts, HistoryGrows
  <2>2. QED
    BY <1>1, <1>6, <2>1, OnTrackStep
<1>7. Progress'
  BY <1>6 DEF Progress
<1>8. QED
  BY <1>2, <1>3, <1>5, <1>7 DEF Ordered

\* jira_service.py:655-713, 806-826: the story before its subtasks, the change
\* request before its links; a job that says "completed" has all of them.
THEOREM CompletedJobsAreWhole == Spec => []CompletedIsWhole
<1>1. Init => CompletedIsWhole
  BY DEF Init, CompletedIsWhole, NewRow
<1>2. Ordered /\ CompletedIsWhole /\ [Next]_vars => CompletedIsWhole'
  BY TypeStep, WholeWhenCompleted DEF Ordered, Ind
<1>3. QED
  BY <1>1, <1>2, OrderedInit, OrderedStep, PTL DEF Spec

\* jira_service.py:831-844: a completed operation job has linked every selected
\* subtask, after however many failed attempts.
THEOREM EverySubtaskLinked == Spec => []OperationLinksAll
<1>1. Init => OperationLinksAll
  BY DEF Init, OperationLinksAll, NewRow
<1>2. Ordered /\ OperationLinksAll /\ [Next]_vars => OperationLinksAll'
  BY LinksStep DEF Ordered, Ind
<1>3. QED
  BY <1>1, <1>2, OrderedInit, OrderedStep, PTL DEF Spec

\* jira_service.py:130-240, 264-297: jira_job_status of a project is the status of
\* its only migration job, through retries, failures and restarts.
THEOREM ProjectShowsItsJob == Spec => []ProjectMirrorsJob
<1>1. Init => ProjectMirrorsJob
  BY DEF Init, ProjectMirrorsJob, NewRow
<1>2. Ordered /\ ProjectMirrorsJob /\ [Next]_vars => ProjectMirrorsJob'
  BY MirrorStep DEF Ordered, Ind
<1>3. QED
  BY <1>1, <1>2, OrderedInit, OrderedStep, PTL DEF Spec

-----------------------------------------------------------------------------
(* What a completed job has done for the scope of its project.               *)

\* Without an edit no resource enters or leaves the scope, and edits are counted.
LEMMA ScopeEdits ==
    ASSUME TypeOK, [Next]_vars
    PROVE  \/ /\ spent'["edit"] = spent["edit"]
              /\ \A r \in Resources : resource'[r].inScope = resource[r].inScope
           \/ spent["edit"] < Limit["edit"] /\ spent'["edit"] = spent["edit"] + 1
<1> USE DEF mem, jira, db
<1> DEFINE Same == /\ spent'["edit"] = spent["edit"]
                   /\ \A r \in Resources : resource'[r].inScope = resource[r].inScope
           Goal == Same \/ (spent["edit"] < Limit["edit"] /\ spent'["edit"] = spent["edit"] + 1)
<1>1. /\ spent \in [Events -> Nat] /\ "edit" \in Events
      /\ \A r \in Resources : resource[r] \in ResourceRow
  BY DEF TypeOK, Events
<1>2. CASE spent' = spent /\ resource' = resource
  BY <1>2
<1>3. ASSUME NEW e \in Events \ {"edit"}, Occurs(e), resource' = resource PROVE Goal
  BY <1>1, <1>3 DEF Occurs
<1>4. {"crash", "retry", "reset", "fault", "lost"} \subseteq Events \ {"edit"}
  BY DEF Events
<1>5. CASE Request
  <2>1. ASSUME NEW v \in Fronts, NEW j \in Jobs, Create(v, j) PROVE Goal
    BY <1>2, <2>1 DEF Create
  <2>2. ASSUME NEW v \in Fronts, NEW p \in Projects, Retry(v, p) PROVE Goal
    BY <1>3, <1>4, <2>2 DEF Retry
  <2>3. ASSUME NEW p \in Projects, ResetProject(p) PROVE Goal
    BY <1>3, <1>4, <2>3 DEF ResetProject
  <2>4. ASSUME NEW x \in Resources, SyncWithoutJob(x) PROVE Goal
    <3>1. \A r \in Resources : resource'[r].inScope = resource[r].inScope
      BY <1>1, <2>4 DEF SyncWithoutJob, TypeOK, ResourceRow
    <3>2. QED
      BY <2>4, <3>1 DEF SyncWithoutJob
  <2>5. ASSUME NEW x \in Resources, EditScope(x) PROVE Goal
    BY <1>1, <2>5 DEF EditScope, Occurs
  <2>6. QED
    BY <1>5, <2>1, <2>2, <2>3, <2>4, <2>5 DEF Request
<1>6. ASSUME NEW t \in Tasks, TaskStep(t) PROVE Goal
  <2>1. CASE Complete(t)
    <3>1. \/ resource' = resource
          \/ resource' = [r \in Resources |-> IF r \in InScope(Proj(t))
                             THEN [resource[r] EXCEPT !.key = WriteBack(t, r)] ELSE resource[r]]
          \/ resource' = [r \in Resources |-> IF r \in job[t[1]].sel
                             THEN [resource[r] EXCEPT !.migrated = TRUE] ELSE resource[r]]
      BY <2>1 DEF Complete
    <3>2. \A r \in Resources : resource'[r].inScope = resource[r].inScope
      BY <1>1, <3>1 DEF ResourceRow
    <3>3. QED
      BY <2>1, <3>2 DEF Complete
  <2>2. ASSUME NEW r \in Resources, Act(t, r) PROVE Goal
    BY <1>2, <2>2 DEF Act
  <2>3. CASE ReplyLost(t)
    BY <1>3, <1>4, <2>3 DEF ReplyLost
  <2>4. ASSUME NEW u \in Units, Skip(t, u) \/ CallJira(t, u) PROVE Goal
    BY <1>2, <2>4 DEF Skip, CallJira
  <2>5. CASE Begin(t) \/ Resume(t) \/ Record(t) \/ Refresh(t)
    BY <1>2, <2>5 DEF Begin, Resume, Record, Refresh
  <2>6. CASE Recover(t) \/ Exit(t) \/ JiraFails(t)
    BY <1>2, <2>6 DEF Recover, Exit, JiraFails
  <2>7. QED
    BY <1>6, <2>1, <2>2, <2>3, <2>4, <2>5, <2>6 DEF TaskStep
<1>7. CASE Fault
  BY <1>3, <1>4, <1>7 DEF Fault, Crash, SweepFault, RecoverFails
<1>8. ASSUME NEW v \in Pods, SweepStep(v) \/ StartUp(v) PROVE Goal
  BY <1>2, <1>8
  DEF SweepStep, StartUp, SweepRead, SweepCheck, SweepSpawn, Restart, Started, ResetStale
<1>9. ASSUME NEW v \in Pods, NEW j \in Jobs, Claim(v, j) PROVE Goal
  BY <1>2, <1>9 DEF Claim
<1>10. CASE UNCHANGED vars
  BY <1>2, <1>10 DEF vars
<1>11. QED
  BY <1>5, <1>6, <1>7, <1>8, <1>9, <1>10 DEF Next

\* So, as long as there was none, a project has the scope it had.
LEMMA ScopeStays ==
    ASSUME TypeOK, [Next]_vars, spent'["edit"] = 0
    PROVE  spent["edit"] = 0 /\ \A p \in Projects : InScope(p)' = InScope(p)
<1>1. spent["edit"] \in Nat
  BY DEF TypeOK, Events
<1>2. /\ spent["edit"] = 0
      /\ \A r \in Resources : resource'[r].inScope = resource[r].inScope
  BY <1>1, ScopeEdits
<1>3. QED
  BY <1>2 DEF InScope

LEMMA OnScopeStep ==
    ASSUME TypeOK, Asleep, Requested, KeysHeld, ScopeInHand, [Next]_vars,
           NEW t \in Tasks, t[1] \notin overlap', SoleTask(t[1])
    PROVE  OnScope(t)'
<1> DEFINE j == t[1]
           Left(b) == \/ b \in task'[t].todo \/ job'[j].key[b] # NoKey
                      \/ (task'[t].pc = "reply" /\ task'[t].unit = b)
<1> SUFFICES ASSUME Making(t)', Migrates(j), job'[j].sel = {}, spent'["edit"] = 0,
                    NEW r \in InScope(JobProject[j])'
             PROVE  Left(BucketOf[r])
  BY DEF OnScope, Migrates
<1>1. /\ j \in Jobs /\ t[2] \in Slots /\ t = <<j, t[2]>>
      /\ task[t] \in Frame /\ job[j] \in Row /\ JobProject[j] \in Projects
  BY ConstantsOK, TaskParts DEF TypeOK
<1>2. spent["edit"] = 0 /\ r \in InScope(JobProject[j]) /\ j \notin overlap
  BY <1>1, ScopeStays, HistoryGrows
<1> DEFINE b == BucketOf[r]
<1>3. b \in Buckets /\ b \in Units /\ b # "story"
  BY ConstantsOK, <1>2 DEF InScope, Units
<1>4. Making(t) /\ job[j].sel = {} =>
         b \in task[t].todo \/ job[j].key[b] # NoKey \/ (task[t].pc = "reply" /\ task[t].unit = b)
  BY <1>2 DEF ScopeInHand, OnScope
<1> SUFFICES Left(b)
  OBVIOUS
<1> HIDE DEF b
<1>5. CASE task'[t] = task[t] /\ SameRow(j)
  BY <1>4, <1>5 DEF SameRow, Making
<1>6. CASE Calm(j)
  <2>1. task'[t] = task[t] \/ task'[t] \in {Idle, Fresh}
    BY <1>1, <1>6 DEF Calm
  <2>2. CASE task'[t] \in {Idle, Fresh}
    BY <2>2 DEF Idle, Fresh, Making
  <2>3. QED
    BY <1>5, <1>6, <2>1, <2>2 DEF Calm
<1>7. CASE Inserted(j)
  BY <1>1, <1>7 DEF Inserted, Making
<1>8. ASSUME NEW x \in Tasks, x # t, x[1] = j, TaskStep(x) \/ RecoverFails(x)
      PROVE  Left(b)
  <2>1. task'[t] = task[t] /\ ~Working(x)
    BY <1>1, <1>8, StepOfTask, OnlyOne DEF Underway, Making, Working
  <2>2. task[x].pc = "exit"
    BY <1>8, <2>1, StepOfTask DEF Working
  <2>3. job' = job
    BY <1>8, <2>2, StepKinds DEF Begins, Records, Completes, Recovers
  <2>4. QED
    BY <1>5, <2>1, <2>3 DEF SameRow
<1>9. CASE TaskStep(t) \/ RecoverFails(t)
  <2>1. CASE Begins(t)
    <3>1. job[j].sel = {} /\ task'[t].todo = Plan(j)
      BY <2>1 DEF Begins, SameRow, Todo, Migrates
    <3>2. QED
      BY <1>2, <3>1 DEF Plan, b
  <2>2. CASE Records(t)
    <3> DEFINE u == task[t].unit
    <3>1. task[t].n # NoKey /\ u \in Units /\ task[t].n \in Keys
      BY <2>2, ReplyHasKey DEF Records
    <3>2. job[j].key \in [Units -> Keys] /\ task[t].row.key = job[j].key
      BY <1>1, <2>2 DEF Row, Records, SoleTask
    <3>3. job'[j].key[b] = IF b = u THEN task[t].n ELSE job[j].key[b]
      BY <1>3, <2>2, <3>1, <3>2 DEF Records
    <3>4. Making(t) /\ job[j].sel = {} /\ task'[t].todo = task[t].todo
      BY <2>2 DEF Records, Becomes, Making
    <3>5. QED
      BY <1>4, <3>1, <3>3, <3>4
  <2>3. CASE (Resumes(t) \/ Refreshes(t)) /\ job' = job
    BY <1>4, <2>3 DEF Resumes, Refreshes, Becomes, Making
  <2>4. ASSUME NEW u \in Units, Skips(t, u), job' = job PROVE Left(b)
    <3>1. job[j].key[u] # NoKey
      BY <1>1, <2>4 DEF Skips, SoleTask
    <3>2. QED
      BY <1>4, <2>4, <3>1 DEF Skips, Becomes, Making
  <2>5. ASSUME NEW u \in Units, Calls(t, u), job' = job PROVE Left(b)
    BY <1>4, <2>5 DEF Calls, Creates, Becomes, Making
  <2>6. ASSUME NEW x \in Resources, ActsOn(t, x) PROVE FALSE
    BY <2>6 DEF ActsOn, Acts
  <2>7. CASE Fails(t) \/ Completes(t) \/ Recovers(t) \/ Exits(t)
    BY <2>7 DEF Fails, Completes, Recovers, Exits, Becomes, Making
  <2>8. QED
    BY <1>9, <2>1, <2>2, <2>3, <2>4, <2>5, <2>6, <2>7, StepKinds
<1>10. QED
  BY <1>1, <1>6, <1>7, <1>8, <1>9, StepOfJob

\* Only the last commit of process_job makes a job completed.
LEMMA CompletedByTask ==
    ASSUME TypeOK, Asleep, Requested, [Next]_vars, NEW j \in Jobs,
           job[j].status # "completed", job'[j].status = "completed"
    PROVE  \E t \in Tasks : t[1] = j /\ Complete(t)
<1>1. PICK t \in Tasks : t[1] = j /\ (TaskStep(t) \/ RecoverFails(t))
  BY StepOfJob DEF Calm, Inserted
<1>2. job[j] \in Row
  BY DEF TypeOK
<1>3. ASSUME job' = job PROVE FALSE
  BY <1>3
<1>4. ASSUME Begin(t) PROVE FALSE
  BY <1>1, <1>2, <1>4 DEF Begin, TypeOK, Row
<1>5. ASSUME Record(t) PROVE FALSE
  <2>1. \E key : job' = [job EXCEPT ![j].key = key]
    BY <1>1, <1>5 DEF Record
  <2>2. QED
    BY <1>2, <2>1 DEF TypeOK, Row
<1>6. ASSUME Recover(t) PROVE FALSE
  BY <1>1, <1>2, <1>6 DEF Recover, TypeOK, Row
<1>7. QED
  BY <1>1, <1>3, <1>4, <1>5, <1>6
  DEF TaskStep, Resume, Refresh, Skip, CallJira, JiraFails, ReplyLost, Act, Exit,
      RecoverFails, db

\* jira_service.py:707-752: a migration job for all resources in scope creates
\* what its plan says and writes a key back to each of them, so, if nobody
\* changes the scope, none is left without.
THEOREM CompletionCovers ==
    ASSUME Limit["edit"] = 0 PROVE Spec => CompletionCoversScope
<1> DEFINE Unedited == spent["edit"] = 0
           Inv == Ordered /\ ScopeInHand /\ Unedited
           Covers == \A j \in Jobs \ overlap :
                        /\ Migrates(j) /\ job[j].sel = {}
                        /\ job[j].status # "completed" /\ job'[j].status = "completed"
                        => \A r \in InScope(JobProject[j]) : resource'[r].key # NoRef
<1>1. Init => Inv
  <2>1. Init => ScopeInHand
    BY DEF Init, ScopeInHand, OnScope, Making, Idle
  <2>2. Init => Unedited
    BY DEF Init, Events
  <2>3. QED
    BY <2>1, <2>2, OrderedInit
<1>2. Inv /\ [Next]_vars => Inv'
  <2> SUFFICES ASSUME Inv, [Next]_vars PROVE Inv'
    OBVIOUS
  <2>1. /\ TypeOK /\ Asleep /\ Requested /\ KeysHeld
        /\ \A j \in Jobs \ overlap : SoleTask(j)
    BY DEF Ordered, Ind, Whole
  <2>2. Unedited'
    BY <2>1, ScopeEdits
  <2>3. ASSUME NEW t \in Tasks, t[1] \notin overlap' PROVE OnScope(t)'
    BY <2>1, <2>3, TaskParts, HistoryGrows, OnScopeStep
  <2>4. ScopeInHand'
    BY <2>3 DEF ScopeInHand
  <2>5. QED
    BY <2>2, <2>4, OrderedStep
<1>3. Inv /\ [Next]_vars => Covers
  <2> SUFFICES ASSUME Inv, [Next]_vars, NEW j \in Jobs, j \notin overlap,
                      Migrates(j), job[j].sel = {},
                      job[j].status # "completed", job'[j].status = "completed",
                      NEW r \in InScope(JobProject[j])
               PROVE  resource'[r].key # NoRef
    OBVIOUS
  <2>1. /\ TypeOK /\ Asleep /\ Requested /\ KeysHeld /\ SoleTask(j)
    BY DEF Ordered, Ind, Whole
  <2>2. PICK t \in Tasks : t[1] = j /\ Complete(t)
    BY <2>1, CompletedByTask
  <2>3. /\ task[t].pc = "loop" /\ task[t].todo = {} /\ r \in Resources
        /\ BucketOf[r] \in Units
    BY ConstantsOK, <2>2 DEF Complete, InScope, Units
  <2>4. job[j].key[BucketOf[r]] # NoKey
    BY <2>2, <2>3 DEF ScopeInHand, OnScope, Making
  <2>5. task[t].row.key = job[j].key /\ task[t] \in Frame
    <3>1. t = <<j, t[2]>> /\ t[2] \in Slots
      BY <2>2, TaskParts
    <3>2. QED
      BY <2>1, <2>3, <3>1 DEF SoleTask, TypeOK
  <2>6. WriteBack(t, r) = <<j, BucketOf[r], task[t].row.key[BucketOf[r]]>>
    BY <2>2, <2>4, <2>5 DEF WriteBack
  <2>7. WriteBack(t, r) # NoRef
    <3>1. task[t].row.key[BucketOf[r]] \in Keys
      BY <2>3, <2>5 DEF Frame, Row
    <3>2. QED
      BY ConstantsOK, <2>3, <2>6, <3>1
  <2>8. resource' = [x \in Resources |-> IF x \in InScope(JobProject[j])
                        THEN [resource[x] EXCEPT !.key = WriteBack(t, x)] ELSE resource[x]]
    BY <2>2 DEF Complete, Kind, Migrates, Proj
  <2>9. resource[r] \in ResourceRow
    BY <2>1, <2>3 DEF TypeOK
  <2>10. QED
    BY <2>3, <2>7, <2>8, <2>9 DEF ResourceRow
<1>4. QED
  BY <1>1, <1>2, <1>3, PTL DEF Spec, CompletionCoversScope

-----------------------------------------------------------------------------
(* Where every process runs the start-up code, no job is stranded.           *)

LEMMA CoveredStep ==
    ASSUME Pods \subseteq Workers, TypeOK, Asleep, Requested, Progress, NEW j \in Jobs,
           j \notin overlap', SoleTask(j), Covered(j), [Next]_vars
    PROVE  Covered(j)'
<1> USE DEF mem, jira, db
<1> SUFFICES ASSUME job'[j].status = "processing", spent'["fault"] = 0
             PROVE  \/ \E s \in Slots : Underway(<<j, s>>)'
                    \/ \E v \in Pods : \/ server'[v] = "down"
                                       \/ sweep'[v].phase = "reset" /\ j \in sweep'[v].todo
  BY DEF Covered
<1> DEFINE Waits(v) == \/ server[v] = "down"
                       \/ sweep[v].phase = "reset" /\ j \in sweep[v].todo
           Waiting(v) == \/ server'[v] = "down"
                         \/ sweep'[v].phase = "reset" /\ j \in sweep'[v].todo
           Goal == \/ \E s \in Slots : Underway(<<j, s>>)'
                   \/ \E v \in Pods : Waiting(v)
<1>1. /\ spent["fault"] = 0 /\ j \notin overlap /\ job[j] \in Row
      /\ \A s \in Slots : <<j, s>> \in Tasks
  BY HistoryGrows DEF TypeOK, Tasks
<1>2. job[j].status = "processing" =>
         \/ \E s \in Slots : Underway(<<j, s>>)
         \/ \E v \in Pods : Waits(v)
  BY <1>1 DEF Covered
<1>3. ASSUME job'[j] = job[j], \A v \in Pods : Waits(v) => Waiting(v),
             \A s \in Slots : Underway(<<j, s>>) => task'[<<j, s>>] = task[<<j, s>>]
      PROVE  Goal
  BY <1>2, <1>3 DEF Underway, Making
<1>4. CASE UNCHANGED <<job, task, sweep, server>>
  BY <1>3, <1>4
<1>5. CASE Request
  <2>1. ASSUME NEW v \in Fronts, NEW i \in Jobs, Create(v, i) PROVE Goal
    <3>1. PICK sel : job' = [job EXCEPT ![i] = [NewRow EXCEPT !.status = "pending", !.sel = sel]]
      BY <2>1 DEF Create
    <3>2. job'[j] = job[j]
      BY <3>1 DEF TypeOK, NewRow
    <3>3. QED
      BY <1>3, <2>1, <3>2 DEF Create
  <2>2. ASSUME NEW v \in Fronts, NEW p \in Projects, Retry(v, p) PROVE Goal
    <3>1. PICK i \in Jobs : job' = [job EXCEPT ![i].status = "pending"]
      BY <2>2 DEF Retry, Retryable
    <3>2. job'[j] = job[j]
      BY <1>1, <3>1 DEF TypeOK, Row
    <3>3. QED
      BY <1>3, <2>2, <3>2 DEF Retry
  <2>3. QED
    BY <1>4, <1>5, <2>1, <2>2 DEF Request, ResetProject, SyncWithoutJob, EditScope
<1>6. ASSUME NEW v \in Pods, NEW i \in Jobs, Spawn(v, i), job' = job, server' = server,
             \A w \in Pods : sweep[w].phase = "reset" => sweep'[w] = sweep[w]
      PROVE  Goal
  <2>1. PICK x \in Slots : /\ task[<<i, x>>].pc = "idle"
                           /\ task' = [task EXCEPT ![<<i, x>>] = Fresh]
    BY <1>6 DEF Spawn
  <2>2. \A s \in Slots : Underway(<<j, s>>) => task'[<<j, s>>] = task[<<j, s>>]
    BY <1>1, <2>1 DEF TypeOK, Underway, Making
  <2>3. QED
    BY <1>3, <1>6, <2>2
<1>7. ASSUME NEW v \in Pods, sweep[v].phase # "reset",
             \E new : sweep' = [sweep EXCEPT ![v] = new]
      PROVE  \A w \in Pods : sweep[w].phase = "reset" => sweep'[w] = sweep[w]
  BY <1>7 DEF TypeOK
<1>8. ASSUME NEW v \in Pods, SweepStep(v) PROVE Goal
  <2>1. /\ sweep[v].phase # "reset"
        /\ \E new : sweep' = [sweep EXCEPT ![v] = new]
    BY <1>8 DEF SweepStep, SweepRead, SweepCheck, SweepSpawn, Advance
  <2>2. \A w \in Pods : sweep[w].phase = "reset" => sweep'[w] = sweep[w]
    BY <1>7, <2>1
  <2>3. CASE SweepRead(v) \/ SweepCheck(v)
    BY <1>3, <2>2, <2>3 DEF SweepRead, SweepCheck
  <2>4. ASSUME NEW i \in Jobs, SweepSpawn(v, i) PROVE Goal
    BY <1>6, <2>2, <2>4 DEF SweepSpawn
  <2>5. QED
    BY <1>8, <2>3, <2>4 DEF SweepStep
<1>9. ASSUME NEW v \in Pods, Restart(v) PROVE Goal
  <2>1. /\ server[v] = "down" /\ UNCHANGED <<job, task>> /\ server' = [server EXCEPT ![v] = "starting"]
        /\ sweep' = [sweep EXCEPT ![v] =
              [phase |-> "reset", todo |-> Stale, cur |-> {i \in Stale : Resumed(i)}]]
    BY <1>9 DEF Restart
  <2>2. sweep'[v].phase = "reset" /\ j \in sweep'[v].todo
    BY <2>1 DEF TypeOK, Stale
  <2>3. QED
    BY <2>2
<1>10. ASSUME NEW v \in Pods, ResetStale(v) PROVE Goal
  <2>1. PICK x \in Slots :
           task' = [t \in Tasks |->
              IF t[2] = x /\ t[1] \in sweep[v].cur THEN Fresh ELSE task[t]]
    BY <1>10 DEF ResetStale
  <2>2. /\ sweep[v].phase = "reset" /\ server' = server
        /\ overlap' = overlap \cup {i \in sweep[v].cur : \E s \in Slots : Working(<<i, s>>)}
        /\ sweep' = [sweep EXCEPT ![v] = [NoSweep EXCEPT !.phase = "boot"]]
        /\ job' = [i \in Jobs |->
              IF i \in sweep[v].todo
              THEN [job[i] EXCEPT !.status = IF i \in sweep[v].cur THEN "pending" ELSE "failed"]
              ELSE job[i]]
    BY <1>10 DEF ResetStale
  <2>3. j \notin sweep[v].todo /\ job'[j] = job[j]
    BY <1>1, <2>2 DEF Row
  <2>4. ASSUME NEW s \in Slots, Underway(<<j, s>>) PROVE task'[<<j, s>>] = task[<<j, s>>]
    <3>1. j \notin sweep[v].cur
      BY <2>2, <2>4 DEF Underway, Making, Working
    <3>2. QED
      BY <1>1, <2>1, <3>1
  <2>5. \A w \in Pods : w # v => sweep'[w] = sweep[w]
    BY <2>2 DEF TypeOK
  <2>6. \A w \in Pods : Waits(w) => Waiting(w)
    BY <2>2, <2>3, <2>5
  <2>7. QED
    BY <1>3, <2>3, <2>4, <2>6
<1>11. ASSUME NEW v \in Pods, Started(v) PROVE Goal
  BY <1>3, <1>11 DEF Started, TypeOK
<1>12. ASSUME NEW v \in Pods, Crash(v) PROVE Goal
  BY <1>12 DEF Crash, TypeOK
<1>13. ASSUME NEW v \in Pods, SweepFault(v) PROVE FALSE
  BY <1>13 DEF SweepFault, Occurs, TypeOK, Events
<1>14. ASSUME NEW t \in Tasks, TaskStep(t) \/ RecoverFails(t) PROVE Goal
  <2>1. /\ t[1] \in Jobs /\ t[2] \in Slots /\ t = <<t[1], t[2]>>
        /\ UNCHANGED <<sweep, server>>
        /\ \A x \in Tasks : x # t => task'[x] = task[x]
        /\ t[1] # j => job'[j] = job[j]
    BY <1>14, TaskParts, StepOfTask
  <2>2. CASE t[1] # j
    BY <1>1, <1>3, <2>1, <2>2
  <2>3. CASE t[1] = j
    <3>1. CASE Underway(t)'
      BY <2>1, <2>3, <3>1
    <3>2. CASE Completes(t)
      BY <1>1, <2>3, <3>2 DEF Completes, Progress, OnTrack, Underway, Making
    <3>3. CASE Recovers(t)
      BY <2>3, <3>3 DEF Recovers
    <3>4. CASE Exits(t) /\ job' = job
      <4>1. ~Underway(t)
        BY <3>4 DEF Exits, Underway, Making
      <4>2. QED
        BY <1>1, <1>3, <2>1, <3>4, <4>1
    <3>5. Underway(t)' \/ Completes(t) \/ Recovers(t) \/ (Exits(t) /\ job' = job)
      <4>1. CASE Begins(t)
        BY <4>1 DEF Begins, Underway, Making
      <4>2. QED
        BY <1>14, <4>1, StepKinds
        DEF Underway, Making, Becomes, Records, Resumes, Refreshes, Fails, Skips, Calls, ActsOn
    <3>6. QED
      BY <3>1, <3>2, <3>3, <3>4, <3>5
  <2>4. QED
    BY <2>2, <2>3
<1>15. ASSUME NEW v \in Pods, NEW i \in Jobs, Claim(v, i) PROVE Goal
  BY <1>6, <1>15 DEF Claim
<1>16. QED
  BY <1>4, <1>5, <1>8, <1>9, <1>10, <1>11, <1>12, <1>13, <1>14, <1>15
  DEF Next, StartUp, Fault, vars

\* jira_service.py:130-165, main.py:43-58: where every process runs the start-up
\* code, a job that says "processing" is being processed, or a start-up that
\* will find it is under way.
THEOREM NothingStranded ==
    ASSUME Pods \subseteq Workers
    PROVE  Spec => []NoStrandedJob
<1> DEFINE Inv == Ordered /\ \A j \in Jobs \ overlap : Covered(j)
<1>1. Init => Inv
  BY OrderedInit DEF Init, Covered, NewRow
<1>2. Inv /\ [Next]_vars => Inv'
  <2> SUFFICES ASSUME Inv, [Next]_vars PROVE Inv'
    OBVIOUS
  <2>1. Ordered'
    BY OrderedStep
  <2>2. ASSUME NEW j \in Jobs, j \notin overlap' PROVE Covered(j)'
    <3>1. TypeOK /\ Asleep /\ Requested /\ Progress
      BY DEF Ordered, Ind
    <3>2. j \notin overlap
      BY <2>2, <3>1, HistoryGrows
    <3>3. Covered(j) /\ SoleTask(j)
      BY <3>2 DEF Ordered, Ind, Whole
    <3>4. QED
      BY <2>2, <3>1, <3>3, CoveredStep
  <2>3. QED
    BY <2>1, <2>2
<1>3. Inv => NoStrandedJob
  BY DEF Covered, NoStrandedJob, Underway, Making
<1>4. QED
  BY <1>1, <1>2, <1>3, PTL DEF Spec

-----------------------------------------------------------------------------
(* The queue implements IssueLedger.                                         *)

\* A step that asks for nothing, records nothing and completes nothing reopens
\* the jobs that are completed no more; those that are shared now show nothing.
LEMMA Reopens ==
    ASSUME TypeOK, [Next]_vars,
           \A j \in Jobs \ overlap' : /\ job'[j].key = job[j].key
                                      /\ job'[j].status = "completed" => job[j].status = "completed"
                                      /\ Asked(j)' = Asked(j)
    PROVE  [Ledger!Next]_(Ledger!vars)
<1> DEFINE shared == overlap' \ overlap
           again == {j \in Jobs \ overlap : j \in shared \/ job'[j].status # "completed"}
<1>1. overlap \subseteq overlap' /\ overlap' \subseteq Jobs
  BY HistoryGrows
<1>2. overlap' = overlap \cup shared
  BY <1>1
<1>3. Recorded' = [j \in Jobs |-> IF j \in shared THEN {} ELSE Recorded[j]]
  BY <1>1 DEF Recorded
<1>4. Open' = [j \in Jobs |-> IF j \in shared THEN {} ELSE Open[j]]
  BY <1>1 DEF Open
<1>5. Finished' = Finished \ again
  BY <1>1 DEF Finished
<1>6. Ledger!Reopen(again, shared)
  BY <1>2, <1>3, <1>4, <1>5 DEF Ledger!Reopen
<1>7. again \in SUBSET (Jobs \ overlap) /\ shared \in SUBSET again
  BY <1>1
<1> HIDE DEF again, shared
<1>8. QED
  BY <1>6, <1>7 DEF Ledger!Next

\* Of an unshared job, a task that works is the only one that may have asked.
LEMMA AskedBy ==
    ASSUME NEW j \in Jobs, SoleTask(j), NEW t \in Tasks, t[1] = j, Working(t)
    PROVE  Asked(j) = IF task[t].pc = "reply" THEN {task[t].unit} ELSE {}
<1>1. t[2] \in Slots /\ t = <<j, t[2]>>
  BY TaskParts
<1>2. \A s \in Slots : task[<<j, s>>].pc = "reply" => s = t[2]
  BY <1>1 DEF SoleTask, Working
<1>3. QED
  BY <1>1, <1>2 DEF Asked

\* The same after the step of that task.
LEMMA AskedAfter ==
    ASSUME NEW j \in Jobs, SoleTask(j), NEW t \in Tasks, t[1] = j, Working(t),
           TypeOK, TaskStep(t) \/ RecoverFails(t)
    PROVE  Asked(j)' = IF task'[t].pc = "reply" THEN {task'[t].unit} ELSE {}
<1>1. t[2] \in Slots /\ t = <<j, t[2]>>
  BY TaskParts
<1>2. \A s \in Slots : s # t[2] => task'[<<j, s>>] = task[<<j, s>>] /\ task[<<j, s>>].pc # "reply"
  <2> TAKE s \in Slots
  <2>1. s # t[2] => <<j, s>> # t /\ <<j, s>> \in Tasks
    BY <1>1 DEF Tasks
  <2>2. s # t[2] => ~Working(<<j, s>>)
    BY <1>1 DEF SoleTask
  <2>3. QED
    BY <2>1, <2>2, StepOfTask DEF Working
<1>3. QED
  BY <1>1, <1>2 DEF Asked

LEMMA LedgerTask ==
    ASSUME Ordered, TypeOK', Ordered', [Next]_vars, NEW t \in Tasks, t[1] \notin overlap,
           TaskStep(t) \/ RecoverFails(t), Working(t)
    PROVE  [Ledger!Next]_(Ledger!vars)
<1> DEFINE j == t[1]
<1>1. /\ j \in Jobs /\ task[t] \in Frame /\ job[j] \in Row /\ job'[j] \in Row
      /\ TypeOK /\ Asleep /\ Requested /\ KeysHeld
      /\ InOrder(t) /\ OnTrack(t) /\ SoleTask(j)
  BY TaskParts DEF Ordered, Ind, TypeOK, StoryFirst, Progress, Whole
<1>2. overlap' = overlap
  BY <1>1, StepOfTask
<1>3. \A i \in Jobs : i # j => job'[i] = job[i] /\ Asked(i)' = Asked(i)
  <2>1. \A x \in Tasks : x # t => task'[x] = task[x]
    BY <1>1, StepOfTask
  <2>2. \A i \in Jobs, s \in Slots : i # j => task'[<<i, s>>] = task[<<i, s>>]
    BY <2>1 DEF Tasks
  <2>3. \A i \in Jobs : i # j => Asked(i)' = Asked(i)
    BY <2>2 DEF Asked
  <2>4. QED
    BY <1>1, <2>3, StepOfTask
<1>4. /\ Asked(j) = IF task[t].pc = "reply" THEN {task[t].unit} ELSE {}
      /\ Asked(j)' = IF task'[t].pc = "reply" THEN {task'[t].unit} ELSE {}
  BY <1>1, AskedBy, AskedAfter
<1>5. /\ Recorded' = [Recorded EXCEPT ![j] = {u \in Units : job'[j].key[u] # NoKey}]
      /\ Open' = [Open EXCEPT ![j] = Asked(j)']
      /\ Recorded[j] = {u \in Units : job[j].key[u] # NoKey}
      /\ Open[j] = Asked(j)
  BY <1>1, <1>2, <1>3 DEF Recorded, Open
<1>6. /\ job[j].status # "completed" => j \notin Finished
      /\ job'[j].status = "completed" => Finished' = Finished \cup {j}
      /\ (job'[j].status = "completed") = (job[j].status = "completed") => Finished' = Finished
  BY <1>1, <1>2, <1>3 DEF Finished
<1>7. ASSUME job'[j].key = job[j].key,
             job'[j].status = "completed" => job[j].status = "completed",
             task[t].pc # "reply", task'[t].pc # "reply"
      PROVE  [Ledger!Next]_(Ledger!vars)
  <2>1. Asked(j)' = Asked(j)
    BY <1>4, <1>7
  <2>2. QED
    BY <1>1, <1>2, <1>3, <1>7, <2>1, Reopens
<1>8. CASE Begins(t) \/ Recovers(t)
  <2>1. CASE Begins(t)
    BY <1>7, <2>1 DEF Begins, SameRow
  <2>2. CASE Recovers(t)
    BY <1>7, <2>2 DEF Recovers, SameRow, Becomes
  <2>3. QED
    BY <1>8, <2>1, <2>2
<1>9. CASE job' = job /\ \/ Resumes(t) \/ Refreshes(t) \/ Exits(t)
                         \/ \E u \in Units : Skips(t, u)
                         \/ \E r \in Resources : ActsOn(t, r)
  BY <1>7, <1>9 DEF Resumes, Refreshes, Exits, Skips, ActsOn, Acts, Becomes
<1>10. ASSUME NEW u \in Units, Calls(t, u), job' = job PROVE [Ledger!Next]_(Ledger!vars)
  <2>1. Asked(j) = {} /\ Asked(j)' = {u}
    BY <1>4, <1>10 DEF Calls, Creates, Becomes
  <2>2. task[t].row.key = job[j].key \/ task[t].pc = "story"
    BY <1>1, <1>10, TaskParts DEF Calls, Creates, SoleTask
  <2>3. u \notin Recorded[j]
    BY <1>1, <1>5, <1>10, <2>2, TaskParts DEF Calls, Creates, SoleTask
  <2>4. u \in {"story", "cr"} \/ "story" \in Recorded[j]
    BY <1>1, <1>5, <1>10, <2>2 DEF Calls, Creates, InOrder, Units
  <2>5. Recorded' = Recorded /\ Finished' = Finished
    BY <1>2, <1>10 DEF Recorded, Finished
  <2>6. Ledger!Ask(j, u)
    BY <1>2, <1>5, <2>1, <2>3, <2>4, <2>5 DEF Ledger!Ask
  <2>7. QED
    BY <1>1, <2>6 DEF Ledger!Next
<1>11. CASE Records(t)
  <2> DEFINE u == task[t].unit  n == task[t].n
  <2>1. Asked(j) = {u} /\ Asked(j)' = {}
    BY <1>4, <1>11 DEF Records, Becomes
  <2>2. n # NoKey /\ u \in Units /\ n \in Keys
    BY <1>1, <1>11, ReplyHasKey DEF Records
  <2>3. job[j].key \in [Units -> Keys] /\ task[t].row.key = job[j].key /\ "story" \in Units
    BY <1>1, <1>11, TaskParts DEF Row, Records, SoleTask, Units
  <2>4. \A b \in Units : job'[j].key[b] = IF b = u THEN n ELSE job[j].key[b]
    BY <1>11, <2>2, <2>3 DEF Records
  <2>5. {b \in Units : job'[j].key[b] # NoKey} = Recorded[j] \cup Open[j]
    BY <1>5, <2>1, <2>2, <2>4
  <2>6. Finished' = Finished
    BY <1>6, <1>11 DEF Records
  <2>7. Ledger!Write(j)
    <3> HIDE DEF n
    <3>1. Recorded' = [Recorded EXCEPT ![j] = Recorded[j] \cup Open[j]]
      BY <1>5, <2>5
    <3>2. Open[j] # {} /\ Open' = [Open EXCEPT ![j] = {}]
      BY <1>5, <2>1
    <3>3. QED
      BY <1>2, <2>6, <3>1, <3>2 DEF Ledger!Write
  <2>8. QED
    BY <1>1, <2>7 DEF Ledger!Next
<1>12. CASE Fails(t) /\ job' = job
  <2>1. Asked(j)' = {}
    BY <1>4, <1>12 DEF Fails, Becomes
  <2>2. Recorded' = Recorded /\ Finished' = Finished
    BY <1>2, <1>12 DEF Recorded, Finished
  <2>3. Open' = [i \in Jobs |-> IF i \in {j} THEN {} ELSE Open[i]]
    BY <1>5, <2>1 DEF Open
  <2>4. Ledger!Lose({j})
    BY <1>2, <2>2, <2>3 DEF Ledger!Lose
  <2>5. {j} \in SUBSET (Jobs \ overlap)
    BY <1>1
  <2>6. QED
    BY <2>4, <2>5 DEF Ledger!Next
<1>13. CASE Completes(t)
  <2>1. Asked(j) = {} /\ Asked(j)' = {} /\ job'[j].key = job[j].key
    BY <1>4, <1>13 DEF Completes, Becomes, SameRow
  <2>2. job'[j].status = "completed"
    BY <1>1, <1>13 DEF Completes, OnTrack, Making
  <2>3. Required(j) \subseteq Recorded[j]
    BY <1>1, <1>5, <1>13 DEF Completes, InOrder, Required, Migrates, Kind, Units
  <2>4. Recorded' = Recorded /\ Open' = Open
    BY <1>2, <1>3, <2>1 DEF Recorded, Open
  <2>5. Ledger!Finish(j)
    BY <1>2, <1>5, <1>6, <2>1, <2>2, <2>3, <2>4 DEF Ledger!Finish
  <2>6. QED
    BY <1>1, <2>5 DEF Ledger!Next
<1>14. QED
  BY <1>1, <1>8, <1>9, <1>10, <1>11, <1>12, <1>13, StepKinds

LEMMA LedgerCrash ==
    ASSUME Ordered, [Next]_vars, NEW v \in Pods, Crash(v)
    PROVE  [Ledger!Next]_(Ledger!vars)
<1>1. /\ job' = job /\ overlap' = overlap
      /\ \A t \in Tasks : task'[t] = IF PodOf(t) = v THEN Idle ELSE task[t]
  BY DEF Crash, db
<1>2. ASSUME NEW j \in Jobs, j \notin overlap PROVE Asked(j)' \in {Asked(j), {}}
  <2>1. SoleTask(j)
    BY <1>2 DEF Ordered, Ind, Whole
  <2>2. \A s \in Slots : <<j, s>> \in Tasks
    BY DEF Tasks
  <2>3. \A s \in Slots : \/ task'[<<j, s>>] = task[<<j, s>>]
                         \/ task'[<<j, s>>].pc # "reply"
    BY <1>1, <2>2 DEF Idle
  <2>4. \A s, x \in Slots : task[<<j, s>>].pc = "reply" /\ task[<<j, x>>].pc = "reply" => s = x
    BY <2>1 DEF SoleTask, Working
  <2>5. CASE \E s \in Slots : task'[<<j, s>>].pc = "reply"
    BY <2>3, <2>4, <2>5 DEF Asked
  <2>6. CASE \A s \in Slots : task'[<<j, s>>].pc # "reply"
    BY <2>6 DEF Asked
  <2>7. QED
    BY <2>5, <2>6
<1> DEFINE S == {j \in Jobs \ overlap : Asked(j)' = {}}
<1>3. Open' = [j \in Jobs |-> IF j \in S THEN {} ELSE Open[j]]
  BY <1>1, <1>2 DEF Open
<1>4. Recorded' = Recorded /\ Finished' = Finished
  BY <1>1 DEF Recorded, Finished
<1>5. Ledger!Lose(S)
  BY <1>1, <1>3, <1>4 DEF Ledger!Lose
<1>6. S \in SUBSET (Jobs \ overlap)
  OBVIOUS
<1> HIDE DEF S
<1>7. QED
  BY <1>5, <1>6 DEF Ledger!Next

\* Every other step leaves the checkpoints and the questions of a job alone.
LEMMA LedgerRest ==
    ASSUME Ordered, [Next]_vars, NEW j \in Jobs, j \notin overlap',
           ~\E t \in Tasks : t[1] = j /\ (TaskStep(t) \/ RecoverFails(t)),
           ~\E v \in Pods : Crash(v)
    PROVE  /\ job'[j].key = job[j].key
           /\ job'[j].status = "completed" => job[j].status = "completed"
           /\ Asked(j)' = Asked(j)
<1> USE DEF mem, jira, db
<1>1. TypeOK /\ Asleep /\ Requested
  BY DEF Ordered, Ind
<1>2. Calm(j) \/ Inserted(j)
  BY <1>1, StepOfJob
<1>3. ASSUME \A s \in Slots : \/ task'[<<j, s>>] = task[<<j, s>>]
                              \/ task'[<<j, s>>].pc # "reply" /\ task[<<j, s>>].pc # "reply"
      PROVE  Asked(j)' = Asked(j)
  BY <1>3 DEF Asked
<1>4. \A s \in Slots : <<j, s>> \in Tasks
  BY DEF Tasks
<1>5. ASSUME NEW v \in Pods, NEW i \in Jobs, Spawn(v, i) PROVE Asked(j)' = Asked(j)
  <2>1. PICK x \in Slots : /\ task[<<i, x>>].pc = "idle"
                           /\ task' = [task EXCEPT ![<<i, x>>] = Fresh]
    BY <1>5 DEF Spawn
  <2>2. Fresh.pc # "reply"
    BY DEF Fresh, Idle
  <2>3. task \in [Tasks -> Frame]
    BY <1>1 DEF TypeOK
  <2>4. \A s \in Slots : \/ task'[<<j, s>>] = task[<<j, s>>]
                         \/ task'[<<j, s>>] = Fresh /\ task[<<j, s>>].pc = "idle"
    BY <1>4, <2>1, <2>3
  <2>5. QED
    BY <1>3, <2>2, <2>4
<1>6. ASSUME NEW v \in Pods, ResetStale(v) PROVE Asked(j)' = Asked(j)
  <2>1. PICK x \in Slots :
           task' = [t \in Tasks |->
              IF t[2] = x /\ t[1] \in sweep[v].cur THEN Fresh ELSE task[t]]
    BY <1>6 DEF ResetStale
  <2>2. overlap' = overlap \cup {i \in sweep[v].cur : \E s \in Slots : Working(<<i, s>>)}
    BY <1>6 DEF ResetStale
  <2>3. j \in sweep[v].cur => \A s \in Slots : task[<<j, s>>].pc # "reply"
    BY <2>2 DEF Working
  <2>4. QED
    BY <1>3, <1>4, <2>1, <2>3 DEF Fresh
<1>7. ASSUME NEW t \in Tasks, TaskStep(t) \/ RecoverFails(t) PROVE Asked(j)' = Asked(j)
  <2>1. t[1] # j
    BY <1>7
  <2>2. \A s \in Slots : <<j, s>> # t
    BY <2>1
  <2>3. QED
    BY <1>1, <1>3, <1>4, <1>7, <2>2, StepOfTask
<1>8. ASSUME task' = task PROVE Asked(j)' = Asked(j)
  BY <1>3, <1>8
<1>9. Asked(j)' = Asked(j)
  BY <1>5, <1>6, <1>7, <1>8
  DEF Next, Request, Create, Retry, ResetProject, SyncWithoutJob, EditScope, Claim,
      SweepStep, SweepRead, SweepCheck, SweepSpawn, StartUp, Restart, Started, Fault,
      SweepFault, vars
<1>10. QED
  BY <1>2, <1>9 DEF Calm, SameRow, Inserted

\* _complete_job (jira_service.py:573-583): the checkpoints of a job that is not
\* shared keep the promise of IssueLedger, step by step.
THEOREM LedgerIsKept == Spec => KeepsLedger
<1>1. Init => Ledger!Init
  <2> SUFFICES ASSUME Init PROVE Ledger!Init
    OBVIOUS
  <2>1. \A j \in Jobs : job[j].status = "absent" /\ job[j].key = NoKeys
    BY DEF Init, NewRow
  <2>2. \A j \in Jobs, s \in Slots : task[<<j, s>>].pc = "idle"
    BY DEF Init, Tasks, Idle
  <2>3. \A j \in Jobs : Asked(j) = {}
    BY <2>2 DEF Asked
  <2>4. \A u \in Units : NoKeys[u] = NoKey
    BY DEF NoKeys
  <2>5. Recorded = [j \in Jobs |-> {}] /\ Finished = {} /\ Open = [j \in Jobs |-> {}]
    BY <2>1, <2>3, <2>4 DEF Recorded, Finished, Open
  <2>6. QED
    BY <2>5 DEF Ledger!Init, Init
<1>2. Ordered /\ Ordered' /\ [Next]_vars => [Ledger!Next]_(Ledger!vars)
  <2> SUFFICES ASSUME Ordered, Ordered', [Next]_vars PROVE [Ledger!Next]_(Ledger!vars)
    OBVIOUS
  <2>1. TypeOK /\ TypeOK' /\ Asleep /\ Requested
    BY DEF Ordered, Ind
  <2>2. CASE \E v \in Pods : Crash(v)
    BY <2>2, LedgerCrash
  <2>3. ASSUME NEW t \in Tasks, TaskStep(t) \/ RecoverFails(t), Working(t), t[1] \notin overlap
        PROVE  [Ledger!Next]_(Ledger!vars)
    BY <2>1, <2>3, LedgerTask
  <2>4. ASSUME NEW t \in Tasks, TaskStep(t) \/ RecoverFails(t), ~Working(t) \/ t[1] \in overlap
        PROVE  [Ledger!Next]_(Ledger!vars)
    <3>1. /\ overlap' = overlap
          /\ \A x \in Tasks : x # t => task'[x] = task[x]
          /\ \A i \in Jobs : i # t[1] => job'[i] = job[i]
      BY <2>1, <2>4, StepOfTask
    <3>2. t[1] \notin overlap => Exits(t) /\ job' = job
      <4>1. t[1] \notin overlap => task[t].pc = "exit"
        BY <2>1, <2>4, StepOfTask DEF Working
      <4>2. QED
        BY <2>1, <2>4, <4>1, StepKinds
        DEF Begins, Records, Completes, Recovers, Resumes, Refreshes, Fails, Skips, Calls,
            Creates, ActsOn, Acts
    <3>3. ASSUME NEW i \in Jobs, i \notin overlap PROVE Asked(i)' = Asked(i) /\ job'[i] = job[i]
      <4>1. \A s \in Slots : <<i, s>> \in Tasks
        BY DEF Tasks
      <4>2. \A s \in Slots : \/ task'[<<i, s>>] = task[<<i, s>>]
                             \/ task'[<<i, s>>].pc # "reply" /\ task[<<i, s>>].pc # "reply"
        BY <3>1, <3>2, <3>3, <4>1 DEF Exits, Becomes
      <4>3. QED
        BY <3>1, <3>2, <3>3, <4>2 DEF Asked
    <3>4. QED
      BY <2>1, <3>1, <3>3, Reopens
  <2>5. CASE /\ ~\E t \in Tasks : TaskStep(t) \/ RecoverFails(t)
             /\ ~\E v \in Pods : Crash(v)
    BY <2>1, <2>5, LedgerRest, Reopens
  <2>6. QED
    BY <2>2, <2>3, <2>4, <2>5
<1>3. QED
  BY <1>1, <1>2, OrderedInit, OrderedStep, PTL DEF Spec, KeepsLedger, Ledger!Spec
=============================================================================
