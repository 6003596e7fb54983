--------------------------- MODULE EmailJobs_proofs ---------------------------
(* Theorems about the email queue, for every set of mails, keys, pods, slots  *)
(* and sessions and every bound.                                              *)
EXTENDS EmailJobs, TLAPS

-----------------------------------------------------------------------------
(* What the building blocks of the actions do.                               *)

\* The parts of a task's name.
LEMMA TaskParts ==
    ASSUME NEW t \in Tasks
    PROVE  t[1] \in Mails /\ t[2] \in Slots /\ t = <<t[1], t[2]>> /\ PodOf(t) \in Pods
BY MailConstantsOK DEF Tasks, PodOf

\* One task moves on.
LEMMA GoesType ==
    ASSUME QueueTypeOK, NEW t \in Tasks, NEW pc \in Phases, Goes(t, pc)
    PROVE  /\ task' \in [Tasks -> Phases]
           /\ \A x \in Tasks : task'[x] = IF x = t THEN pc ELSE task[x]
BY DEF QueueTypeOK, Goes

\* New tasks take slots that were idle.
LEMMA SpawnType ==
    ASSUME QueueTypeOK, NEW v \in Pods, NEW mails \in SUBSET Mails, Spawn(v, mails)
    PROVE  /\ task' \in [Tasks -> Phases]
           /\ \A x \in Tasks : task'[x] = task[x] \/ (task[x] = "idle" /\ task'[x] = "start")
<1>1. PICK slot \in [mails -> {s \in Slots : Home[s] = v}] :
          /\ \A m \in mails : task[<<m, slot[m]>>] = "idle"
          /\ task' = [t \in Tasks |-> IF t[1] \in mails /\ t[2] = slot[t[1]]
                                      THEN "start" ELSE task[t]]
  BY DEF Spawn
<1>2. ASSUME NEW x \in Tasks, x[1] \in mails, x[2] = slot[x[1]]
      PROVE  task[x] = "idle"
  BY <1>1, <1>2, TaskParts
<1>3. QED
  BY <1>1, <1>2 DEF QueueTypeOK, Phases

\* A bounded event is counted.
LEMMA OccursType ==
    ASSUME QueueTypeOK, NEW e \in Events, Occurs(e)
    PROVE  /\ spent' \in [Events -> Nat]
           /\ spent'[e] > 0
           /\ \A f \in Events : spent[f] > 0 => spent'[f] > 0
           /\ \A f \in Events \ {e} : spent'[f] = spent[f]
BY DEF QueueTypeOK, Occurs

\* A status written to a row leaves the rest of the table.
LEMMA StatusType ==
    ASSUME QueueTypeOK, NEW m \in Mails, NEW st \in Status,
           mail' = [mail EXCEPT ![m].status = st]
    PROVE  /\ mail' \in [Mails -> Row]
           /\ \A n \in Mails : /\ mail'[n].key = mail[n].key
                               /\ mail'[n].status = IF n = m THEN st ELSE mail[n].status
<1>1. mail[m] \in Row
  BY DEF QueueTypeOK
<1> DEFINE row == [mail[m] EXCEPT !.status = st]
<1>2. row \in Row /\ row.status = st /\ row.key = mail[m].key
  BY <1>1 DEF Row
<1>3. mail' = [mail EXCEPT ![m] = row]
  OBVIOUS
<1> HIDE DEF row
<1>4. QED
  BY <1>2, <1>3 DEF QueueTypeOK

\* A session inserts a row that nobody has.
LEMMA InsertParts ==
    ASSUME QueueTypeOK, NEW w \in Writers, NEW k \in Keys, Enqueue(w, k), ~Known(w, k)
    PROVE  \E m \in Unused :
              /\ writer' \in [Writers -> Session]
              /\ \A x \in Writers : x # w => writer'[x] = writer[x]
              /\ writer'[w].phase = writer[w].phase
              /\ writer'[w].todo = writer[w].todo \ {k}
              /\ writer'[w].new = writer[w].new \cup {m}
              /\ writer'[w].of[m] = k
              /\ \A n \in Mails : n # m => writer'[w].of[n] = writer[w].of[n]
<1>1. PICK m \in Unused :
          writer' = [writer EXCEPT ![w].todo = @ \ {k}, ![w].new = @ \cup {m}, ![w].of[m] = k]
  BY DEF Enqueue
<1>2. m \in Mails
  BY DEF Unused
<1>3. writer[w] \in Session
  BY DEF QueueTypeOK
<1> DEFINE of  == [writer[w].of EXCEPT ![m] = k]
           new == [writer[w] EXCEPT !.todo = @ \ {k}, !.new = @ \cup {m}, !.of = of]
<1>4. of \in [Mails -> Keys \cup {NoKey}] /\ of[m] = k
      /\ \A n \in Mails : n # m => of[n] = writer[w].of[n]
  BY <1>2, <1>3 DEF Session
<1>5. writer' = [writer EXCEPT ![w] = new]
  BY <1>1, <1>3 DEF QueueTypeOK, Session
<1> HIDE DEF of
<1>6. /\ new \in Session /\ new.new = writer[w].new \cup {m} /\ new.of = of
      /\ new.phase = writer[w].phase /\ new.todo = writer[w].todo \ {k}
  BY <1>2, <1>3, <1>4 DEF Session
<1> HIDE DEF new
<1>7. QED
  BY <1>4, <1>5, <1>6 DEF QueueTypeOK

-----------------------------------------------------------------------------
(* Type correctness.                                                         *)

\* The tables are empty and nobody does anything.
LEMMA TypeInit == QueueInit => QueueTypeOK
BY MailConstantsOK
   DEF QueueInit, QueueTypeOK, NoRow, Row, Status, Phases, Asleep, Sweeps, NoRequest,
       Request, Closed, Session

\* Each action keeps the types; one step per action.
LEMMA TypeStep == QueueTypeOK /\ [QueueNext]_qvars => QueueTypeOK'
<1> SUFFICES ASSUME QueueTypeOK, [QueueNext]_qvars PROVE QueueTypeOK'
  OBVIOUS
<1>1. ASSUME NEW t \in Tasks, Load(t) PROVE QueueTypeOK'
  <2>1. task' \in [Tasks -> Phases]
    BY <1>1, GoesType DEF Load, Phases
  <2>2. inflight' \in [Pods -> SUBSET Mails]
    BY <1>1, TaskParts DEF Load, QueueTypeOK
  <2>3. QED
    BY <1>1, <2>1, <2>2 DEF Load, QueueTypeOK
<1>2. ASSUME NEW t \in Tasks, Begin(t) PROVE QueueTypeOK'
  <2>1. task' \in [Tasks -> Phases]
    BY <1>2, GoesType DEF Begin, Phases
  <2>2. mail' \in [Mails -> Row] /\ raced' \subseteq Mails
    BY <1>2, TaskParts, StatusType DEF Begin, QueueTypeOK, Status
  <2>3. QED
    BY <1>2, <2>1, <2>2 DEF Begin, QueueTypeOK
<1>3. ASSUME NEW t \in Tasks, Deliver(t) PROVE QueueTypeOK'
  <2>1. task' \in [Tasks -> Phases]
    BY <1>3, GoesType DEF Deliver, Phases
  <2>2. handed' \in [Mails -> Nat]
    BY <1>3, TaskParts DEF Deliver, QueueTypeOK
  <2>3. QED
    BY <1>3, <2>1, <2>2 DEF Deliver, QueueTypeOK
<1>4. ASSUME NEW t \in Tasks, Refuse(t) PROVE QueueTypeOK'
  <2>1. task' \in [Tasks -> Phases]
    BY <1>4, GoesType DEF Refuse, Phases
  <2>2. QED
    BY <1>4, <2>1 DEF Refuse, QueueTypeOK
<1>5. ASSUME NEW t \in Tasks, AnswerLost(t) PROVE QueueTypeOK'
  <2>1. task' \in [Tasks -> Phases]
    BY <1>5, GoesType DEF AnswerLost, Phases
  <2>2. QED
    BY <1>5, <2>1, OccursType DEF AnswerLost, QueueTypeOK, Events
<1>6. ASSUME NEW t \in Tasks, Finish(t) PROVE QueueTypeOK'
  <2>1. task' \in [Tasks -> Phases]
    BY <1>6, GoesType DEF Finish, Phases
  <2>2. Outcome(t) \in Status
    BY DEF Outcome, Status
  <2>3. mail' \in [Mails -> Row]
    BY <1>6, <2>2, TaskParts, StatusType DEF Finish, QueueTypeOK
  <2>4. QED
    BY <1>6, <2>1, <2>3 DEF Finish, QueueTypeOK
<1>7. ASSUME NEW t \in Tasks, FinishFails(t) PROVE QueueTypeOK'
  <2>1. task' \in [Tasks -> Phases]
    BY <1>7, GoesType DEF FinishFails, Phases
  <2>2. QED
    BY <1>7, <2>1, OccursType DEF FinishFails, QueueTypeOK, Events
<1>8. ASSUME NEW t \in Tasks, Exit(t) PROVE QueueTypeOK'
  <2>1. task' \in [Tasks -> Phases]
    BY <1>8, GoesType DEF Exit, Phases
  <2>2. inflight' \in [Pods -> SUBSET Mails]
    BY <1>8, TaskParts DEF Exit, QueueTypeOK
  <2>3. QED
    BY <1>8, <2>1, <2>2 DEF Exit, QueueTypeOK
<1>9. ASSUME NEW w \in Writers, Abort(w) PROVE QueueTypeOK'
  <2>1. Closed \in Session
    BY DEF Closed, Session
  <2>2. QED
    BY <1>9, <2>1, OccursType DEF Abort, QueueTypeOK, Events
<1>10. ASSUME NEW w \in Writers, NEW keys \in SUBSET Keys, Open(w, keys) PROVE QueueTypeOK'
  <2>1. [Closed EXCEPT !.phase = "enqueue", !.todo = keys] \in Session
    BY DEF Closed, Session
  <2>2. QED
    BY <1>10, <2>1 DEF Open, QueueTypeOK
<1>11. ASSUME NEW w \in Writers, NEW k \in Keys, Enqueue(w, k) PROVE QueueTypeOK'
  <2>1. writer[w] \in Session
    BY DEF QueueTypeOK
  <2>2. [writer[w] EXCEPT !.todo = @ \ {k}] \in Session
    BY <2>1 DEF Session
  <2>3. writer' \in [Writers -> Session] /\ crossed' \subseteq Keys
    <3>1. CASE Known(w, k)
      BY <1>11, <2>2, <3>1 DEF Enqueue, QueueTypeOK
    <3>2. CASE ~Known(w, k)
      <4>1. writer' \in [Writers -> Session]
        BY <1>11, <3>2, InsertParts
      <4>2. QED
        BY <1>11, <3>2, <4>1 DEF Enqueue, QueueTypeOK
    <3>3. QED
      BY <3>1, <3>2
  <2>6. QED
    BY <1>11, <2>3 DEF Enqueue, QueueTypeOK
<1>12. ASSUME NEW w \in Writers, Commit(w) PROVE QueueTypeOK'
  <2>1. \A m \in Mails : [status |-> "pending", key |-> writer[w].of[m]] \in Row
    BY DEF QueueTypeOK, Session, Row, Status
  <2>2. mail' \in [Mails -> Row]
    BY <1>12, <2>1 DEF Commit, QueueTypeOK
  <2>3. Closed \in Session
    BY DEF Closed, Session
  <2>4. QED
    BY <1>12, <2>2, <2>3 DEF Commit, QueueTypeOK
<1>13. ASSUME NEW v \in Pods, SweepRead(v) PROVE QueueTypeOK'
  BY <1>13 DEF SweepRead, QueueTypeOK, Sweeps
<1>14. ASSUME NEW v \in Pods, SweepSpawn(v) PROVE QueueTypeOK'
  <2>1. sweep[v].todo \ inflight[v] \in SUBSET Mails
    BY DEF QueueTypeOK, Sweeps
  <2>2. task' \in [Tasks -> Phases]
    BY <1>14, <2>1, SpawnType DEF SweepSpawn
  <2>3. QED
    BY <1>14, <2>2 DEF SweepSpawn, QueueTypeOK, Sweeps, Asleep
<1>15. ASSUME NEW v \in Pods, SweepFault(v) PROVE QueueTypeOK'
  BY <1>15, OccursType DEF SweepFault, QueueTypeOK, Sweeps, Asleep, Events
<1>16. ASSUME NEW v \in Pods, NEW m \in Mails, RetryLoad(v, m) PROVE QueueTypeOK'
  <2>1. [phase |-> "loaded", mail |-> {m}, seen |-> mail[m].status] \in Request
    BY DEF QueueTypeOK, Row, Request
  <2>2. QED
    BY <1>16, <2>1, OccursType DEF RetryLoad, QueueTypeOK, Events
<1>17. ASSUME NEW v \in Pods, NEW m \in Mails, RetryCommit(v, m) PROVE QueueTypeOK'
  <2>1. NoRequest \in Request /\ [admin[v] EXCEPT !.phase = "committed"] \in Request
    BY DEF QueueTypeOK, NoRequest, Request, Status
  <2>2. admin' \in [Pods -> Request]
    BY <1>17, <2>1 DEF RetryCommit, QueueTypeOK
  <2>3. mail' \in [Mails -> Row] /\ raced' \subseteq Mails
    BY <1>17, StatusType DEF RetryCommit, QueueTypeOK, Status
  <2>4. QED
    BY <1>17, <2>2, <2>3 DEF RetryCommit, QueueTypeOK
<1>18. ASSUME NEW v \in Pods, RetrySpawn(v) PROVE QueueTypeOK'
  <2>1. admin[v].mail \in SUBSET Mails
    BY DEF QueueTypeOK, Request
  <2>2. task' \in [Tasks -> Phases]
    BY <1>18, <2>1, SpawnType DEF RetrySpawn
  <2>3. NoRequest \in Request
    BY DEF NoRequest, Request, Status
  <2>4. QED
    BY <1>18, <2>2, <2>3 DEF RetrySpawn, QueueTypeOK
<1>19. ASSUME NEW gone, Delete(gone) PROVE QueueTypeOK'
  <2>1. \A m \in Mails : mail[m] \in Row /\ [mail[m] EXCEPT !.status = "deleted"] \in Row
    BY DEF QueueTypeOK, Row, Status
  <2>2. mail' \in [Mails -> Row]
    BY <1>19, <2>1 DEF Delete
  <2>3. QED
    BY <1>19, <2>2, OccursType DEF Delete, QueueTypeOK, Events
<1>20. ASSUME NEW v \in Pods, Crash(v) PROVE QueueTypeOK'
  <2>1. Closed \in Session /\ Asleep \in Sweeps /\ NoRequest \in Request /\ "idle" \in Phases
    BY DEF Closed, Session, Asleep, Sweeps, NoRequest, Request, Status, Phases
  <2>2. task' \in [Tasks -> Phases] /\ writer' \in [Writers -> Session]
    BY <1>20, <2>1 DEF Crash, QueueTypeOK
  <2>3. QED
    BY <1>20, <2>1, <2>2, OccursType DEF Crash, QueueTypeOK, Events
<1>21. ASSUME NEW v \in Pods, Restart(v) PROVE QueueTypeOK'
  BY <1>21 DEF Restart, QueueTypeOK
<1>22. CASE UNCHANGED qvars
  BY <1>22 DEF qvars, QueueTypeOK
<1>23. QED
  BY <1>1, <1>2, <1>3, <1>4, <1>5, <1>6, <1>7, <1>8, <1>10, <1>11, <1>12, <1>13, <1>14,
     <1>9, <1>15, <1>16, <1>17, <1>18, <1>19, <1>20, <1>21, <1>22
     DEF QueueNext, QueueStep, TaskStep, WriterStep, SweepStep, AdminStep

\* Every variable keeps its type, whatever the pods, sessions and requests do.
THEOREM QueueTypeCorrect == QueueSpec => []QueueTypeOK
<1>1. QED
  BY TypeInit, TypeStep, PTL DEF QueueSpec
-----------------------------------------------------------------------------
(* The ledger of a mail: its status, its tasks and what the relay has of it. *)

Sending(t) == task[t] \in {"send", "accepted", "refused"}

\* No race has befallen the mail and no answer of the relay was lost.
Plain(m) == m \notin raced /\ spent["blind"] = 0

\* At most one task sends a mail.
Alone == \A t, u \in Tasks : t[1] = u[1] /\ Plain(t[1]) /\ Sending(t) /\ Sending(u) => t = u

\* A task that sends finds the row as it left it, and the relay has the mail if
\* and only if the task knows.
Busy ==
    \A t \in Tasks : Plain(t[1]) /\ Sending(t) =>
        /\ mail[t[1]].status \in {"processing", "deleted"}
        /\ handed[t[1]] = IF task[t] = "accepted" THEN 1 ELSE 0

\* A mail the relay has is not there to be sent again.
Kept ==
    \A m \in Mails : Plain(m) =>
        /\ handed[m] <= 1
        /\ handed[m] > 0 => mail[m].status \in {"processing", "sent", "deleted"}

\* Also of a mail that was raced: nobody records an acceptance that was none.
Accepted ==
    /\ \A t \in Tasks : task[t] = "accepted" => handed[t[1]] > 0
    /\ \A m \in Mails : mail[m].status = "sent" => handed[m] > 0

\* A request retries what it has found pending or failed.
Asked == \A v \in Pods : admin[v].phase = "loaded" => admin[v].seen \in Retryable

\* Rows that are inserted and not committed are seen by nobody else.
Unseen == \A w \in Writers : \A m \in writer[w].new : mail[m].status = "absent"

Ledger == Alone /\ Busy /\ Kept /\ Accepted /\ Asked /\ Unseen

\* A row belongs to one session until it is committed.
Owned == \A w, x \in Writers : w # x => writer[w].new \cap writer[x].new = {}

\* A key that is inserted twice, or inserted and in the table, is a crossed one.
OneInsert ==
    \A w \in Writers : \A m \in writer[w].new :
        /\ \A x \in Writers : \A n \in writer[x].new :
              m # n /\ writer[x].of[n] = writer[w].of[m] => writer[w].of[m] \in crossed
        /\ \A n \in Mails :
              There(n) /\ mail[n].key = writer[w].of[m] => writer[w].of[m] \in crossed

Rows == Unseen /\ Owned /\ OneInsert /\ OneRowPerKey

\* What a step does that touches neither the table nor the relay: tasks may
\* start, and stop; one that sends stops in a crash or by a fault only.
Calm ==
    /\ UNCHANGED <<mail, handed, raced>>
    /\ \A t \in Tasks :
          \/ task'[t] = task[t]
          \/ /\ ~Sending(t)' /\ (Sending(t) => spent'["crash"] > 0 \/ spent'["fault"] > 0)
    /\ \A e \in Events : spent[e] > 0 => spent'[e] > 0

\* Of the other steps there are eight kinds.
LEMMA StepKinds ==
    ASSUME QueueTypeOK, [QueueNext]_qvars
    PROVE  \/ Calm
           \/ \E t \in Tasks : Begin(t) \/ Deliver(t) \/ Refuse(t) \/ AnswerLost(t) \/ Finish(t)
           \/ \E w \in Writers : Commit(w)
           \/ \E v \in Pods, m \in Mails : RetryCommit(v, m)
           \/ \E gone : Delete(gone)
<1> USE DEF Sending
<1>1. ASSUME NEW t \in Tasks, Load(t) PROVE Calm
  BY <1>1, GoesType DEF Load, Phases, Calm
<1>2. ASSUME NEW t \in Tasks, FinishFails(t) PROVE Calm
  BY <1>2, GoesType, OccursType DEF FinishFails, Phases, Calm, Events
<1>3. ASSUME NEW t \in Tasks, Exit(t) PROVE Calm
  BY <1>3, GoesType DEF Exit, Phases, Calm
<1>4. ASSUME NEW w \in Writers, NEW keys, Open(w, keys) PROVE Calm
  BY <1>4 DEF Open, Calm
<1>5. ASSUME NEW w \in Writers, Abort(w) PROVE Calm
  BY <1>5, OccursType DEF Abort, Calm, Events
<1>6. ASSUME NEW w \in Writers, NEW k \in Keys, Enqueue(w, k) PROVE Calm
  BY <1>6 DEF Enqueue, Calm
<1>7. ASSUME NEW v \in Pods, SweepRead(v) PROVE Calm
  BY <1>7 DEF SweepRead, Calm
<1>8. ASSUME NEW v \in Pods, SweepSpawn(v) PROVE Calm
  <2>1. sweep[v].todo \ inflight[v] \in SUBSET Mails
    BY DEF QueueTypeOK, Sweeps
  <2>2. QED
    BY <1>8, <2>1, SpawnType DEF SweepSpawn, Calm
<1>9. ASSUME NEW v \in Pods, SweepFault(v) PROVE Calm
  BY <1>9, OccursType DEF SweepFault, Calm, Events
<1>10. ASSUME NEW v \in Pods, NEW m \in Mails, RetryLoad(v, m) PROVE Calm
  BY <1>10, OccursType DEF RetryLoad, Calm, Events
<1>11. ASSUME NEW v \in Pods, RetrySpawn(v) PROVE Calm
  <2>1. admin[v].mail \in SUBSET Mails
    BY DEF QueueTypeOK, Request
  <2>2. QED
    BY <1>11, <2>1, SpawnType DEF RetrySpawn, Calm
<1>12. ASSUME NEW v \in Pods, Crash(v) PROVE Calm
  <2>1. \A t \in Tasks : task'[t] = IF PodOf(t) = v THEN "idle" ELSE task[t]
    BY <1>12 DEF Crash
  <2>2. spent'["crash"] > 0 /\ \A e \in Events : spent[e] > 0 => spent'[e] > 0
    BY <1>12, OccursType DEF Crash, Events
  <2>3. QED
    BY <1>12, <2>1, <2>2 DEF Crash, Calm
<1>13. ASSUME NEW v \in Pods, Restart(v) PROVE Calm
  BY <1>13 DEF Restart, Calm
<1>14. CASE UNCHANGED qvars
  BY <1>14 DEF qvars, Calm
<1>15. QED
  BY <1>1, <1>2, <1>3, <1>4, <1>5, <1>6, <1>7, <1>8, <1>9, <1>10, <1>11, <1>12, <1>13, <1>14
     DEF QueueNext, QueueStep, TaskStep, WriterStep, SweepStep, AdminStep

\* The initial ledger is blank.
LEMMA LedgerInit == QueueInit => Ledger /\ Rows /\ NoStrandedMail
BY DEF QueueInit, Ledger, Alone, Busy, Kept, Accepted, Asked, Unseen, Rows, Owned, OneInsert,
       OneRowPerKey, NoStrandedMail, Sending, Plain, NoRow, There, NoRequest, Closed

\* What happens around the table leaves the ledger as it is.
LEMMA CalmKeeps ==
    ASSUME QueueTypeOK, Alone, Busy, Kept, Accepted, Calm
    PROVE  Alone' /\ Busy' /\ Kept' /\ Accepted'
<1>1. \A m \in Mails : Plain(m)' => Plain(m)
  BY DEF Calm, Plain, QueueTypeOK, Events
<1>2. \A t \in Tasks : /\ Sending(t)' => Sending(t) /\ task'[t] = task[t]
                       /\ task'[t] = "accepted" => task[t] = "accepted"
  BY DEF Calm, Sending
<1>3. \A t \in Tasks : t[1] \in Mails
  BY TaskParts
<1>4. Alone'
  BY <1>1, <1>2, <1>3 DEF Alone
<1>5. Busy'
  BY <1>1, <1>2, <1>3 DEF Busy, Calm
<1>6. Kept' /\ Accepted'
  BY <1>1, <1>2 DEF Kept, Accepted, Calm
<1>7. QED
  BY <1>4, <1>5, <1>6

\* A step of a task leaves the mails of the others alone.
LEMMA LedgerTask ==
    ASSUME QueueTypeOK, Ledger, NEW t \in Tasks,
           Begin(t) \/ Deliver(t) \/ Refuse(t) \/ AnswerLost(t) \/ Finish(t)
    PROVE  Alone' /\ Busy' /\ Kept' /\ Accepted'
<1> DEFINE m == t[1]
<1> USE DEF Ledger, Sending
<1>1. m \in Mails /\ \A u \in Tasks : u[1] \in Mails
  BY TaskParts
<1>2. CASE Begin(t)
  <2>1. CASE ~There(m)
    <3>1. Calm
      BY <1>2, <2>1, GoesType DEF Begin, Calm, Phases
    <3>2. QED
      BY <3>1, CalmKeeps
  <2>2. CASE There(m)
    <3>1. /\ \A u \in Tasks : task'[u] = IF u = t THEN "send" ELSE task[u]
          /\ handed' = handed /\ spent' = spent /\ raced \subseteq raced'
      BY <1>2, <2>2, GoesType DEF Begin, Phases
    <3>2. \A n \in Mails : mail'[n].status =
              IF n = m /\ task[t] # "again" THEN "processing" ELSE mail[n].status
      BY <1>1, <1>2, <2>2, StatusType DEF Begin, Status
    <3>3. Plain(m)' => mail[m].status \in {"pending", "failed"} /\ task[t] # "again"
      BY <1>1, <1>2, <2>2 DEF Begin, There, Moved, QueueTypeOK, Row, Status, Plain
    <3>4. \A n \in Mails : Plain(n)' => Plain(n)
      BY <3>1 DEF Plain
    <3>5. Plain(m)' => \A u \in Tasks : u[1] = m => ~Sending(u)
      BY <3>3, <3>4, <1>1 DEF Busy
    <3>6. Plain(m)' => handed[m] = 0
      BY <3>3, <3>4, <1>1 DEF Kept, QueueTypeOK
    <3>7. Alone'
      BY <1>1, <3>1, <3>4, <3>5 DEF Alone
    <3>8. Busy'
      BY <1>1, <3>1, <3>2, <3>3, <3>4, <3>5, <3>6 DEF Busy
    <3>9. Kept'
      BY <1>1, <3>1, <3>2, <3>4, <3>6 DEF Kept
    <3>10. Accepted'
      BY <1>1, <3>1, <3>2 DEF Accepted
    <3>11. QED
      BY <3>7, <3>8, <3>9, <3>10
  <2>3. QED
    BY <2>1, <2>2
<1>3. CASE Deliver(t)
  <2>1. /\ task[t] = "send"
        /\ \A u \in Tasks : task'[u] = IF u = t THEN "accepted" ELSE task[u]
        /\ \A n \in Mails : handed'[n] = IF n = m THEN handed[m] + 1 ELSE handed[n]
        /\ mail' = mail /\ raced' = raced /\ spent' = spent
        /\ handed \in [Mails -> Nat]
    BY <1>1, <1>3, GoesType DEF Deliver, Phases, QueueTypeOK
  <2>2. \A n \in Mails : Plain(n)' = Plain(n)
    BY <2>1 DEF Plain
  <2>3. Plain(m) => handed[m] = 0 /\ mail[m].status \in {"processing", "deleted"}
    BY <1>1, <2>1 DEF Busy
  <2>4. Alone'
    BY <1>1, <2>1, <2>2 DEF Alone
  <2>5. Busy'
    BY <1>1, <2>1, <2>2, <2>3 DEF Busy, Alone
  <2>6. Kept' /\ Accepted'
    BY <1>1, <2>1, <2>2, <2>3 DEF Kept, Accepted
  <2>7. QED
    BY <2>4, <2>5, <2>6
<1>4. CASE Refuse(t)
  <2>1. /\ task[t] = "send"
        /\ \A u \in Tasks : task'[u] = IF u = t THEN "refused" ELSE task[u]
        /\ mail' = mail /\ handed' = handed /\ raced' = raced /\ spent' = spent
    BY <1>4, GoesType DEF Refuse, Phases
  <2>2. \A n \in Mails : Plain(n)' = Plain(n)
    BY <2>1 DEF Plain
  <2>3. QED
    BY <1>1, <2>1, <2>2 DEF Alone, Busy, Kept, Accepted
<1>5. CASE AnswerLost(t)
  <2>1. /\ \A u \in Tasks : task'[u] = IF u = t THEN "refused" ELSE task[u]
        /\ mail' = mail /\ handed' = handed
        /\ spent'["blind"] > 0 /\ spent'["blind"] \in Nat
    BY <1>5, GoesType, OccursType DEF AnswerLost, Phases, Events
  <2>2. \A n \in Mails : ~Plain(n)'
    BY <2>1 DEF Plain
  <2>3. Alone' /\ Busy' /\ Kept'
    BY <1>1, <2>2 DEF Alone, Busy, Kept
  <2>4. Accepted'
    BY <2>1 DEF Accepted
  <2>5. QED
    BY <2>3, <2>4
<1>6. CASE Finish(t)
  <2>1. /\ task[t] \in {"accepted", "refused"}
        /\ \A u \in Tasks : task'[u] = IF u = t THEN "exit" ELSE task[u]
        /\ handed' = handed /\ raced' = raced /\ spent' = spent
        /\ handed \in [Mails -> Nat]
    BY <1>6, GoesType DEF Finish, Phases, QueueTypeOK
  <2>2. \A n \in Mails : mail'[n].status =
            IF n = m /\ There(m) THEN Outcome(t) ELSE mail[n].status
    <3>1. Outcome(t) \in Status
      BY DEF Outcome, Status
    <3>2. QED
      BY <1>1, <1>6, <3>1, StatusType DEF Finish
  <2>3. \A n \in Mails : Plain(n)' = Plain(n)
    BY <2>1 DEF Plain
  <2>4. Plain(m) => handed[m] = IF task[t] = "accepted" THEN 1 ELSE 0
    BY <1>1, <2>1 DEF Busy
  <2>5. Alone'
    BY <1>1, <2>1, <2>3 DEF Alone
  <2>6. Busy'
    <3>1. \A u \in Tasks : u[1] = m /\ Plain(m) /\ Sending(u) => u = t
      BY <1>1, <2>1 DEF Alone
    <3>2. QED
      BY <1>1, <2>1, <2>2, <2>3, <3>1 DEF Busy
  <2>7. Kept'
    BY <1>1, <2>1, <2>2, <2>3, <2>4 DEF Kept, Outcome, There
  <2>8. Accepted'
    BY <1>1, <2>1, <2>2 DEF Accepted, Outcome
  <2>9. QED
    BY <2>5, <2>6, <2>7, <2>8
<1>7. QED
  BY <1>2, <1>3, <1>4, <1>5, <1>6

\* The steps of sessions and administrators that write the table.
LEMMA LedgerTable ==
    ASSUME QueueTypeOK, Ledger,
           \/ \E w \in Writers : Commit(w)
           \/ \E v \in Pods, m \in Mails : RetryCommit(v, m)
           \/ \E gone : Delete(gone)
    PROVE  Alone' /\ Busy' /\ Kept' /\ Accepted'
<1> USE DEF Ledger, Sending
<1>1. \A t \in Tasks : t[1] \in Mails
  BY TaskParts
<1> DEFINE Rewritten(n) ==
              \/ mail'[n].status = mail[n].status
              \/ mail'[n].status = "deleted"
              \/ mail'[n].status = "pending" /\ n \in raced'
              \/ mail'[n].status = "pending" /\ mail[n].status \in {"absent", "pending", "failed"}
           Frame == /\ task' = task /\ handed' = handed /\ raced \subseteq raced'
                    /\ spent'["blind"] = spent["blind"]
                    /\ \A n \in Mails : Rewritten(n)
<1>2. ASSUME NEW w \in Writers, Commit(w) PROVE Frame
  <2>1. \A n \in Mails : \/ mail'[n] = mail[n]
                         \/ mail'[n].status = "pending" /\ mail[n].status = "absent"
    BY <1>2 DEF Commit, Unseen
  <2>2. QED
    BY <1>2, <2>1 DEF Commit
<1>3. ASSUME NEW v \in Pods, NEW m \in Mails, RetryCommit(v, m) PROVE Frame
  <2>1. \A n \in Mails : Rewritten(n)
    <3>1. CASE admin[v].seen # "pending" /\ There(m)
      <4>1. admin[v].seen = "failed"
        BY <1>3, <3>1 DEF RetryCommit, Asked, Retryable
      <4>2. Moved(m) => m \in raced'
        BY <1>3, <3>1, <4>1 DEF RetryCommit, Moved
      <4>3. ~Moved(m) => mail[m].status \in {"pending", "failed"}
        BY <3>1 DEF There, Moved, QueueTypeOK, Row, Status
      <4>4. \A n \in Mails : mail'[n].status = IF n = m THEN "pending" ELSE mail[n].status
        BY <1>3, <3>1, StatusType DEF RetryCommit, Status
      <4>5. QED
        BY <4>2, <4>3, <4>4
    <3>2. CASE ~(admin[v].seen # "pending" /\ There(m))
      BY <1>3, <3>2 DEF RetryCommit
    <3>3. QED
      BY <3>1, <3>2
  <2>2. QED
    BY <1>3, <2>1 DEF RetryCommit
<1>4. ASSUME NEW gone, Delete(gone) PROVE Frame
  <2>1. \A n \in Mails : mail'[n].status \in {mail[n].status, "deleted"}
    <3>1. \A n \in Mails : [mail[n] EXCEPT !.status = "deleted"].status = "deleted"
      BY DEF QueueTypeOK, Row
    <3>2. QED
      BY <1>4, <3>1 DEF Delete
  <2>2. spent'["blind"] = spent["blind"]
    BY <1>4, OccursType DEF Delete, Events
  <2>3. QED
    BY <1>4, <2>1, <2>2 DEF Delete
<1>5. Frame
  BY <1>2, <1>3, <1>4
<1>6. \A n \in Mails : Plain(n)' => Plain(n) /\ n \notin raced'
  BY <1>5 DEF Plain
<1>7. Alone'
  BY <1>1, <1>5, <1>6 DEF Alone
<1>8. Busy'
  BY <1>1, <1>5, <1>6 DEF Busy
<1>9. Kept'
  BY <1>5, <1>6, QueueTypeOK DEF Kept, QueueTypeOK
<1>10. Accepted'
  BY <1>5 DEF Accepted
<1>11. QED
  BY <1>7, <1>8, <1>9, <1>10

\* What a request has found, it keeps until it commits.
LEMMA AskedStep ==
    ASSUME QueueTypeOK, Asked, [QueueNext]_qvars
    PROVE  Asked'
<1>1. CASE UNCHANGED admin
  BY <1>1 DEF Asked
<1>2. ASSUME NEW v \in Pods, NEW m \in Mails, RetryLoad(v, m) PROVE Asked'
  BY <1>2 DEF RetryLoad, Asked, QueueTypeOK
<1>3. ASSUME NEW v \in Pods, NEW m \in Mails, RetryCommit(v, m) PROVE Asked'
  <2>1. /\ \A x \in Pods : x # v => admin'[x] = admin[x]
        /\ admin'[v].phase # "loaded"
    BY <1>3 DEF RetryCommit, QueueTypeOK, Request, NoRequest
  <2>2. QED
    BY <2>1 DEF Asked
<1>4. ASSUME NEW v \in Pods, RetrySpawn(v) PROVE Asked'
  BY <1>4 DEF RetrySpawn, Asked, QueueTypeOK, NoRequest
<1>5. ASSUME NEW v \in Pods, Crash(v) PROVE Asked'
  BY <1>5 DEF Crash, Asked, QueueTypeOK, NoRequest
<1>6. QED
  BY <1>1, <1>2, <1>3, <1>4, <1>5
     DEF QueueNext, QueueStep, TaskStep, WriterStep, SweepStep, AdminStep, qvars,
         Load, Begin, Deliver, Refuse, AnswerLost, Finish, FinishFails, Exit, Open, Enqueue,
         Abort, Commit, SweepRead, SweepSpawn, SweepFault, Delete, Restart

-----------------------------------------------------------------------------
(* Rows and keys.                                                            *)

\* A step that inserts and commits nothing: sessions may open and close; rows
\* may go, but none appears and none changes its key.
Settled ==
    /\ \A w \in Writers : \/ writer'[w].new = {}
                          \/ writer'[w].new = writer[w].new /\ writer'[w].of = writer[w].of
    /\ \A m \in Mails : /\ mail'[m].key = mail[m].key
                        /\ mail[m].status = "absent" => mail'[m].status = "absent"
                        /\ There(m)' => There(m)
    /\ crossed' = crossed

\* Only the insertion and the commit of rows are more than that.
LEMMA RowKinds ==
    ASSUME QueueTypeOK, [QueueNext]_qvars
    PROVE  \/ Settled
           \/ \E w \in Writers, k \in Keys : Enqueue(w, k) /\ ~Known(w, k)
           \/ \E w \in Writers : Commit(w)
<1> USE DEF There
<1>1. CASE UNCHANGED <<mail, writer, crossed>>
  BY <1>1 DEF Settled
<1>2. ASSUME NEW t \in Tasks, Begin(t) PROVE Settled
  <2>1. t[1] \in Mails
    BY TaskParts
  <2>2. QED
    BY <1>2, <2>1, StatusType DEF Begin, Settled, Status
<1>3. ASSUME NEW t \in Tasks, Finish(t) PROVE Settled
  <2>1. t[1] \in Mails /\ Outcome(t) \in Status
    BY TaskParts DEF Outcome, Status
  <2>2. QED
    BY <1>3, <2>1, StatusType DEF Finish, Settled
<1>4. ASSUME NEW v \in Pods, NEW m \in Mails, RetryCommit(v, m) PROVE Settled
  BY <1>4, StatusType DEF RetryCommit, Settled, Status
<1>5. ASSUME NEW gone, Delete(gone) PROVE Settled
  <2>1. \A m \in Mails : LET row == [mail[m] EXCEPT !.status = "deleted"] IN
            row.status = "deleted" /\ row.key = mail[m].key
    BY DEF QueueTypeOK, Row
  <2>2. QED
    BY <1>5, <2>1 DEF Delete, Settled
<1>6. ASSUME NEW w \in Writers, NEW keys, Open(w, keys) PROVE Settled
  BY <1>6 DEF Open, Settled, QueueTypeOK, Closed
<1>7. ASSUME NEW w \in Writers, Abort(w) PROVE Settled
  BY <1>7 DEF Abort, Settled, QueueTypeOK, Closed
<1>8. ASSUME NEW w \in Writers, NEW k \in Keys, Enqueue(w, k), Known(w, k) PROVE Settled
  BY <1>8 DEF Enqueue, Settled, QueueTypeOK, Session
<1>9. ASSUME NEW v \in Pods, Crash(v) PROVE Settled
  BY <1>9 DEF Crash, Settled, Closed
<1>10. QED
  BY <1>1, <1>2, <1>3, <1>4, <1>5, <1>6, <1>7, <1>8, <1>9
     DEF QueueNext, QueueStep, TaskStep, WriterStep, SweepStep, AdminStep, qvars,
         Load, Deliver, Refuse, AnswerLost, FinishFails, Exit,
         SweepRead, SweepSpawn, SweepFault, RetrySpawn, RetryLoad, Restart

\* Rows, and their keys, are accounted for.
LEMMA RowsStep ==
    ASSUME QueueTypeOK, Rows, [QueueNext]_qvars
    PROVE  Rows'
<1> USE DEF Rows
<1>1. \A w \in Writers : writer[w].new \subseteq Mails
  BY DEF QueueTypeOK, Session
<1>2. CASE Settled
  <2>1. \A w \in Writers : \A m \in writer'[w].new :
            m \in writer[w].new /\ writer'[w].of[m] = writer[w].of[m]
    BY <1>2 DEF Settled
  <2>2. Unseen' /\ Owned'
    BY <1>1, <1>2, <2>1 DEF Settled, Unseen, Owned
  <2>3. OneInsert'
    BY <1>1, <1>2, <2>1 DEF Settled, OneInsert
  <2>4. OneRowPerKey'
    BY <1>2 DEF Settled, OneRowPerKey
  <2>5. QED
    BY <2>2, <2>3, <2>4
<1>3. ASSUME NEW w \in Writers, NEW k \in Keys, Enqueue(w, k), ~Known(w, k) PROVE Rows'
  <2>1. PICK m \in Unused :
            /\ \A x \in Writers : x # w => writer'[x] = writer[x]
            /\ writer'[w].new = writer[w].new \cup {m}
            /\ writer'[w].of[m] = k
            /\ \A n \in Mails : n # m => writer'[w].of[n] = writer[w].of[n]
    BY <1>3, InsertParts
  <2>2. /\ m \in Mails /\ mail[m].status = "absent"
        /\ \A x \in Writers : m \notin writer[x].new
    BY DEF Unused
  <2>3. mail' = mail
    BY <1>3 DEF Enqueue
  <2>4. /\ crossed \subseteq crossed'
        /\ \A x \in Writers \ {w} : \A n \in writer[x].new : writer[x].of[n] = k => k \in crossed'
    BY <1>3 DEF Enqueue, Inserted
  <2>5. /\ \A n \in writer[w].new : writer[w].of[n] # k
        /\ \A n \in Mails : There(n) => mail[n].key # k
    BY <1>3 DEF Known, Inserted
  <2>6. \A x \in Writers : \A n \in writer'[x].new :
            \/ n \in writer[x].new /\ n # m /\ writer'[x].of[n] = writer[x].of[n]
            \/ x = w /\ n = m /\ writer'[x].of[n] = k
    BY <1>1, <2>1, <2>2
  <2>7. Unseen' /\ Owned'
    BY <2>2, <2>3, <2>6 DEF Unseen, Owned
  <2>8. OneInsert'
    <3>1. ASSUME NEW x \in Writers, NEW i \in writer'[x].new, NEW y \in Writers,
                 NEW n \in writer'[y].new, i # n, writer'[y].of[n] = writer'[x].of[i]
          PROVE  writer'[x].of[i] \in crossed'
      BY <2>4, <2>5, <2>6, <3>1 DEF OneInsert
    <3>2. ASSUME NEW x \in Writers, NEW i \in writer'[x].new, NEW n \in Mails,
                 There(n), mail[n].key = writer'[x].of[i]
          PROVE  writer'[x].of[i] \in crossed'
      BY <2>4, <2>5, <2>6, <3>2 DEF OneInsert
    <3>3. QED
      BY <2>3, <3>1, <3>2 DEF OneInsert, There
  <2>9. OneRowPerKey'
    BY <2>3, <2>4 DEF OneRowPerKey, There
  <2>10. QED
    BY <2>7, <2>8, <2>9
<1>4. ASSUME NEW w \in Writers, Commit(w) PROVE Rows'
  <2>1. /\ writer'[w].new = {}
        /\ \A x \in Writers : x # w => writer'[x] = writer[x]
        /\ crossed' = crossed
    BY <1>4 DEF Commit, QueueTypeOK, Closed
  <2>2. \A n \in Mails : IF n \in writer[w].new
            THEN mail'[n].key = writer[w].of[n]
            ELSE mail'[n] = mail[n]
    BY <1>4 DEF Commit
  <2>3. Unseen' /\ Owned'
    BY <1>1, <2>1, <2>2 DEF Unseen, Owned
  <2>4. OneInsert'
    BY <1>1, <2>1, <2>2 DEF OneInsert, There, Owned
  <2>5. OneRowPerKey'
    BY <1>1, <2>1, <2>2 DEF OneInsert, OneRowPerKey, There
  <2>6. QED
    BY <2>3, <2>4, <2>5
<1>5. QED
  BY <1>2, <1>3, <1>4, RowKinds

-----------------------------------------------------------------------------
(* The theorems.                                                             *)

\* A mail in "processing" is being sent, and stays so until its status changes.
LEMMA StrandedStep ==
    ASSUME QueueTypeOK, NoStrandedMail, [QueueNext]_qvars
    PROVE  NoStrandedMail'
<1> USE DEF Sending
<1> DEFINE Held(m) == \E s \in Slots : task[<<m, s>>] \in {"send", "accepted", "refused"}
           Due(m)  == /\ mail[m].status = "processing" /\ m \notin raced
                      /\ spent["crash"] = 0 /\ spent["fault"] = 0
<1>1. \A m \in Mails, s \in Slots : <<m, s>> \in Tasks
  BY DEF Tasks
<1>2. \A m \in Mails : Due(m) => Held(m)
  BY DEF NoStrandedMail
<1>3. CASE Calm
  <2>1. \A m \in Mails : Due(m)' => Due(m)
    BY <1>3 DEF Calm, QueueTypeOK, Events
  <2>2. \A m \in Mails : Due(m)' /\ Held(m) => Held(m)'
    BY <1>1, <1>3 DEF Calm
  <2>3. QED
    BY <1>2, <2>1, <2>2 DEF NoStrandedMail
<1>4. ASSUME NEW t \in Tasks,
             Begin(t) \/ Deliver(t) \/ Refuse(t) \/ AnswerLost(t) \/ Finish(t)
      PROVE  NoStrandedMail'
  <2>1. t[1] \in Mails /\ t[2] \in Slots /\ t = <<t[1], t[2]>>
    BY TaskParts
  <2>2. spent'["crash"] = spent["crash"] /\ spent'["fault"] = spent["fault"] /\ raced \subseteq raced'
    BY <1>4, OccursType DEF Begin, Deliver, Refuse, AnswerLost, Finish, Events
  <2>3. \A x \in Tasks : x # t => task'[x] = task[x]
    BY <1>4, GoesType DEF Begin, Deliver, Refuse, AnswerLost, Finish, Phases
  <2>4. \A m \in Mails : m # t[1] => mail'[m] = mail[m]
    BY <1>4 DEF Begin, Deliver, Refuse, AnswerLost, Finish, QueueTypeOK
  <2>5. \/ task'[t] \in {"send", "accepted", "refused"}
        \/ ~Sending(t) /\ mail' = mail
        \/ mail'[t[1]].status # "processing"
    <3>1. CASE Begin(t)
      BY <3>1, GoesType DEF Begin, Phases
    <3>2. CASE Deliver(t) \/ Refuse(t) \/ AnswerLost(t)
      BY <3>2, GoesType DEF Deliver, Refuse, AnswerLost, Phases
    <3>3. CASE Finish(t)
      <4>1. Outcome(t) \in Status /\ Outcome(t) # "processing"
        BY DEF Outcome, Status
      <4>2. mail[t[1]].status = "processing" => There(t[1])
        BY DEF There
      <4>3. QED
        BY <2>1, <3>3, <4>1, <4>2, StatusType DEF Finish
    <3>4. QED
      BY <1>4, <3>1, <3>2, <3>3
  <2>6. ASSUME NEW m \in Mails, Due(m)' PROVE Held(m)'
    <3>1. CASE m = t[1]
      <4>1. CASE task'[t] \in {"send", "accepted", "refused"}
        BY <2>1, <3>1, <4>1
      <4>2. CASE ~Sending(t) /\ mail' = mail
        BY <1>1, <1>2, <2>2, <2>3, <2>6, <4>2
      <4>3. QED
        BY <2>5, <2>6, <3>1, <4>1, <4>2
    <3>2. CASE m # t[1]
      BY <1>1, <1>2, <2>1, <2>2, <2>3, <2>4, <2>6, <3>2
    <3>3. QED
      BY <3>1, <3>2
  <2>7. QED
    BY <2>6 DEF NoStrandedMail
<1>5. ASSUME UNCHANGED task, raced \subseteq raced',
             spent'["crash"] = spent["crash"], spent'["fault"] = spent["fault"],
             \A m \in Mails : mail'[m].status = "processing" => mail[m].status = "processing"
      PROVE  NoStrandedMail'
  BY <1>5 DEF NoStrandedMail
<1>6. ASSUME NEW w \in Writers, Commit(w) PROVE NoStrandedMail'
  <2>1. \A m \in Mails : mail'[m].status \in {mail[m].status, "pending"}
    BY <1>6 DEF Commit
  <2>2. QED
    BY <1>5, <1>6, <2>1 DEF Commit
<1>7. ASSUME NEW v \in Pods, NEW m \in Mails, RetryCommit(v, m) PROVE NoStrandedMail'
  <2>1. \A n \in Mails : mail'[n].status \in {mail[n].status, "pending"}
    BY <1>7, StatusType DEF RetryCommit, Status
  <2>2. QED
    BY <1>5, <1>7, <2>1 DEF RetryCommit
<1>8. ASSUME NEW gone, Delete(gone) PROVE NoStrandedMail'
  <2>1. \A m \in Mails : [mail[m] EXCEPT !.status = "deleted"].status = "deleted"
    BY DEF QueueTypeOK, Row
  <2>2. \A m \in Mails : mail'[m].status \in {mail[m].status, "deleted"}
    BY <1>8, <2>1 DEF Delete
  <2>3. spent'["crash"] = spent["crash"] /\ spent'["fault"] = spent["fault"]
    BY <1>8, OccursType DEF Delete, Events
  <2>4. QED
    BY <1>5, <1>8, <2>2, <2>3 DEF Delete
<1>9. QED
  BY <1>3, <1>4, <1>6, <1>7, <1>8, StepKinds

\* The inductive invariant.
Ind == QueueTypeOK /\ Ledger /\ Rows /\ NoStrandedMail

\* It holds to begin with, and every step keeps it.
LEMMA IndInvariant == QueueSpec => []Ind
<1>1. QueueInit => Ind
  BY TypeInit, LedgerInit DEF Ind
<1>2. Ind /\ [QueueNext]_qvars => Ind'
  <2> SUFFICES ASSUME Ind, [QueueNext]_qvars PROVE Ind'
    OBVIOUS
  <2> USE DEF Ind
  <2>1. Alone' /\ Busy' /\ Kept' /\ Accepted'
    <3>1. CASE Calm
      BY <3>1, CalmKeeps DEF Ledger
    <3>2. QED
      BY <3>1, StepKinds, LedgerTask, LedgerTable
  <2>2. Asked'
    BY AskedStep DEF Ledger
  <2>3. Rows'
    BY RowsStep
  <2>4. QED
    BY <2>1, <2>2, <2>3, TypeStep, StrandedStep DEF Ledger, Rows
<1>3. QED
  BY <1>1, <1>2, PTL DEF QueueSpec

\* No mail is handed to the relay twice, however many sweeps, retries, pods and
\* crashes there are, short of a race or a lost answer.
THEOREM NeverHandedTwice == QueueSpec => []HandedOnce
<1>1. Ind => HandedOnce
  BY DEF Ind, Ledger, Kept, HandedOnce, Plain
<1>2. QED
  BY <1>1, IndInvariant, PTL

\* The table never claims that the relay has a mail it has not, nor invites to
\* retry one it has, short of a race or a lost answer.
THEOREM StatusIsTrue == QueueSpec => []StatusTellsTheTruth
<1>1. Ind => StatusTellsTheTruth
  BY DEF Ind, Ledger, Kept, Accepted, StatusTellsTheTruth, Plain, QueueTypeOK
<1>2. QED
  BY <1>1, IndInvariant, PTL

\* Only a crash, a failed commit or a race leaves a mail in "processing".
THEOREM ProcessingIsProcessed == QueueSpec => []NoStrandedMail
<1>1. Ind => NoStrandedMail
  BY DEF Ind
<1>2. QED
  BY <1>1, IndInvariant, PTL

\* A key is in one row, unless two sessions have inserted it at once.
THEOREM KeysAreUnique == QueueSpec => []OneRowPerKey
<1>1. Ind => OneRowPerKey
  BY DEF Ind, Rows
<1>2. QED
  BY <1>1, IndInvariant, PTL
===============================================================================
