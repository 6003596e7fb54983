--------------------------- MODULE Reminders_proofs ---------------------------
(* Theorems about the reminder monitors, for every set of waves, milestones,  *)
(* dates and sessions, every frequency and every bound.                       *)
EXTENDS Reminders, EmailJobs_proofs

\* A session holds keys only while it is open.
Idle == \A w \in Writers : writer[w].phase = "idle" => writer[w].todo = {} /\ writer[w].new = {}

\* Only reminder keys get into the table.
Keyed ==
    /\ \A w \in Writers : \A m \in writer[w].new : writer[w].of[m] \in Keys
    /\ \A m \in Mails : There(m) => mail[m].key \in Keys

\* The keys a session has yet to insert or to commit.
Wanted(w) == writer[w].todo \cup {writer[w].of[m] : m \in writer[w].new}

\* What an open session wants has today's date, and the earlier mails for the
\* same milestone are old enough, but for those that came in meanwhile.
Fresh ==
    \A w \in Writers : \A k \in Wanted(w) : k[1] = "milestone" =>
        /\ k[3] = Today
        /\ \A n \in Mails :
              There(n) /\ mail[n].key[1] = "milestone" /\ mail[n].key[2] = k[2]
              => mail[n].key = k \/ born[n] + Frequency * DaySlots <= clock

-----------------------------------------------------------------------------
(* Keys and days.                                                            *)

\* The calendar does not run out.
LEMMA TodayType == TypeOK => Today \in Day /\ TodayRunTime \in Nat
<1> SUFFICES ASSUME TypeOK PROVE Today \in Day /\ TodayRunTime \in Nat
  OBVIOUS
<1>1. clock \in Nat /\ clock <= LastSlot /\ LastSlot \in Nat /\ DaySlots \in Nat /\ DaySlots > 0
  BY ReminderConstantsOK DEF TypeOK
<1>2. Today \in Nat /\ Today <= LastSlot \div DaySlots
  BY <1>1 DEF Today
<1>3. QED
  BY <1>1, <1>2, ReminderConstantsOK DEF Day, TodayRunTime, TypeOK

\* A key names what it reminds of.
LEMMA KeyShape ==
    /\ \A k \in Keys : k[1] = "milestone" => k = <<"milestone", k[2], k[3]>>
    /\ NoKey \notin Keys
<1>1. \A k \in CutoverKeys : k[1] = "cutover"
  BY DEF CutoverKeys
<1>2. \A k \in MilestoneKeys : k = <<"milestone", k[2], k[3]>>
  BY DEF MilestoneKeys
<1>3. QED
  BY <1>1, <1>2, ReminderConstantsOK, MailConstantsOK DEF ReminderKeys

\* What a scan finds are reminder keys; of milestones, those of today that are
\* not on cooldown.
LEMMA ScanType ==
    ASSUME TypeOK
    PROVE  /\ \A days : Cutovers(days) \subseteq Keys
           /\ DueMilestones \subseteq Keys
           /\ \A days : \A k \in Cutovers(days) : k[1] = "cutover"
           /\ \A k \in DueMilestones : /\ k = <<"milestone", k[2], Today>>
                                       /\ ~OnCooldown(k[2])
<1>1. ASSUME NEW days, NEW k \in Cutovers(days)
      PROVE  k \in CutoverKeys /\ k[1] = "cutover"
  <2>1. PICK w \in Waves : \E p \in Members[w] : k = <<"cutover", w, p, cutover[w]>>
    BY DEF Cutovers
  <2>2. PICK p \in UNION {Members[x] : x \in Waves} : k = <<"cutover", w, p, cutover[w]>>
    BY <2>1
  <2>3. cutover[w] \in Dates
    BY DEF TypeOK
  <2>4. QED
    BY <2>2, <2>3 DEF CutoverKeys
<1>2. ASSUME NEW k \in DueMilestones
      PROVE  /\ k \in MilestoneKeys
             /\ k = <<"milestone", k[2], Today>> /\ ~OnCooldown(k[2])
  <2>1. PICK s \in todo : k = <<"milestone", s, Today>> /\ ~OnCooldown(s)
    BY DEF DueMilestones
  <2>2. s \in Milestones
    BY DEF TypeOK
  <2>3. QED
    BY <2>1, <2>2, TodayType DEF MilestoneKeys
<1>3. QED
  BY <1>1, <1>2, ReminderConstantsOK DEF ReminderKeys

-----------------------------------------------------------------------------
(* Type correctness.                                                         *)

\* The monitors are writers on workers.
LEMMA MonitorType == \A k \in Monitors : k \in Writers /\ OwnKey(k) \in {CutoverKey, MilestoneKey}
BY ReminderConstantsOK DEF OwnKey, Monitors

\* A step is one of the queue, or a change of data that the queue does not hold.
LEMMA QueuePart ==
    ASSUME TypeOK, [Next]_vars
    PROVE  \/ [QueueNext]_qvars
           \/ /\ UNCHANGED <<mail, task, inflight, sweep, admin, writer, up, handed, raced, crossed>>
              /\ Occurs("edit")
<1>1. ASSUME NEW k \in Monitors, MonitorRun(k) PROVE QueueNext
  <2>1. Due(k) \in SUBSET Keys
    BY ScanType DEF Due, ExactCutovers
  <2>2. QED
    BY <1>1, <2>1, MonitorType DEF MonitorRun, QueueNext
<1>2. ASSUME NEW k \in Monitors, MonitorFault(k) PROVE QueueNext
  BY <1>2, MonitorType DEF MonitorFault, QueueNext, QueueStep
<1>3. ASSUME NEW k \in Monitors, MonitorSave(k) \/ MonitorInsert(k) PROVE UNCHANGED qvars
  BY <1>3 DEF MonitorSave, MonitorInsert
<1>4. ASSUME NEW w \in Writers, WriterCommit(w) PROVE QueueNext
  BY <1>4 DEF WriterCommit, QueueNext, QueueStep, WriterStep
<1>5. ASSUME NEW w \in Writers, Ask(w) PROVE QueueNext
  <2>1. PICK keys \in ((SUBSET WindowCutovers) \cup (SUBSET DueMilestones)) \ {{}} : Open(w, keys)
    BY <1>5 DEF Ask
  <2>2. keys \in SUBSET Keys
    BY ScanType DEF WindowCutovers
  <2>3. QED
    BY <2>1, <2>2 DEF QueueNext
<1>6. ASSUME NEW s \in Milestones, Settle(s) PROVE UNCHANGED qvars
  BY <1>6 DEF Settle
<1>7. CASE Tick
  BY <1>7 DEF Tick
<1>8. ASSUME NEW v \in Pods, CrashAll(v) PROVE QueueNext
  BY <1>8 DEF CrashAll, QueueNext, QueueStep
<1>9. CASE Queue
  BY <1>9 DEF Queue, QueueNext, QueueStep, WriterStep
<1>10. CASE UNCHANGED vars
  BY <1>10 DEF vars, qvars
<1>11. CASE Configure \/ \E w \in Waves : Reschedule(w)
  BY <1>11 DEF Configure, Reschedule, Edit
<1>12. QED
  BY <1>1, <1>2, <1>3, <1>4, <1>5, <1>6, <1>7, <1>8, <1>9, <1>10, <1>11 DEF Next

\* The clock starts in the calendar.
LEMMA ReminderTypeInit == Init => TypeOK
<1> SUFFICES ASSUME Init PROVE TypeOK
  OBVIOUS
<1>1. QueueTypeOK
  BY TypeInit DEF Init
<1>2. 0 \in 0 .. LastSlot
  BY ReminderConstantsOK
<1>3. lastRun \in [{CutoverKey, MilestoneKey} -> Nat \cup {Never}]
  BY ReminderConstantsOK DEF Init
<1>4. QED
  BY <1>1, <1>2, <1>3, ReminderConstantsOK DEF Init, TypeOK

\* Each action keeps the types.
LEMMA ReminderTypeStep == TypeOK /\ [Next]_vars => TypeOK'
<1> SUFFICES ASSUME TypeOK, [Next]_vars PROVE TypeOK'
  OBVIOUS
<1>1. QueueTypeOK'
  <2>1. CASE [QueueNext]_qvars
    BY <2>1, TypeStep DEF TypeOK
  <2>2. CASE /\ UNCHANGED <<mail, task, inflight, sweep, admin, writer, up, handed, raced, crossed>>
             /\ Occurs("edit")
    BY <2>2, OccursType DEF TypeOK, QueueTypeOK, Events
  <2>3. QED
    BY <2>1, <2>2, QueuePart
<1> DEFINE Rest == /\ clock \in 0 .. LastSlot /\ runTime \in 0 .. DaySlots - 1
                   /\ enabled \subseteq Monitors /\ cutover \in [Waves -> Dates]
                   /\ todo \subseteq Milestones
                   /\ lastRun \in [{CutoverKey, MilestoneKey} -> Nat \cup {Never}]
                   /\ monitor \in [Monitors -> {"asleep", "run", "insert", "dead"}]
                   /\ born \in [Mails -> Nat]
<1>2. Rest /\ clock \in Nat
  BY ReminderConstantsOK DEF TypeOK
<1>3. ASSUME NEW k \in Monitors, MonitorRun(k) \/ MonitorFault(k) PROVE Rest'
  BY <1>2, <1>3 DEF MonitorRun, MonitorFault
<1>4. ASSUME NEW k \in Monitors, MonitorSave(k) \/ MonitorInsert(k) PROVE Rest'
  <2>1. OwnKey(k) \in {CutoverKey, MilestoneKey} /\ CutoverKey \in {CutoverKey, MilestoneKey}
    BY MonitorType
  <2>2. lastRun' \in [{CutoverKey, MilestoneKey} -> Nat \cup {Never}]
    BY <1>2, <1>4, <2>1 DEF MonitorSave, MonitorInsert
  <2>3. QED
    BY <1>2, <1>4, <2>2 DEF MonitorSave, MonitorInsert
<1>5. ASSUME NEW w \in Writers, WriterCommit(w) PROVE Rest'
  BY <1>2, <1>5 DEF WriterCommit
<1>6. ASSUME NEW w \in Writers, Ask(w) PROVE Rest'
  BY <1>2, <1>6 DEF Ask, rvars
<1>7. ASSUME NEW s \in Milestones, Settle(s) PROVE Rest'
  BY <1>2, <1>7 DEF Settle
<1>8. ASSUME Tick PROVE Rest'
  BY <1>2, <1>8, ReminderConstantsOK DEF Tick
<1>9. ASSUME NEW v \in Pods, CrashAll(v) PROVE Rest'
  BY <1>2, <1>9 DEF CrashAll
<1>10. ASSUME Queue PROVE Rest'
  BY <1>2, <1>10 DEF Queue, rvars
<1>11. ASSUME Configure PROVE Rest'
  BY <1>2, <1>11 DEF Configure, Edit
<1>12. ASSUME NEW w \in Waves, Reschedule(w) PROVE Rest'
  BY <1>2, <1>12 DEF Reschedule, Edit
<1>13. ASSUME UNCHANGED vars PROVE Rest'
  BY <1>2, <1>13 DEF vars
<1>14. Rest'
  <2> HIDE DEF Rest
  <2>1. QED
    BY <1>3, <1>4, <1>5, <1>6, <1>7, <1>8, <1>9, <1>10, <1>11, <1>12, <1>13 DEF Next
<1>15. QED
  BY <1>1, <1>14 DEF TypeOK

\* Every variable keeps its type, and the clock stays in the calendar.
THEOREM RemindersTypeCorrect == Spec => []TypeOK
<1>1. QED
  BY ReminderTypeInit, ReminderTypeStep, PTL DEF Spec

-----------------------------------------------------------------------------
(* The cooldown.                                                             *)

\* A step that lets no session want more, and no mail in.
Steady ==
    /\ UNCHANGED <<clock, born>>
    /\ \A w \in Writers : writer'[w] = writer[w] \/ writer'[w] = Closed
    /\ \A m \in Mails : There(m)' => There(m) /\ mail'[m].key = mail[m].key

\* The other steps.
LEMMA ReminderKinds ==
    ASSUME TypeOK, [Next]_vars
    PROVE  \/ Steady
           \/ \E w \in Writers, keys \in SUBSET Keys :
                 /\ Open(w, keys)
                 /\ \A k \in keys : k[1] = "milestone" => k \in DueMilestones
                 /\ UNCHANGED <<clock, born>>
           \/ \E w \in Writers, k \in Keys : Enqueue(w, k) /\ UNCHANGED <<clock, born>>
           \/ \E w \in Writers : WriterCommit(w)
           \/ Tick
<1> DEFINE Opens == \E w \in Writers, keys \in SUBSET Keys :
                       /\ Open(w, keys)
                       /\ \A k \in keys : k[1] = "milestone" => k \in DueMilestones
                       /\ UNCHANGED <<clock, born>>
<1>1. ASSUME NEW k \in Monitors, MonitorRun(k) PROVE Opens
  <2>1. /\ Due(k) \in SUBSET Keys
        /\ \A x \in Due(k) : x[1] = "milestone" => x \in DueMilestones
    BY ScanType DEF Due, ExactCutovers
  <2>2. QED
    BY <1>1, <2>1, MonitorType DEF MonitorRun
<1>2. ASSUME NEW w \in Writers, Ask(w) PROVE Opens
  <2>1. PICK keys \in ((SUBSET WindowCutovers) \cup (SUBSET DueMilestones)) \ {{}} : Open(w, keys)
    BY <1>2 DEF Ask
  <2>2. keys \in SUBSET Keys /\ \A k \in keys : k[1] = "milestone" => k \in DueMilestones
    BY ScanType DEF WindowCutovers
  <2>3. QED
    BY <1>2, <2>1, <2>2 DEF Ask, rvars
<1>3. ASSUME NEW k \in Monitors, MonitorSave(k) \/ MonitorInsert(k) PROVE Steady
  BY <1>3 DEF MonitorSave, MonitorInsert, Steady, qvars, There
<1>4. ASSUME NEW k \in Monitors, MonitorFault(k) PROVE Steady
  BY <1>4, MonitorType DEF MonitorFault, Abort, Steady, There, TypeOK, QueueTypeOK
<1>5. ASSUME NEW s \in Milestones, Settle(s) PROVE Steady
  BY <1>5 DEF Settle, Steady, qvars, There
<1>6. ASSUME NEW v \in Pods, CrashAll(v) PROVE Steady
  BY <1>6 DEF CrashAll, Crash, Steady, There
<1>7. ASSUME NEW v \in Pods, Restart(v) /\ UNCHANGED rvars PROVE Steady
  BY <1>7 DEF Restart, rvars, Steady, There
<1>8. ASSUME Delete(Status), UNCHANGED rvars PROVE Steady
  <2>1. \A m \in Mails : LET row == [mail[m] EXCEPT !.status = "deleted"] IN
            row.status = "deleted" /\ row.key = mail[m].key
    BY DEF TypeOK, QueueTypeOK, Row
  <2>2. QED
    BY <1>8, <2>1 DEF Delete, rvars, Steady, There
<1>9. ASSUME Configure \/ \E w \in Waves : Reschedule(w) PROVE Steady
  BY <1>9 DEF Configure, Reschedule, Edit, Steady, There
<1>10. ASSUME UNCHANGED vars PROVE Steady
  BY <1>10 DEF vars, Steady, There
<1>11. ASSUME NEW w \in Writers, NEW k \in Keys, Enqueue(w, k) /\ UNCHANGED rvars
       PROVE  Enqueue(w, k) /\ UNCHANGED <<clock, born>>
  BY <1>11 DEF rvars
<1> HIDE DEF Opens
<1>12. \/ Steady \/ Opens \/ Tick
       \/ \E w \in Writers, k \in Keys : Enqueue(w, k) /\ UNCHANGED <<clock, born>>
       \/ \E w \in Writers : WriterCommit(w)
  BY <1>1, <1>2, <1>3, <1>4, <1>5, <1>6, <1>7, <1>8, <1>9, <1>10, <1>11 DEF Next, Queue
<1>13. QED
  BY <1>12 DEF Opens

\* Mails for a milestone that differ in their day are frequency_days apart.
Spaced ==
    \A m, n \in Mails :
        /\ There(m) /\ There(n)
        /\ mail[m].key[1] = "milestone" /\ mail[n].key[1] = "milestone"
        /\ mail[m].key[2] = mail[n].key[2] /\ mail[m].key # mail[n].key
        => \/ born[n] + Frequency * DaySlots <= born[m]
           \/ born[m] + Frequency * DaySlots <= born[n]

\* The books of the reminders.
Books == Idle /\ Keyed /\ Fresh /\ Spaced

\* They are empty to begin with.
LEMMA BooksInit == Init => Books
BY DEF Init, QueueInit, Books, Idle, Keyed, Fresh, Spaced, Wanted, There, NoRow, Closed

\* A closed session wants nothing.
LEMMA ClosedWants == Closed.phase = "idle" /\ Closed.todo = {} /\ Closed.new = {}
BY DEF Closed

\* Every step keeps the books.
LEMMA BooksStep ==
    ASSUME TypeOK, TypeOK', Rows, Books, [Next]_vars
    PROVE  Books'
<1> DEFINE span == Frequency * DaySlots
<1> USE DEF Books
<1>1. /\ span \in Nat /\ clock \in Nat
      /\ \A m \in Mails : born[m] \in Nat
      /\ \A w \in Writers : /\ writer[w].new \subseteq Mails /\ writer[w].todo \subseteq Keys
                            /\ writer[w].of \in [Mails -> Keys \cup {NoKey}]
  BY ReminderConstantsOK DEF TypeOK, QueueTypeOK, Session
<1>2. \A w \in Writers : Wanted(w) \subseteq Keys
  BY <1>1 DEF Wanted, Keyed
<1>3. ASSUME Steady PROVE Books'
  <2>1. \A w \in Writers : Wanted(w)' \subseteq Wanted(w)
    BY <1>3, ClosedWants DEF Steady, Wanted
  <2>2. Idle' /\ Keyed'
    BY <1>3, ClosedWants DEF Steady, Idle, Keyed
  <2>3. Today' = Today
    BY <1>3 DEF Steady, Today
  <2>4. Fresh'
    BY <1>3, <2>1, <2>3 DEF Steady, Fresh
  <2>5. Spaced'
    BY <1>3 DEF Steady, Spaced
  <2>6. QED
    BY <2>2, <2>4, <2>5
<1>4. ASSUME NEW w \in Writers, NEW keys \in SUBSET Keys, Open(w, keys),
             \A k \in keys : k[1] = "milestone" => k \in DueMilestones,
             UNCHANGED <<clock, born>>
      PROVE  Books'
  <2>1. /\ writer'[w].todo = keys /\ writer'[w].new = {} /\ writer'[w].phase = "enqueue"
        /\ \A x \in Writers : x # w => writer'[x] = writer[x]
        /\ mail' = mail
    BY <1>4 DEF Open, TypeOK, QueueTypeOK, Closed
  <2>2. Wanted(w)' = keys /\ \A x \in Writers : x # w => Wanted(x)' = Wanted(x)
    BY <2>1 DEF Wanted
  <2>3. Idle' /\ Keyed' /\ Spaced'
    BY <1>4, <2>1 DEF Idle, Keyed, Spaced, There
  <2>4. Today' = Today
    BY <1>4 DEF Today
  <2>5. ASSUME NEW k \in keys, k[1] = "milestone"
        PROVE  /\ k[3] = Today
               /\ \A n \in Mails :
                     There(n) /\ mail[n].key[1] = "milestone" /\ mail[n].key[2] = k[2]
                     => born[n] + span <= clock
    <3>1. k = <<"milestone", k[2], Today>> /\ ~OnCooldown(k[2])
      BY <1>4, <2>5, ScanType
    <3>2. QED
      BY <1>1, <3>1 DEF OnCooldown
  <2>6. Fresh'
    BY <1>4, <2>1, <2>2, <2>4, <2>5 DEF Fresh, There
  <2>7. QED
    BY <2>3, <2>6
<1>5. ASSUME NEW w \in Writers, NEW k \in Keys, Enqueue(w, k), UNCHANGED <<clock, born>>
      PROVE  Books'
  <2>1. mail' = mail /\ writer[w].phase = "enqueue" /\ k \in writer[w].todo
    BY <1>5 DEF Enqueue
  <2>2. Today' = Today
    BY <1>5 DEF Today
  <2>3. /\ \A x \in Writers : x # w => writer'[x] = writer[x]
        /\ writer'[w].phase = "enqueue"
        /\ \A m \in writer'[w].new : writer'[w].of[m] \in Keys
        /\ Wanted(w)' \subseteq Wanted(w)
    <3>1. CASE Known(w, k)
      <4>1. writer' = [writer EXCEPT ![w].todo = @ \ {k}]
        BY <1>5, <3>1 DEF Enqueue
      <4>2. /\ writer'[w].todo = writer[w].todo \ {k} /\ writer'[w].new = writer[w].new
            /\ writer'[w].of = writer[w].of /\ writer'[w].phase = writer[w].phase
            /\ \A x \in Writers : x # w => writer'[x] = writer[x]
        BY <4>1 DEF TypeOK, QueueTypeOK, Session
      <4>3. QED
        BY <2>1, <4>2 DEF Wanted, Keyed
    <3>2. CASE ~Known(w, k)
      <4>1. PICK m \in Unused :
                /\ \A x \in Writers : x # w => writer'[x] = writer[x]
                /\ writer'[w].phase = writer[w].phase
                /\ writer'[w].todo = writer[w].todo \ {k}
                /\ writer'[w].new = writer[w].new \cup {m}
                /\ writer'[w].of[m] = k
                /\ \A n \in Mails : n # m => writer'[w].of[n] = writer[w].of[n]
        BY <1>5, <3>2, InsertParts DEF TypeOK
      <4>2. \A n \in writer'[w].new : writer'[w].of[n] = k \/ (n \in writer[w].new
                                         /\ writer'[w].of[n] = writer[w].of[n])
        BY <1>1, <4>1
      <4>3. QED
        BY <2>1, <4>1, <4>2 DEF Wanted, Keyed
    <3>3. QED
      BY <3>1, <3>2
  <2>4. \A x \in Writers : Wanted(x)' \subseteq Wanted(x)
    BY <2>3 DEF Wanted
  <2>5. Idle' /\ Keyed' /\ Spaced'
    BY <1>5, <2>1, <2>3 DEF Idle, Keyed, Spaced, There
  <2>6. Fresh'
    BY <1>5, <2>1, <2>2, <2>4 DEF Fresh, There
  <2>7. QED
    BY <2>5, <2>6
<1>6. ASSUME NEW w \in Writers, WriterCommit(w) PROVE Books'
  <2>1. /\ writer'[w] = Closed /\ \A x \in Writers : x # w => writer'[x] = writer[x]
        /\ clock' = clock
        /\ \A m \in Mails : IF m \in writer[w].new
               THEN mail'[m].key = writer[w].of[m] /\ born'[m] = clock
               ELSE mail'[m] = mail[m] /\ born'[m] = born[m]
    BY <1>6 DEF WriterCommit, Commit, TypeOK, QueueTypeOK
  <2>2. Wanted(w)' = {} /\ \A x \in Writers : x # w => Wanted(x)' = Wanted(x)
    BY <2>1, ClosedWants DEF Wanted
  <2>3. Today' = Today
    BY <2>1 DEF Today
  <2>4. \A m \in writer[w].new :
            /\ writer[w].of[m] \in Wanted(w) /\ writer[w].of[m] \in Keys
            /\ writer[w].of[m][1] = "milestone"
               => writer[w].of[m] = <<"milestone", writer[w].of[m][2], Today>>
    <3>1. \A m \in writer[w].new : writer[w].of[m] \in Wanted(w)
      BY DEF Wanted
    <3>2. QED
      BY <1>2, <3>1, KeyShape DEF Fresh
  <2>5. Idle' /\ Keyed'
    BY <2>1, <2>4, ClosedWants DEF Idle, Keyed, There
  <2>6. Fresh'
    <3>1. ASSUME NEW x \in Writers, x # w, NEW k \in Wanted(x), k[1] = "milestone",
                 NEW n \in Mails, There(n)', mail'[n].key[1] = "milestone",
                 mail'[n].key[2] = k[2]
          PROVE  k[3] = Today /\ (mail'[n].key = k \/ born'[n] + span <= clock)
      <4>1. k = <<"milestone", k[2], Today>>
        BY <1>2, <3>1, KeyShape DEF Fresh
      <4>2. CASE n \in writer[w].new
        BY <2>1, <2>4, <3>1, <4>1, <4>2
      <4>3. CASE n \notin writer[w].new
        BY <2>1, <3>1, <4>1, <4>3 DEF Fresh, There
      <4>4. QED
        BY <4>2, <4>3
    <3>2. \A x \in Writers : x # w => \A k \in Wanted(x) : k[1] = "milestone" => k[3] = Today
      BY DEF Fresh
    <3>3. QED
      BY <2>1, <2>2, <2>3, <3>1, <3>2 DEF Fresh
  <2>7. Spaced'
    <3>1. ASSUME NEW m \in writer[w].new, NEW n \in Mails, There(n)',
                 mail'[m].key[1] = "milestone", mail'[n].key[1] = "milestone",
                 mail'[m].key[2] = mail'[n].key[2], mail'[m].key # mail'[n].key
          PROVE  born'[n] + span <= born'[m]
      <4>1. m \in Mails /\ mail'[m].key = writer[w].of[m] /\ born'[m] = clock
        BY <1>1, <2>1
      <4>2. n \notin writer[w].new
        BY <2>1, <2>4, <3>1, <4>1
      <4>3. QED
        BY <2>1, <2>4, <3>1, <4>1, <4>2 DEF Fresh, There
    <3>2. ASSUME NEW m \in Mails \ writer[w].new, NEW n \in Mails \ writer[w].new,
                 There(m)', There(n)',
                 mail'[m].key[1] = "milestone", mail'[n].key[1] = "milestone",
                 mail'[m].key[2] = mail'[n].key[2], mail'[m].key # mail'[n].key
          PROVE  born'[n] + span <= born'[m] \/ born'[m] + span <= born'[n]
      BY <2>1, <3>2 DEF Spaced, There
    <3>3. QED
      BY <3>1, <3>2 DEF Spaced
  <2>8. QED
    BY <2>5, <2>6, <2>7
<1>7. ASSUME Tick PROVE Books'
  <2>1. /\ mail' = mail /\ writer' = writer /\ born' = born
        /\ \A w \in Writers : writer[w].phase = "idle"
    BY <1>7 DEF Tick, qvars
  <2>2. \A w \in Writers : Wanted(w)' = {}
    BY <2>1 DEF Idle, Wanted
  <2>3. QED
    BY <2>1, <2>2 DEF Idle, Keyed, Spaced, Fresh, There
<1>8. QED
  BY <1>3, <1>4, <1>5, <1>6, <1>7, ReminderKinds

\* The rows of the queue are in order under the monitors too.
LEMMA RowsInit == Init => Rows
BY LedgerInit DEF Init

\* An edit leaves the rows alone; any other step is one of the queue.
LEMMA RemindersRows ==
    ASSUME TypeOK, Rows, [Next]_vars
    PROVE  Rows'
<1>1. CASE [QueueNext]_qvars
  BY <1>1, RowsStep DEF TypeOK
<1>2. CASE UNCHANGED <<mail, task, inflight, sweep, admin, writer, up, handed, raced, crossed>>
  BY <1>2 DEF Rows, Unseen, Owned, OneInsert, OneRowPerKey, There
<1>3. QED
  BY <1>1, <1>2, QueuePart

\* The inductive invariant.
LEMMA RemindersInvariant == Spec => [](TypeOK /\ Rows /\ Books)
<1>1. Init => TypeOK /\ Rows /\ Books
  BY ReminderTypeInit, RowsInit, BooksInit
<1>2. TypeOK /\ Rows /\ Books /\ [Next]_vars => (TypeOK /\ Rows /\ Books)'
  BY ReminderTypeStep, RemindersRows, BooksStep
<1>3. QED
  BY <1>1, <1>2, PTL DEF Spec

\* One row per reminder, whatever the monitors and administrators enqueue, short
\* of two sessions that insert the same key at once.
THEOREM OneReminderPerKey == Spec => []OneRowPerKey
<1>1. Rows => OneRowPerKey
  BY DEF Rows
<1>2. QED
  BY <1>1, RemindersInvariant, PTL

\* A milestone is not reminded of again before frequency_days have passed, short
\* of the same race.
THEOREM CooldownAlwaysKept == Spec => []CooldownKept
<1>1. TypeOK /\ Rows /\ Books => CooldownKept
  <2> SUFFICES ASSUME TypeOK, Rows, Books, NEW m \in Mails, NEW n \in Mails,
                      m # n, There(m), There(n),
                      mail[m].key[1] = "milestone", mail[n].key[1] = "milestone",
                      mail[m].key[2] = mail[n].key[2], mail[m].key \notin crossed
               PROVE  \/ born[m] - born[n] >= Frequency * DaySlots
                      \/ born[n] - born[m] >= Frequency * DaySlots
    BY DEF CooldownKept
  <2>1. mail[m].key # mail[n].key
    BY DEF Rows, OneRowPerKey
  <2>2. \/ born[n] + Frequency * DaySlots <= born[m]
        \/ born[m] + Frequency * DaySlots <= born[n]
    BY <2>1 DEF Books, Spaced
  <2>3. born[m] \in Nat /\ born[n] \in Nat /\ Frequency * DaySlots \in Nat
    BY ReminderConstantsOK DEF TypeOK
  <2>4. QED
    BY <2>2, <2>3
<1>2. QED
  BY <1>1, RemindersInvariant, PTL

-----------------------------------------------------------------------------
(* No cutover reminder is missed.                                            *)

\* Nobody has changed dates or configuration, no database error has occurred.
Clean == spent["edit"] = 0 /\ spent["fault"] = 0

Mailed(k) == \E m \in Mails : mail[m].key = k

\* A row that is not there has no key.
Blank == \A m \in Mails : mail[m].status = "absent" => mail[m].key = NoKey

\* The cutover monitor either has yet to run today, or is about to insert what is
\* missing, or has mailed every cutover that is due; its last run says which.
Progress ==
    LET last == lastRun[CutoverKey] IN
    Clean =>
        /\ runTime = RunTime /\ enabled = Monitors
        /\ monitor["cutover"] \in {"asleep", "run"}
        /\ last \in Nat /\ (last < RunTime \/ last <= clock)
        /\ last >= TodayRunTime => \A k \in ExactCutovers : Mailed(k)
        /\ monitor["cutover"] = "run" =>
              \A k \in ExactCutovers : Mailed(k) \/ k \in Wanted("cutover")

\* The two monitors are two writers with two keys.
LEMMA TwoMonitors ==
    /\ "cutover" \in Monitors /\ "milestone" \in Monitors
    /\ "cutover" \in Writers /\ "milestone" \in Writers
    /\ OwnKey("cutover") = CutoverKey /\ OwnKey("milestone") = MilestoneKey
    /\ CutoverKey # MilestoneKey
    /\ \A k \in Monitors : k # "cutover" => k = "milestone"
BY ReminderConstantsOK DEF Monitors, OwnKey, CutoverKey, MilestoneKey

\* A mail leaves its key in the table, also when its row is deleted; a commit
\* puts the keys there that the session has inserted.
LEMMA MailedStep ==
    ASSUME TypeOK, Rows, Books, Blank, [Next]_vars
    PROVE  /\ Blank'
           /\ \A k \in Keys : Mailed(k) => Mailed(k)'
           /\ \A w \in Writers : WriterCommit(w) => \A k \in Wanted(w) : Mailed(k)'
<1>1. ASSUME NEW w \in Writers, WriterCommit(w)
      PROVE  /\ Blank'
             /\ \A k \in Keys : Mailed(k) => Mailed(k)'
             /\ \A k \in Wanted(w) : Mailed(k)'
  <2>1. /\ writer[w].todo = {} /\ writer[w].new \subseteq Mails
        /\ \A m \in Mails : IF m \in writer[w].new
               THEN mail'[m].key = writer[w].of[m] /\ mail'[m].status = "pending"
               ELSE mail'[m] = mail[m]
    BY <1>1 DEF WriterCommit, Commit, TypeOK, QueueTypeOK, Session
  <2>2. \A m \in writer[w].new : mail[m].key = NoKey
    BY <2>1 DEF Rows, Unseen, Blank
  <2>3. Blank'
    BY <2>1 DEF Blank
  <2>4. \A k \in Keys : Mailed(k) => Mailed(k)'
    BY <2>1, <2>2, KeyShape DEF Mailed
  <2>5. \A k \in Wanted(w) : Mailed(k)'
    BY <2>1 DEF Wanted, Mailed
  <2>6. QED
    BY <2>3, <2>4, <2>5
<1>2. ASSUME \A m \in Mails : /\ mail'[m].key = mail[m].key
                              /\ mail'[m].status = "absent" => mail[m].status = "absent"
      PROVE  Blank' /\ \A k \in Keys : Mailed(k) => Mailed(k)'
  BY <1>2 DEF Blank, Mailed
<1>3. CASE UNCHANGED mail
  BY <1>1, <1>2, <1>3
<1>4. CASE Delete(Status)
  <2>1. \A m \in Mails : LET row == [mail[m] EXCEPT !.status = "deleted"] IN
            row.status = "deleted" /\ row.key = mail[m].key
    BY DEF TypeOK, QueueTypeOK, Row
  <2>2. QED
    BY <1>1, <1>2, <1>4, <2>1 DEF Delete
<1>5. CASE \E w \in Writers : WriterCommit(w)
  BY <1>1, <1>5
<1>6. QED
  BY <1>3, <1>4, <1>5
     DEF Next, Queue, MonitorRun, MonitorSave, MonitorInsert, MonitorFault, Abort, Ask, Open,
         Reschedule, Configure, Edit, Settle, Tick, CrashAll, Crash, Restart, Enqueue, vars, qvars

\* Events are counted, never forgotten.
LEMMA CleanStep ==
    ASSUME TypeOK, [Next]_vars, Clean'
    PROVE  Clean /\ UNCHANGED <<runTime, enabled, cutover>>
<1>1. UNCHANGED spent \/ \E e \in Events : Occurs(e)
  BY DEF Next, Queue, MonitorRun, MonitorSave, MonitorInsert, MonitorFault, Abort, Ask, Open,
         Reschedule, Configure, Edit, Settle, Tick, CrashAll, Crash, Restart, Enqueue, Delete,
         WriterCommit, Commit, vars, qvars, Events
<1>2. Clean
  <2>1. CASE UNCHANGED spent
    BY <2>1 DEF Clean
  <2>2. CASE \E e \in Events : Occurs(e)
    BY <2>2, OccursType DEF Clean, TypeOK, QueueTypeOK, Events
  <2>3. QED
    BY <1>1, <2>1, <2>2
<1>3. ~Edit
  BY OccursType DEF Edit, Clean, TypeOK, Events
<1>4. UNCHANGED <<runTime, enabled, cutover>>
  BY <1>3
     DEF Next, Queue, MonitorRun, MonitorSave, MonitorInsert, MonitorFault, Ask, rvars,
         Reschedule, Configure, Settle, Tick, CrashAll, WriterCommit, vars
<1>5. QED
  BY <1>2, <1>4

\* No monitor dies of a fault that did not occur.
LEMMA NoFault ==
    ASSUME TypeOK, Clean', NEW k \in Monitors
    PROVE  ~MonitorFault(k)
BY OccursType DEF MonitorFault, Abort, Clean, TypeOK, Events

\* Days are numbers.
LEMMA DayType ==
    ASSUME NEW n \in Nat, NEW d \in Nat, d > 0
    PROVE  n \div d \in Nat
OBVIOUS

\* A day begins before its run time, and ends after it.
LEMMA DayTurns ==
    ASSUME TypeOK, runTime = RunTime, clock' = clock + 1, runTime' = runTime
    PROVE  /\ Today' # Today => TodayRunTime' >= clock' /\ TodayRunTime' >= RunTime + 1
           /\ (clock + 1) % DaySlots = 0 => clock >= TodayRunTime
<1>1. /\ clock \in Nat /\ DaySlots \in Nat /\ DaySlots > 0
      /\ RunTime \in Nat /\ RunTime <= DaySlots - 1
  BY ReminderConstantsOK DEF TypeOK
<1> DEFINE q == clock \div DaySlots
           r == clock % DaySlots
<1>2. q \in Nat /\ r \in 0 .. DaySlots - 1 /\ clock = q * DaySlots + r
  BY <1>1
<1>3. CASE r < DaySlots - 1
  <2>1. (clock + 1) \div DaySlots = q /\ (clock + 1) % DaySlots = r + 1
    BY <1>1, <1>2, <1>3
  <2>2. QED
    BY <1>2, <2>1 DEF Today
<1>4. CASE r = DaySlots - 1
  <2>1. clock + 1 = (q + 1) * DaySlots
    BY <1>1, <1>2, <1>4
  <2>2. (clock + 1) \div DaySlots = q + 1
    BY <1>1, <1>2, <2>1
  <2>3. TodayRunTime = q * DaySlots + RunTime /\ TodayRunTime' = (q + 1) * DaySlots + RunTime
    BY <2>2 DEF Today, TodayRunTime
  <2>4. clock = q * DaySlots + DaySlots - 1
    BY <1>2, <1>4
  <2> HIDE DEF q
  <2> DEFINE p == q * DaySlots
             n == (q + 1) * DaySlots
  <2>5. p \in Nat /\ n \in Nat
    BY <1>1, <1>2
  <2> HIDE DEF p, n
  <2>6. clock = p + DaySlots - 1 /\ TodayRunTime = p + RunTime
    BY <2>3, <2>4 DEF p
  <2>7. clock + 1 = n /\ TodayRunTime' = n + RunTime
    BY <2>1, <2>3 DEF n
  <2>8. QED
    BY <1>1, <2>5, <2>6, <2>7
<1>5. r < DaySlots - 1 \/ r = DaySlots - 1
  <2> HIDE DEF q, r
  <2>1. QED
    BY <1>1, <1>2
<1>6. QED
  BY <1>3, <1>4, <1>5

\* What is due stays so while the day and the dates do.
LEMMA SameDay ==
    ASSUME UNCHANGED <<clock, runTime, cutover>>
    PROVE  UNCHANGED <<Today, TodayRunTime, ExactCutovers>>
<1>1. UNCHANGED <<Today, TodayRunTime>>
  BY DEF Today, TodayRunTime
<1>2. QED
  BY <1>1 DEF ExactCutovers, Cutovers

\* Every step keeps the progress of the cutover monitor.
LEMMA ProgressStep ==
    ASSUME TypeOK, TypeOK', Rows, Books, Blank, Progress, [Next]_vars
    PROVE  Progress'
<1> SUFFICES ASSUME Clean' PROVE Progress'
  BY DEF Progress
<1> DEFINE last == lastRun[CutoverKey]
           c == "cutover"
<1>1. Clean /\ UNCHANGED <<runTime, enabled, cutover>>
  BY CleanStep
<1>2. /\ runTime = RunTime /\ enabled = Monitors
      /\ monitor[c] \in {"asleep", "run"}
      /\ last \in Nat /\ (last < RunTime \/ last <= clock)
      /\ last >= TodayRunTime => \A k \in ExactCutovers : Mailed(k)
      /\ monitor[c] = "run" => \A k \in ExactCutovers : Mailed(k) \/ k \in Wanted(c)
  BY <1>1 DEF Progress
<1>3. /\ ExactCutovers \subseteq Keys
      /\ \A k \in Keys : Mailed(k) => Mailed(k)'
  BY ScanType, MailedStep DEF ExactCutovers
<1>4. clock \in Nat /\ RunTime \in Nat /\ TodayRunTime \in Nat
  BY TodayType, ReminderConstantsOK DEF TypeOK
<1>5. /\ c \in Monitors /\ c \in Writers /\ OwnKey(c) = CutoverKey
      /\ lastRun \in [{CutoverKey, MilestoneKey} -> Nat \cup {Never}]
      /\ monitor \in [Monitors -> {"asleep", "run", "insert", "dead"}]
  BY TwoMonitors DEF TypeOK
\* A step in which the monitor neither starts nor ends a pass.
<1>6. ASSUME UNCHANGED clock, lastRun'[CutoverKey] = last,
             monitor'[c] \in {monitor[c], "asleep"},
             monitor'[c] = "run" => \A k \in Wanted(c) : Mailed(k)' \/ k \in Wanted(c)'
      PROVE  Progress'
  <2>1. UNCHANGED <<Today, TodayRunTime, ExactCutovers>>
    BY <1>1, <1>6, SameDay
  <2>2. QED
    BY <1>1, <1>2, <1>3, <1>6, <2>1 DEF Progress
<1>7. ASSUME MonitorRun(c) PROVE Progress'
  <2>1. /\ Open(c, ExactCutovers) /\ monitor'[c] = "run"
        /\ UNCHANGED <<clock, lastRun>>
    BY <1>2, <1>5, <1>7 DEF MonitorRun, Due
  <2>2. Wanted(c)' = ExactCutovers
    BY <1>5, <2>1 DEF Open, Wanted, TypeOK, QueueTypeOK, Closed
  <2>3. UNCHANGED <<Today, TodayRunTime, ExactCutovers>>
    BY <1>1, <2>1, SameDay
  <2>4. QED
    BY <1>1, <1>2, <1>3, <2>1, <2>2, <2>3 DEF Progress
<1>8. ASSUME MonitorSave(c) PROVE Progress'
  <2>1. /\ lastRun' = [lastRun EXCEPT ![CutoverKey] = clock]
        /\ monitor' = [monitor EXCEPT ![c] = "asleep"]
        /\ monitor[c] = "run" /\ writer[c].phase = "idle"
        /\ UNCHANGED <<mail, clock>>
    BY <1>2, <1>5, <1>8, ReminderConstantsOK DEF MonitorSave, qvars
  <2>2. \A k \in ExactCutovers : Mailed(k)
    BY <1>2, <1>5, <2>1 DEF Books, Idle, Wanted
  <2>3. UNCHANGED <<Today, TodayRunTime, ExactCutovers>>
    BY <1>1, <2>1, SameDay
  <2>4. lastRun'[CutoverKey] = clock /\ monitor'[c] = "asleep"
    BY <1>5, <2>1
  <2>5. QED
    BY <1>1, <1>2, <1>3, <1>4, <2>1, <2>2, <2>3, <2>4 DEF Progress
<1>9. ASSUME MonitorRun("milestone") PROVE Progress'
  <2>1. writer'[c] = writer[c] /\ monitor'[c] = monitor[c] /\ UNCHANGED <<clock, lastRun>>
    BY <1>5, <1>9 DEF MonitorRun, Open, TypeOK, QueueTypeOK
  <2>2. QED
    BY <1>6, <2>1 DEF Wanted
<1>10. ASSUME MonitorSave("milestone") \/ MonitorInsert("milestone") PROVE Progress'
  <2>1. /\ lastRun'[CutoverKey] = last /\ monitor'[c] = monitor[c]
        /\ UNCHANGED <<writer, clock>>
    BY <1>2, <1>5, <1>10, TwoMonitors, ReminderConstantsOK DEF MonitorSave, MonitorInsert, qvars
  <2>2. QED
    BY <1>6, <2>1 DEF Wanted
<1>11. ~MonitorInsert(c)
  BY <1>2 DEF MonitorInsert
<1>12. ASSUME NEW w \in Writers, WriterCommit(w) PROVE Progress'
  <2>1. UNCHANGED <<clock, lastRun, monitor>>
        /\ \A x \in Writers : x # w => writer'[x] = writer[x]
    BY <1>12 DEF WriterCommit, Commit, TypeOK, QueueTypeOK
  <2>2. \A k \in Wanted(w) : Mailed(k)'
    BY <1>12, MailedStep
  <2>3. w # c => Wanted(c)' = Wanted(c)
    BY <1>5, <2>1 DEF Wanted
  <2>4. QED
    BY <1>6, <2>1, <2>2, <2>3
<1>13. ASSUME NEW w \in Writers, Ask(w) PROVE Progress'
  <2>1. writer'[c] = writer[c] /\ UNCHANGED <<clock, lastRun, monitor>>
    BY <1>5, <1>13 DEF Ask, Open, TypeOK, QueueTypeOK, rvars
  <2>2. QED
    BY <1>6, <2>1 DEF Wanted
<1>14. ASSUME NEW w \in Writers, NEW k \in Keys, Enqueue(w, k), UNCHANGED rvars PROVE Progress'
  <2>1. UNCHANGED <<mail, clock, lastRun, monitor>>
    BY <1>14 DEF Enqueue, rvars
  <2>2. \A x \in Wanted(c) : Mailed(x)' \/ x \in Wanted(c)'
    <3>1. CASE w # c
      <4>1. writer'[c] = writer[c]
        BY <1>5, <1>14, <3>1, InsertParts DEF Enqueue, TypeOK, QueueTypeOK
      <4>2. QED
        BY <4>1 DEF Wanted
    <3>2. CASE w = c /\ Known(w, k)
      <4>1. /\ writer'[c].todo = writer[c].todo \ {k} /\ writer'[c].new = writer[c].new
            /\ writer'[c].of = writer[c].of
        BY <1>5, <1>14, <3>2 DEF Enqueue, TypeOK, QueueTypeOK, Session
      <4>2. Mailed(k) \/ \E m \in writer[c].new : writer[c].of[m] = k
        BY <3>2 DEF Known, Inserted, Mailed
      <4>3. QED
        BY <1>3, <1>14, <4>1, <4>2 DEF Wanted
    <3>3. CASE w = c /\ ~Known(w, k)
      <4>1. PICK m \in Unused :
                /\ writer'[c].todo = writer[c].todo \ {k}
                /\ writer'[c].new = writer[c].new \cup {m}
                /\ writer'[c].of[m] = k
                /\ \A n \in Mails : n # m => writer'[c].of[n] = writer[c].of[n]
        BY <1>14, <3>3, InsertParts DEF TypeOK
      <4>2. m \notin writer[c].new /\ writer[c].new \subseteq Mails
        BY <1>5 DEF Unused, TypeOK, QueueTypeOK, Session
      <4>3. ASSUME NEW x \in Wanted(c) PROVE x \in Wanted(c)'
        <5>1. CASE x \in writer[c].todo
          BY <4>1, <5>1 DEF Wanted
        <5>2. CASE \E n \in writer[c].new : x = writer[c].of[n]
          <6>1. PICK n \in writer[c].new : x = writer[c].of[n]
            BY <5>2
          <6>2. n # m /\ n \in Mails /\ n \in writer'[c].new
            BY <4>1, <4>2
          <6>3. x = writer'[c].of[n]
            BY <4>1, <6>1, <6>2
          <6>4. QED
            BY <6>2, <6>3 DEF Wanted
        <5>3. QED
          BY <4>3, <5>1, <5>2 DEF Wanted
      <4>4. QED
        BY <4>3
    <3>4. QED
      BY <3>1, <3>2, <3>3
  <2>3. QED
    BY <1>6, <2>1, <2>2
<1>15. ASSUME NEW v \in Pods, CrashAll(v) PROVE Progress'
  <2>1. /\ UNCHANGED <<clock, lastRun>>
        /\ IF Desk[c] = v THEN monitor'[c] = "asleep"
           ELSE monitor'[c] = monitor[c] /\ writer'[c] = writer[c]
    BY <1>5, <1>15 DEF CrashAll, Crash
  <2>2. QED
    BY <1>6, <2>1 DEF Wanted
<1>16. ASSUME UNCHANGED <<writer, clock, lastRun, monitor>> PROVE Progress'
  BY <1>6, <1>16 DEF Wanted
<1>17. ASSUME Tick PROVE Progress'
  <2>1. clock' = clock + 1 /\ UNCHANGED <<writer, lastRun, monitor>> /\ monitor[c] = "asleep"
    BY <1>2, <1>5, <1>17 DEF Tick, qvars
  <2>2. CASE Today' = Today
    <3>1. UNCHANGED <<TodayRunTime, ExactCutovers>>
      BY <1>1, <2>2 DEF TodayRunTime, ExactCutovers, Cutovers
    <3>2. QED
      BY <1>1, <1>2, <1>3, <1>4, <2>1, <3>1 DEF Progress
  <2>3. CASE Today' # Today
    <3>1. TodayRunTime' >= clock' /\ TodayRunTime' >= RunTime + 1
      BY <1>1, <1>2, <2>1, <2>3, DayTurns
    <3>2. TodayRunTime' \in Int
      <4>1. clock' \in Nat /\ runTime' \in Nat /\ DaySlots \in Nat /\ DaySlots > 0
        BY ReminderConstantsOK DEF TypeOK
      <4>2. clock' \div DaySlots \in Nat
        BY <4>1, DayType
      <4>3. Today' \in Nat
        BY <4>2 DEF Today
      <4>4. QED
        BY <4>1, <4>3 DEF TodayRunTime
    <3>3. ~(last >= TodayRunTime')
      BY <1>2, <1>4, <2>1, <3>1, <3>2
    <3>4. QED
      BY <1>1, <1>2, <1>4, <2>1, <3>3 DEF Progress
  <2>4. QED
    BY <2>2, <2>3
<1>18. QED
  <2>1. \A k \in Monitors : ~MonitorFault(k)
    BY NoFault
  <2>2. QED
    BY <1>7, <1>8, <1>9, <1>10, <1>11, <1>12, <1>13, <1>14, <1>15, <1>16, <1>17, <2>1, TwoMonitors
       DEF Next, Queue, Reschedule, Configure, Edit, Settle, Restart, Delete, vars, rvars, qvars

-----------------------------------------------------------------------------
(* Completeness.                                                             *)

\* When the first run of the cutover monitor lies before that of the first day,
\* it has everything before it.
LEMMA ProgressInit ==
    ASSUME FirstRun \in 0 .. RunTime - 1, Init
    PROVE  Blank /\ Progress
<1>1. Blank
  BY DEF Init, QueueInit, Blank, NoRow
<1>2. /\ lastRun[CutoverKey] = FirstRun /\ monitor["cutover"] = "asleep"
      /\ runTime = RunTime /\ enabled = Monitors /\ clock = 0
  BY TwoMonitors DEF Init
<1>3. FirstRun \in Nat /\ FirstRun < RunTime /\ RunTime \in Nat
  BY ReminderConstantsOK
<1>4. TodayRunTime = RunTime
  <2>1. 0 \div DaySlots = 0
    BY ReminderConstantsOK
  <2>2. Today = 0
    BY <1>2, <2>1 DEF Today
  <2>3. QED
    BY <1>2, <1>3, <2>2, ReminderConstantsOK DEF TodayRunTime
<1>5. Progress
  BY <1>2, <1>3, <1>4 DEF Progress
<1>6. QED
  BY <1>1, <1>5

\* When a day ends, the worker being up, the cutover monitor sleeps with its gate
\* closed after the run time: it has run, and what was due is mailed.
LEMMA DayEnds ==
    ASSUME TypeOK, Blank, Progress, [Next]_vars,
           clock' > clock, (clock + 1) % DaySlots = 0, Desk["cutover"] \in up, Clean
    PROVE  \A k \in ExactCutovers : Mailed(k)
<1> DEFINE last == lastRun[CutoverKey]
<1>1. clock \in Nat
  BY DEF TypeOK
<1>2. Tick
  BY <1>1 DEF Next, Queue, MonitorRun, MonitorSave, MonitorInsert, MonitorFault, Ask, rvars,
              Reschedule, Configure, Edit, Settle, CrashAll, WriterCommit, vars
<1>3. clock' = clock + 1 /\ runTime' = runTime /\ ~Gate("cutover")
  BY <1>2, TwoMonitors DEF Tick, Progress
<1>4. runTime = RunTime
  BY DEF Progress
<1>5. clock >= TodayRunTime
  BY <1>3, <1>4, DayTurns
<1>6. last >= TodayRunTime
  BY <1>3, <1>5, TwoMonitors DEF Gate
<1>7. QED
  BY <1>6 DEF Progress

\* No day passes without the reminders of its cutovers, whatever crashes and
\* however the sessions interleave, when the monitor has run before and neither
\* faults nor edits interfere.
THEOREM RemindersComplete ==
    ASSUME FirstRun \in 0 .. RunTime - 1
    PROVE  Spec => NoReminderMissed
<1> DEFINE Inv == TypeOK /\ Rows /\ Books /\ Blank /\ Progress
<1>1. Init => Inv
  BY ReminderTypeInit, RowsInit, BooksInit, ProgressInit
<1>2. Inv /\ [Next]_vars => Inv'
  BY ReminderTypeStep, RemindersRows, BooksStep, MailedStep, ProgressStep
<1>3. Inv /\ [Next]_vars =>
        [/\ clock' > clock /\ (clock + 1) % DaySlots = 0
         /\ Desk["cutover"] \in up
         /\ spent["edit"] = 0 /\ spent["fault"] = 0
         => \A k \in ExactCutovers : \E m \in Mails : mail[m].key = k]_vars
  BY DayEnds DEF Clean, Mailed
<1>4. QED
  BY <1>1, <1>2, <1>3, PTL DEF Spec, NoReminderMissed
===============================================================================
