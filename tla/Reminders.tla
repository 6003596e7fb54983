------------------------------ MODULE Reminders ------------------------------
(***************************************************************************)
(* The two reminder monitors of the backend, on top of the email queue:    *)
(* services/cutover_reminder_service.py, milestone_reminder_service.py and *)
(* the last runs that email_event_config_service.py keeps in config_store; *)
(* and the requests of routers/admin_email.py that enqueue reminders.      *)
(*                                                                         *)
(* A monitor wakes up every five minutes.  If it has not run since today's *)
(* run time it scans, enqueues what is due, commits, and then saves its    *)
(* last run in a second transaction.  Time is counted in slots of a day.   *)
(* A pass, and the interval of a monitor, are short compared with a slot.  *)
(***************************************************************************)
EXTENDS EmailJobs, Integers

CONSTANTS
    Waves, Members,   \* the projects of each wave
    FirstCutover,     \* the cutover day of each wave to begin with
    Dates,            \* the days a cutover may be moved to
    Milestones,
    TargetDay,        \* the day each milestone starts or ends
    ReminderDays,     \* reminder_days, the same for both events
    Frequency,        \* frequency_days
    DaySlots,         \* slots in a day
    RunTime,          \* run_time_utc to begin with
    LastSlot,         \* bounds the clock
    FirstRun,         \* the last run of cutover reminders to begin with
    Never             \* no last run on record

Monitors   == {"cutover", "milestone"}   \* two of the writers
CutoverKey == "email_cron_last_run"
MilestoneKey == "milestone_reminder_cron_last_run"
Day == 0 .. LastSlot \div DaySlots
MaxReminder == CHOOSE d \in ReminderDays : \A e \in ReminderDays : e <= d

CutoverKeys   == {<<"cutover", w, p, d>> : w \in Waves, p \in UNION {Members[x] : x \in Waves},
                                           d \in Dates}
MilestoneKeys == {<<"milestone", s, d>> : s \in Milestones, d \in Day}
ReminderKeys  == CutoverKeys \cup MilestoneKeys

ASSUME ReminderConstantsOK ==
    /\ Monitors \subseteq Writers
    /\ \A k \in Monitors : Desk[k] \in Workers
    /\ DaySlots \in Nat \ {0} /\ RunTime \in 0 .. DaySlots - 1
    /\ LastSlot \in Nat /\ Frequency \in Nat
    /\ ReminderDays \subseteq Nat /\ ReminderDays # {}
    /\ Dates \subseteq Nat /\ FirstCutover \in [Waves -> Dates] /\ TargetDay \in [Milestones -> Nat]
    /\ Keys = ReminderKeys
    /\ Never \notin Nat /\ FirstRun \in Nat \cup {Never}

VARIABLES
    clock,     \* the time, in slots
    runTime,   \* run_time_utc of the configuration
    enabled,   \* the events that are switched on
    cutover,   \* waves.cutover_date
    todo,      \* the milestones that are not done
    lastRun,   \* config_store: the timestamp under each of the two keys
    monitor,   \* where each monitor is
    born       \* email_jobs.created_at

rvars == <<clock, runTime, enabled, cutover, todo, lastRun, monitor, born>>
vars  == <<mail, task, inflight, sweep, admin, writer, up, handed, raced, crossed, spent,
           clock, runTime, enabled, cutover, todo, lastRun, monitor, born>>

TypeOK ==
    /\ QueueTypeOK
    /\ clock \in 0 .. LastSlot
    /\ runTime \in 0 .. DaySlots - 1
    /\ enabled \subseteq Monitors
    /\ cutover \in [Waves -> Dates]
    /\ todo \subseteq Milestones
    /\ lastRun \in [{CutoverKey, MilestoneKey} -> Nat \cup {Never}]
    /\ monitor \in [Monitors -> {"asleep", "run", "insert", "dead"}]
    /\ born \in [Mails -> Nat]

Init ==
    /\ QueueInit
    /\ clock = 0
    /\ runTime = RunTime
    /\ enabled = Monitors
    /\ cutover = FirstCutover
    /\ todo = Milestones
    /\ lastRun = [c \in {CutoverKey, MilestoneKey} |-> IF c = CutoverKey THEN FirstRun ELSE Never]
    /\ monitor = [k \in Monitors |-> "asleep"]
    /\ born = [m \in Mails |-> 0]

-----------------------------------------------------------------------------
(* What is due.                                                             *)

Today        == clock \div DaySlots
TodayRunTime == Today * DaySlots + runTime

\* The monitor's own row of last runs.
OwnKey(k) == IF k = "cutover" THEN CutoverKey ELSE MilestoneKey

\* The daily gate is open.
Gate(k) ==
    LET last == lastRun[OwnKey(k)] IN
    /\ ~(last # Never /\ last \div DaySlots >= Today /\ last >= TodayRunTime)
    /\ clock >= TodayRunTime

Cutovers(days) ==
    UNION {{<<"cutover", w, p, cutover[w]>> : p \in Members[w]} :
              w \in {x \in Waves : cutover[x] - Today \in days}}

\* scan_cutover_reminders of the monitor, and of the manual scan.
ExactCutovers  == Cutovers(ReminderDays)
WindowCutovers == Cutovers(0 .. MaxReminder)

\* Mutant: only mails of this very run count.
OnCooldownNow(s) ==
    \E m \in Mails : /\ There(m)
                     /\ mail[m].key[1] = "milestone" /\ mail[m].key[2] = s
                     /\ born[m] > clock

\* A mail for the milestone was created less than frequency_days ago.
OnCooldown(s) ==
    \E m \in Mails : /\ There(m)
                     /\ mail[m].key[1] = "milestone" /\ mail[m].key[2] = s
                     /\ born[m] > clock - Frequency * DaySlots

\* Mutant: the key has the time of the run instead of its day.
DueMilestonesByTime ==
    {<<"milestone", s, clock>> : s \in
        {x \in todo : TargetDay[x] - Today <= MaxReminder /\ ~OnCooldown(x)}}

\* scan_milestone_reminders and the test of enqueue_milestone_reminders.
DueMilestones ==
    {<<"milestone", s, Today>> : s \in
        {x \in todo : TargetDay[x] - Today <= MaxReminder /\ ~OnCooldown(x)}}

Due(k) ==
    IF k \notin enabled THEN {}
    ELSE IF k = "cutover" THEN ExactCutovers ELSE DueMilestones

-----------------------------------------------------------------------------
(* A pass of a monitor.                                                     *)

\* The gate is open: the scan.
MonitorRun(k) ==
    /\ monitor[k] = "asleep"
    /\ Gate(k)
    /\ Open(k, Due(k))
    /\ monitor' = [monitor EXCEPT ![k] = "run"]
    /\ UNCHANGED <<clock, runTime, enabled, cutover, todo, lastRun, born>>

\* The commit of what a session has enqueued.
WriterCommit(w) ==
    /\ Commit(w)
    /\ born' = [m \in Mails |-> IF m \in writer[w].new THEN clock ELSE born[m]]
    /\ UNCHANGED <<clock, runTime, enabled, cutover, todo, lastRun, monitor>>

\* Mutant: the last run is saved without waiting for the commit of the mails.
MonitorSaveEarly(k) ==
    /\ monitor[k] = "run"
    /\ IF lastRun[OwnKey(k)] # Never
       THEN /\ lastRun' = [lastRun EXCEPT ![OwnKey(k)] = clock]
            /\ monitor' = [monitor EXCEPT ![k] = "asleep"]
       ELSE /\ monitor' = [monitor EXCEPT ![k] = "insert"]
            /\ UNCHANGED lastRun
    /\ UNCHANGED <<qvars, clock, runTime, enabled, cutover, todo, born>>

\* set_last_run, after the commit: an existing row is updated and committed.
MonitorSave(k) ==
    /\ monitor[k] = "run"
    /\ writer[k].phase = "idle"
    /\ IF lastRun[OwnKey(k)] # Never
       THEN /\ lastRun' = [lastRun EXCEPT ![OwnKey(k)] = clock]
            /\ monitor' = [monitor EXCEPT ![k] = "asleep"]
       ELSE /\ monitor' = [monitor EXCEPT ![k] = "insert"]
            /\ UNCHANGED lastRun
    /\ UNCHANGED <<qvars, clock, runTime, enabled, cutover, todo, born>>

\* The INSERT of a missing row uses the key of the cutover reminders whichever
\* monitor it is; a second row with that key is an error, which ends the monitor.
MonitorInsert(k) ==
    /\ monitor[k] = "insert"
    /\ IF lastRun[CutoverKey] = Never
       THEN /\ lastRun' = [lastRun EXCEPT ![CutoverKey] = clock]
            /\ monitor' = [monitor EXCEPT ![k] = "asleep"]
       ELSE /\ monitor' = [monitor EXCEPT ![k] = "dead"]
            /\ UNCHANGED lastRun
    /\ UNCHANGED <<qvars, clock, runTime, enabled, cutover, todo, born>>

\* A database error ends the monitor, also in the middle of a pass: only its
\* cancellation is caught.
MonitorFault(k) ==
    /\ monitor[k] # "dead"
    /\ Abort(k)
    /\ monitor' = [monitor EXCEPT ![k] = "dead"]
    /\ UNCHANGED <<clock, runTime, enabled, cutover, todo, lastRun, born>>

-----------------------------------------------------------------------------
(* Administration.                                                          *)

\* The manual trigger and the manual scans, with the selection of the
\* administrator; they ask neither the gate nor, for a selection, the switch.
Ask(w) ==
    /\ w \in Writers \ Monitors
    /\ Desk[w] \in Fronts
    /\ \E keys \in ((SUBSET WindowCutovers) \cup (SUBSET DueMilestones)) \ {{}} : Open(w, keys)
    /\ UNCHANGED rvars

Edit ==
    /\ Fronts \cap up # {}
    /\ Occurs("edit")
    /\ UNCHANGED <<mail, task, inflight, sweep, admin, writer, up, handed, raced, crossed>>
    /\ UNCHANGED <<clock, todo, lastRun, monitor, born>>

\* The cutover date of a wave is moved.
Reschedule(w) ==
    /\ \E d \in Dates : cutover' = [cutover EXCEPT ![w] = d]
    /\ Edit
    /\ UNCHANGED <<runTime, enabled>>

\* set_email_event_config: the run time, or the switch of an event.
Configure ==
    /\ \/ runTime' \in 0 .. DaySlots - 1 /\ UNCHANGED enabled
       \/ /\ \E k \in Monitors : enabled' = IF k \in enabled THEN enabled \ {k} ELSE enabled \cup {k}
          /\ UNCHANGED runTime
    /\ Edit
    /\ UNCHANGED cutover

\* A milestone is done.
Settle(s) ==
    /\ Fronts \cap up # {}
    /\ s \in todo
    /\ todo' = todo \ {s}
    /\ UNCHANGED <<qvars, clock, runTime, enabled, cutover, lastRun, monitor, born>>

-----------------------------------------------------------------------------
(* Time, crash and restart.                                                 *)

\* A pass never outlasts a slot, and in every slot each monitor that lives comes
\* round at least once.
Tick ==
    /\ clock < LastSlot
    /\ \A w \in Writers : writer[w].phase = "idle"
    /\ \A k \in Monitors :
          \/ monitor[k] = "dead"
          \/ monitor[k] = "asleep" /\ (Desk[k] \notin up \/ ~Gate(k))
    /\ clock' = clock + 1
    /\ UNCHANGED <<qvars, runTime, enabled, cutover, todo, lastRun, monitor, born>>

\* Pod v dies, and its monitors with it; when it is back they sleep first.
CrashAll(v) ==
    /\ Crash(v)
    /\ monitor' = [k \in Monitors |-> IF Desk[k] = v THEN "asleep" ELSE monitor[k]]
    /\ UNCHANGED <<clock, runTime, enabled, cutover, todo, lastRun, born>>

\* The rest of the queue: a session's next key, bulk deletion, restart.  What
\* becomes of a mail is left to EmailJobs: no scan asks for its status.
Queue ==
    /\ \/ \E w \in Writers, k \in Keys : Enqueue(w, k)
       \/ \E v \in Pods : Restart(v)
       \/ Delete(Status)
    /\ UNCHANGED rvars

Next ==
    \/ \E k \in Monitors : MonitorRun(k) \/ MonitorSave(k) \/ MonitorInsert(k) \/ MonitorFault(k)
    \/ \E w \in Writers : WriterCommit(w) \/ Ask(w)
    \/ \E w \in Waves : Reschedule(w)
    \/ Configure
    \/ \E s \in Milestones : Settle(s)
    \/ Tick
    \/ \E v \in Pods : CrashAll(v)
    \/ Queue

Spec == Init /\ [][Next]_vars

-----------------------------------------------------------------------------
(* Properties.                                                              *)

\* A milestone is not reminded of again before frequency_days have passed,
\* whichever of the monitor, a restarted monitor and the administrators asks,
\* unless two of them insert the same key at once or rows are deleted.
CooldownKept ==
    \A m, n \in Mails :
        /\ m # n /\ There(m) /\ There(n)
        /\ mail[m].key[1] = "milestone" /\ mail[n].key[1] = "milestone"
        /\ mail[m].key[2] = mail[n].key[2]
        /\ mail[m].key \notin crossed
        => \/ born[m] - born[n] >= Frequency * DaySlots
           \/ born[n] - born[m] >= Frequency * DaySlots

\* docs/architecture.md:135: the monitor "scans waves for upcoming cutover dates
\* and enqueues reminder emails once per day".  So no day passes, with the worker
\* running when it ends, without a mail for each cutover that is one of the
\* reminder days ahead, also when the worker died half-way through its pass.
NoReminderMissed ==
    [][/\ clock' > clock /\ (clock + 1) % DaySlots = 0
       /\ Desk["cutover"] \in up
       /\ spent["edit"] = 0 /\ spent["fault"] = 0
       => \A k \in ExactCutovers : \E m \in Mails : mail[m].key = k]_vars
=============================================================================
