---------------------------- MODULE MCReminders ----------------------------
(* Instances of Reminders for TLC: one wave of one project, one milestone,  *)
(* three days of two slots, the monitors on the worker, one administrator.  *)
EXTENDS Reminders, TLC

CONSTANTS wave, proj, ms, api, worker, desk

ApiAndWorker == {api, worker}
AllKeys   == ReminderKeys
Sessions  == Monitors \cup {desk}
Desks     == [w \in Writers |-> IF w = desk THEN api ELSE worker]
InWorker  == [s \in Slots |-> worker]
OneWave   == [w \in Waves |-> {proj}]
DayTwo    == [x \in Waves |-> 2]
MsDayTwo  == [x \in Milestones |-> 2]
TwoDays   == {1, 2}

Once  == [e \in Events |-> IF e \in {"retry", "blind"} THEN 0 ELSE 1]
=============================================================================
