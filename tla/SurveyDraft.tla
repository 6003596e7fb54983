---------------------------- MODULE SurveyDraft ----------------------------
(***************************************************************************)
(* The application survey of one project, filled in by one user on several *)
(* devices (SurveyModal.tsx), its draft, kept in the browser's storage and *)
(* on the server (use-survey-draft.ts, project_service.py), the files that *)
(* are uploaded with an answer and the clean-up that removes the files     *)
(* nobody saved (attachment_service.py).                                   *)
(*                                                                         *)
(* The survey has one question, an answer with files.  An answer is the    *)
(* number of the edit that gave it, 0 for none.  A draft is dated by the   *)
(* clock of the device or of the server; the clocks agree.  Of the dates   *)
(* only the comparison reload makes is kept: fresher[d] says whether the   *)
(* server's draft is at least as recent as the one in the storage of d.    *)
(* Of the position in the survey only the welcome slide is told apart.     *)
(***************************************************************************)
EXTENDS Naturals, FiniteSets

CONSTANTS
    Devices,    \* browsers the user has the project open in
    Files,      \* attachments that may be uploaded
    Limit,      \* bounds: edits, saves in flight per device, faults, ageings, visits
    Nothing     \* no draft

Answers == 0 .. Limit.edits
Content == [ans : Answers, att : SUBSET Files]
Payload == [ans : Answers, att : SUBSET Files, rem : SUBSET Files]

ASSUME SurveyAssumption == Limit.edits \in Nat \ {0} /\ Nothing \notin Payload

Blank == [ans |-> 0, att |-> {}]
AnswersOf(S) == {p.ans : p \in S \ {Nothing}}

VARIABLES
    \* the backend
    draft,      \* the survey_drafts row of the user and the project
    fresher,    \* [Devices -> see above]
    section,    \* the answer stored in the project
    row,        \* [Files -> the state of the project_attachments row]
    disk,       \* files on disk
    sweep,      \* rows the clean-up has selected and not yet removed
    \* the devices
    local,      \* [Devices -> the draft in the browser's storage]
    page,       \* [Devices -> the section as the page shows it]
    form,       \* [Devices -> the survey as it is filled in]
    loaded,     \* [Devices -> draftPayload]
    asking,     \* [Devices -> a GET of the draft is in flight]
    pending,    \* [Devices -> pendingPayload, with the debounce timer running]
    saved,      \* [Devices -> lastSavedPayload]
    puts,       \* [Devices -> PUTs of the draft in flight]
    job,        \* [Devices -> handleSubmit at work]
    \* for the properties and the bounds
    typed,      \* edits so far; the last answer is typed
    opened,     \* devices on which the survey has been opened
    mishaps,    \* what has gone wrong that may lose an answer
    raced,      \* files saved while they were selected by the clean-up
    used        \* counters against Limit

drafts == <<draft, fresher>>
files == <<row, disk, sweep, raced>>
view == <<form, loaded, asking>>
saving == <<local, pending, saved, puts>>
given == <<typed, opened>>
vars == <<draft, fresher, section, row, disk, sweep, local, page, form, loaded,
          asking, pending, saved, puts, job, typed, opened, mishaps, raced, used>>

RowStates == {"absent", "pending", "old", "confirmed", "deleted", "gone"}
Steps == {"idle", "save", "delete", "mark", "clear", "refresh"}
\* refused: a section could not be saved; late: a draft was stored after a newer
\* one had been written on the device; reopened: the survey was opened while an
\* answer waited to be saved, or on an older draft; unread: the draft could not
\* be read; overlaid: a draft replaced newer typing; during: an answer was given
\* while the survey was submitted; outlived: a draft was left after the
\* submission; elsewhere: of two devices one was opened on an old page, took an
\* older draft, submitted an older answer, or submitted while the other showed one.
Mishaps == {"refused", "late", "reopened", "unread", "overlaid", "during", "outlived", "elsewhere"}

Form == [open : BOOLEAN, ready : BOOLEAN, begun : BOOLEAN, done : BOOLEAN, is : Payload]
Submission == [at : Steps, of : Payload, rest : SUBSET Files]

TypeOK ==
    /\ draft \in Payload \cup {Nothing}
    /\ fresher \in [Devices -> BOOLEAN]
    /\ section \in Content
    /\ row \in [Files -> RowStates]
    /\ disk \subseteq Files
    /\ sweep \subseteq Files
    /\ local \in [Devices -> Payload \cup {Nothing}]
    /\ page \in [Devices -> Content]
    /\ form \in [Devices -> Form]
    /\ loaded \in [Devices -> Payload \cup {Nothing}]
    /\ asking \in [Devices -> BOOLEAN]
    /\ pending \in [Devices -> Payload \cup {Nothing}]
    /\ saved \in [Devices -> Payload \cup {Nothing}]
    /\ puts \in [Devices -> SUBSET Payload]
    /\ job \in [Devices -> Submission] /\ \A d \in Devices : job[d].rest \subseteq job[d].of.rem
    /\ typed \in Answers
    /\ opened \subseteq Devices
    /\ mishaps \subseteq Mishaps
    /\ raced \subseteq Files

Empty == [ans |-> 0, att |-> {}, rem |-> {}]
Unopened == [open |-> FALSE, ready |-> FALSE, begun |-> FALSE, done |-> FALSE, is |-> Empty]
NoJob == [at |-> "idle", of |-> Empty, rest |-> {}]

\* A draft of an earlier day may be there, on the server and the device.
Init ==
    /\ typed \in {0, 1}
    /\ draft = IF typed = 0 THEN Nothing ELSE [Empty EXCEPT !.ans = 1]
    /\ fresher = [d \in Devices |-> TRUE]
    /\ section = Blank
    /\ row = [f \in Files |-> "absent"]
    /\ disk = {} /\ sweep = {} /\ raced = {}
    /\ local \in [Devices -> {Nothing, draft}]
    /\ page = [d \in Devices |-> Blank]
    /\ form = [d \in Devices |-> Unopened]
    /\ loaded = [d \in Devices |-> Nothing]
    /\ asking = [d \in Devices |-> TRUE]
    /\ pending = [d \in Devices |-> Nothing]
    /\ saved = [d \in Devices |-> Nothing]
    /\ puts = [d \in Devices |-> {}]
    /\ job = [d \in Devices |-> NoJob]
    /\ opened = {} /\ mishaps = {}
    /\ used = [faults |-> 0, ageings |-> 0, visits |-> 0]

Spend(what) == used[what] < Limit[what] /\ used' = [used EXCEPT ![what] = @ + 1]
Blame(what, when) == mishaps' = IF when THEN mishaps \cup {what} ELSE mishaps
\* What goes wrong on d because the survey has been opened on another device.
Elsewhere(d, when) == IF when /\ opened \ {d} # {} THEN {"elsewhere"} ELSE {}

---------------------------------------------------------------------------
(* The survey and its draft on the device *)

\* writeLocalDraft: the stored draft is dated now.
WriteLocal(d, p) ==
    /\ local' = [local EXCEPT ![d] = p]
    /\ fresher' = [fresher EXCEPT ![d] = FALSE]

\* persist
Persist(d, p) ==
    IF p = saved[d]
    THEN UNCHANGED <<local, fresher, saved, puts>>
    ELSE /\ Cardinality(puts[d]) < Limit.puts
         /\ WriteLocal(d, p)
         /\ saved' = [saved EXCEPT ![d] = p]
         /\ puts' = [puts EXCEPT ![d] = @ \cup {p}]

\* The form changes to f; the auto-save effect starts the timer again.
Change(d, f) ==
    /\ form' = [form EXCEPT ![d] = f]
    /\ pending' = [pending EXCEPT ![d] = IF f.open /\ f.begun /\ ~f.done THEN f.is ELSE @]

\* The restore effect: answers of the draft over those of the form.  Empty
\* lists and missing answers of the draft restore nothing.
Restore(is, p) ==
    [ans |-> IF p.ans # 0 THEN p.ans ELSE is.ans,
     att |-> IF p.att # {} THEN p.att ELSE is.att,
     rem |-> IF p.rem # {} THEN p.rem ELSE is.rem]

\* Opening the survey.  The draft is asked for again; the form starts from the
\* page and shows the draft loaded before, if any.  The auto-save effect of the
\* same render still sees the form of the last visit, and starts its timer.
Open(d) ==
    LET before  == form[d]
        prefill == [ans |-> page[d].ans, att |-> page[d].att, rem |-> before.is.rem]
        old     == loaded[d]
        now     == [open  |-> TRUE,
                    ready |-> old # Nothing \/ ~asking[d],
                    begun |-> old # Nothing,
                    done  |-> FALSE,
                    is    |-> IF old = Nothing THEN prefill ELSE Restore(prefill, old)]
    IN  /\ ~before.open
        /\ Spend("visits")
        /\ form' = [form EXCEPT ![d] = now]
        /\ pending' = [pending EXCEPT ![d] =
                          IF now.begun THEN now.is
                          ELSE IF before.begun /\ ~before.done THEN before.is ELSE @]
        /\ loaded' = [loaded EXCEPT ![d] = Nothing]
        /\ asking' = [asking EXCEPT ![d] = TRUE]
        /\ mishaps' = mishaps
              \cup (IF \/ pending[d] # Nothing \/ job[d] # NoJob
                       \/ old # Nothing /\ now.is.ans # typed
                   THEN {"reopened"} ELSE {})
              \cup Elsewhere(d, page[d] # section)
        /\ opened' = opened \cup {d}
        /\ UNCHANGED <<drafts, section, files, local, page, saved, puts, job, typed>>

\* Mutant: the server's draft wins, whatever its date.
ChosenServerFirst(d) == IF draft = Nothing THEN local[d] ELSE draft

\* What reload chooses of the draft the server has sent and the local one.
Chosen(d) ==
    IF draft = Nothing \/ (local[d] # Nothing /\ ~fresher[d]) THEN local[d] ELSE draft

\* The rest of reload with the draft p, and the effects that show it.
Show(d, p) ==
    LET f == form[d]
        g == [f EXCEPT !.ready = @ \/ f.open,
                       !.begun = @ \/ (f.open /\ p # Nothing),
                       !.is = IF f.open /\ p # Nothing THEN Restore(@, p) ELSE @]
    IN  /\ asking[d]
        /\ asking' = [asking EXCEPT ![d] = FALSE]
        /\ loaded' = [loaded EXCEPT ![d] = p]
        /\ IF g.is # f.is \/ g.begun # f.begun
           THEN Change(d, g)
           ELSE form' = [form EXCEPT ![d] = g] /\ UNCHANGED pending
        /\ mishaps' = mishaps
              \cup (IF p # Chosen(d) THEN {"unread"} ELSE {})
              \cup (IF f.begun /\ f.is.ans # g.is.ans /\ f.is.ans = typed THEN {"overlaid"} ELSE {})
              \cup Elsewhere(d, /\ f.open /\ ~f.begun /\ g.is.ans # typed
                                /\ typed \in {f.is.ans} \cup AnswersOf({local[d]}))
        /\ UNCHANGED <<drafts, section, files, local, page, puts, job, given>>

Load(d) ==
    /\ Show(d, Chosen(d))
    /\ saved' = [saved EXCEPT ![d] = IF Chosen(d) = Nothing THEN @ ELSE Chosen(d)]
    /\ UNCHANGED used
LoadFails(d) ==
    /\ Show(d, local[d])
    /\ Spend("faults")
    /\ UNCHANGED saved

\* "Start Survey", once the draft is there.
Begin(d) ==
    /\ form[d].open /\ form[d].ready /\ ~form[d].begun /\ ~form[d].done
    /\ ~asking[d]
    /\ Change(d, [form[d] EXCEPT !.begun = TRUE])
    /\ UNCHANGED <<drafts, section, files, local, page, loaded, asking, saved, puts,
                   job, given, mishaps, used>>

Editable(d) == form[d].open /\ form[d].ready /\ form[d].begun /\ ~form[d].done

\* Inputs stay enabled while the survey is submitted.
Type(d) ==
    /\ Editable(d)
    /\ typed < Limit.edits
    /\ typed' = typed + 1
    /\ Change(d, [form[d] EXCEPT !.is.ans = typed + 1])
    /\ Blame("during", job[d] # NoJob)
    /\ UNCHANGED <<drafts, section, files, local, page, loaded, asking, saved, puts, job, opened, used>>

\* saveDraftImmediately, on Next, Back and Skip
Turn(d) ==
    /\ Editable(d)
    /\ Persist(d, form[d].is)
    /\ pending' = [pending EXCEPT ![d] = Nothing]
    /\ UNCHANGED <<draft, section, files, page, view, job, given, mishaps, used>>

TimerFires(d) ==
    /\ pending[d] # Nothing
    /\ Persist(d, pending[d])
    /\ pending' = [pending EXCEPT ![d] = Nothing]
    /\ UNCHANGED <<draft, section, files, page, view, job, given, mishaps, used>>

\* handleVisibilityChange.  Its request carries no token: it may be refused.
Hide(d) ==
    /\ pending[d] # Nothing /\ pending[d] # saved[d]
    /\ WriteLocal(d, pending[d])
    /\ \/ puts' = [puts EXCEPT ![d] = @ \cup {pending[d]}] /\ Cardinality(puts[d]) < Limit.puts
       \/ UNCHANGED puts
    /\ UNCHANGED <<draft, section, files, page, view, pending, saved, job, given, mishaps, used>>

Close(d) ==
    /\ form[d].open
    /\ form' = [form EXCEPT ![d].open = FALSE, ![d].ready = FALSE]
    /\ UNCHANGED <<drafts, section, files, saving, page, loaded, asking, job, given, mishaps, used>>

---------------------------------------------------------------------------
(* Drafts on the server *)

\* save_survey_draft: an equal payload leaves updated_at alone.
Put(d, p) ==
    /\ p \in puts[d]
    /\ puts' = [puts EXCEPT ![d] = @ \ {p}]
    /\ draft' = p
    /\ fresher' = IF p = draft THEN fresher ELSE [e \in Devices |-> TRUE]
    /\ Blame("late", p # local[d])
    /\ UNCHANGED <<section, files, local, page, view, pending, saved, job, given, used>>

PutLost(d, p) ==
    /\ p \in puts[d]
    /\ Spend("faults")
    /\ puts' = [puts EXCEPT ![d] = @ \ {p}]
    /\ UNCHANGED <<drafts, section, files, local, page, view, pending, saved, job, given, mishaps>>

---------------------------------------------------------------------------
(* Files *)

\* upload_attachment, and the answer that names the file.
Upload(d, f) ==
    /\ Editable(d) /\ row[f] = "absent"
    /\ row' = [row EXCEPT ![f] = "pending"]
    /\ disk' = disk \cup {f}
    /\ Change(d, [form[d] EXCEPT !.is.att = @ \cup {f}])
    /\ UNCHANGED <<drafts, section, sweep, raced, local, page, loaded, asking, saved,
                   puts, job, given, mishaps, used>>

\* handleDelete of SurveyFileUpload: removed when the survey is submitted.
Remove(d, f) ==
    /\ Editable(d) /\ f \in form[d].is.att
    /\ Change(d, [form[d] EXCEPT !.is.att = @ \ {f}, !.is.rem = @ \cup {f}])
    /\ UNCHANGED <<drafts, section, files, local, page, loaded, asking, saved, puts, job,
                   given, mishaps, used>>

\* The effect of SurveyFileUpload: files the server does not list are dropped.
Purge(d) ==
    LET dead == {f \in form[d].is.att : row[f] \in {"deleted", "gone"}}
    IN  /\ Editable(d) /\ dead # {}
        /\ Change(d, [form[d] EXCEPT !.is.att = @ \ dead])
        /\ UNCHANGED <<drafts, section, files, local, page, loaded, asking, saved, puts,
                       job, given, mishaps, used>>

\* Mutant: files of a saved answer are not confirmed.
ConfirmNothing(S) == row

\* confirm_attachments
Confirm(S) == [f \in Files |-> IF f \in S /\ row[f] \in {"pending", "old"}
                               THEN "confirmed" ELSE row[f]]

\* 24 hours pass for a file that was uploaded, and nobody saved it.
Age(f) ==
    /\ row[f] = "pending" /\ Spend("ageings")
    /\ row' = [row EXCEPT ![f] = "old"]
    /\ UNCHANGED <<drafts, section, disk, sweep, raced, page, view, saving, job, given, mishaps>>

\* cleanup_orphaned_attachments: the selection, and later the removal of the
\* files, one by one, and of the rows.
Select ==
    /\ sweep = {}
    /\ sweep' = {f \in Files : row[f] \in {"old", "deleted"}}
    /\ sweep' # {}
    /\ UNCHANGED <<drafts, section, row, disk, raced, page, view, saving, job, given, mishaps, used>>
Sweep ==
    /\ sweep # {}
    /\ row' = [f \in Files |-> IF f \in sweep THEN "gone" ELSE row[f]]
    /\ disk' = disk \ sweep
    /\ sweep' = {}
    /\ UNCHANGED <<drafts, section, raced, page, view, saving, job, given, mishaps, used>>
\* The process dies before the removal of the rows is committed.
SweepDies ==
    /\ sweep # {} /\ Spend("faults")
    /\ \E S \in SUBSET sweep : disk' = disk \ S
    /\ sweep' = {}
    /\ UNCHANGED <<drafts, section, row, raced, page, view, saving, job, given, mishaps>>

---------------------------------------------------------------------------
(* Submitting *)

Step(d, at) == job' = [job EXCEPT ![d].at = at]
AfterSave(d) == IF job[d].rest = {} THEN "mark" ELSE "delete"

\* handleSubmit starts with the answers shown.
Submit(d) ==
    /\ Editable(d) /\ job[d] = NoJob
    /\ job' = [job EXCEPT ![d] = [at |-> "save", of |-> form[d].is, rest |-> form[d].is.rem]]
    /\ UNCHANGED <<drafts, section, files, page, view, saving, given, mishaps, used>>

\* Mutant: the whole draft is sent as the section.
MergedWhole(d) == job[d].of

\* The section as handleSubmit builds it: no answer and an empty list leave
\* what the page shows.
Merged(d) ==
    [ans |-> IF job[d].of.ans # 0 THEN job[d].of.ans ELSE page[d].ans,
     att |-> IF job[d].of.att # {} THEN job[d].of.att ELSE page[d].att]

\* onSave: update_section, and the page that shows its answer.
SaveSection(d) ==
    /\ job[d].at = "save"
    /\ IF job[d].of.ans = 0 /\ job[d].of.att = {}
       THEN UNCHANGED <<section, row, raced, page, mishaps>>
       ELSE /\ section' = Merged(d)
            /\ row' = Confirm(Merged(d).att)
            /\ raced' = raced \cup (Merged(d).att \cap sweep)
            /\ page' = [page EXCEPT ![d] = Merged(d)]
            /\ mishaps' = mishaps \cup Elsewhere(d, \/ \E e \in Devices \ {d} : form[e].open /\ form[e].is.ans # typed
                                                   \/ job[d].of.ans # typed)
    /\ Step(d, AfterSave(d))
    /\ UNCHANGED <<drafts, disk, sweep, view, saving, given, used>>

\* onSave is handleSave of the page, which reports the failure and returns.
SaveFails(d) ==
    /\ job[d].at = "save" /\ Spend("faults")
    /\ Step(d, AfterSave(d))
    /\ Blame("refused", TRUE)
    /\ UNCHANGED <<drafts, section, files, page, view, saving, given>>

\* deleteAttachment of each removed file; a failure is ignored.
DeleteFile(d) ==
    /\ job[d].at = "delete"
    /\ \E f \in job[d].rest :
          /\ job' = [job EXCEPT ![d].rest = @ \ {f}, ![d].at = IF job[d].rest = {f} THEN "mark" ELSE @]
          /\ \/ /\ row' = [row EXCEPT ![f] = IF @ = "gone" THEN @ ELSE "deleted"]
                /\ UNCHANGED used
             \/ Spend("faults") /\ UNCHANGED row
    /\ UNCHANGED <<drafts, section, disk, sweep, raced, page, view, saving, given, mishaps>>
\* submitSurvey, and the first part of clearDraft.
Mark(d) ==
    /\ job[d].at = "mark"
    /\ Step(d, "clear")
    /\ pending' = [pending EXCEPT ![d] = Nothing]
    /\ saved' = [saved EXCEPT ![d] = Nothing]
    /\ loaded' = [loaded EXCEPT ![d] = Nothing]
    /\ local' = [local EXCEPT ![d] = Nothing]
    /\ UNCHANGED <<drafts, section, files, page, form, asking, puts, given, mishaps, used>>
MarkFails(d) ==
    /\ job[d].at = "mark" /\ Spend("faults")
    /\ job' = [job EXCEPT ![d] = NoJob]
    /\ UNCHANGED <<drafts, section, files, page, view, saving, given, mishaps>>

\* delete_survey_draft; a failure is ignored.
DeleteDraft(d) ==
    /\ job[d].at = "clear"
    /\ Step(d, "refresh")
    /\ \/ draft' = Nothing /\ UNCHANGED <<mishaps, used>>
       \/ Spend("faults") /\ Blame("outlived", draft # Nothing) /\ UNCHANGED draft
    /\ UNCHANGED <<fresher, section, files, page, view, saving, given>>

\* refreshProject, and the completion screen.
Refresh(d) ==
    /\ job[d].at = "refresh"
    /\ job' = [job EXCEPT ![d] = NoJob]
    /\ \/ /\ page' = [page EXCEPT ![d] = section]
          /\ form' = [form EXCEPT ![d].done = TRUE]
          /\ UNCHANGED used
       \/ Spend("faults") /\ UNCHANGED <<page, form>>
    /\ UNCHANGED <<drafts, section, files, loaded, asking, saving, given, mishaps>>

---------------------------------------------------------------------------
Fill(d) == Open(d) \/ Begin(d) \/ Type(d) \/ Turn(d) \/ Close(d) \/ Submit(d)
Keep(d) ==
    \/ Load(d) \/ LoadFails(d) \/ TimerFires(d) \/ Hide(d)
    \/ \E p \in puts[d] : Put(d, p) \/ PutLost(d, p)
Attach(d) == Purge(d) \/ \E f \in Files : Upload(d, f) \/ Remove(d, f)
Hand(d) ==
    \/ SaveSection(d) \/ SaveFails(d) \/ DeleteFile(d)
    \/ Mark(d) \/ MarkFails(d) \/ DeleteDraft(d) \/ Refresh(d)
CleanUp == Select \/ Sweep \/ SweepDies \/ \E f \in Files : Age(f)

Next == CleanUp \/ \E d \in Devices : Fill(d) \/ Keep(d) \/ Attach(d) \/ Hand(d)
Spec == Init /\ [][Next]_vars

---------------------------------------------------------------------------
(* Properties *)

\* Where the answers of device d are: a form that can be submitted, a draft
\* about to be saved, a save, a stored draft, a submission.
HeldBy(d) ==
    AnswersOf({pending[d], local[d], job[d].of} \cup puts[d])
        \cup {form[e].is.ans : e \in {e \in {d} : form[e].open /\ ~form[e].done}}

\* The answer the user gave last is in the project, in a draft or on its way,
\* and a survey that has loaded its draft shows it (or another device still
\* has it): neither overlapping saves, a lost request, closing and reopening,
\* nor submitting loses it, unless one of the mishaps that the code lets
\* happen has happened: a section save that failed, a draft save that arrived
\* late, a survey reopened before its draft was saved or on an older draft, a
\* draft that could not be read or that was restored over newer typing, typing
\* during the submission, a draft that outlived it, and a second device that
\* was opened or submitted without having seen the answer.
AnswerKept ==
    mishaps = {} =>
        /\ typed \in {section.ans} \cup AnswersOf({draft}) \cup UNION {HeldBy(d) : d \in Devices}
        /\ \A d \in Devices :
              Editable(d) /\ ~asking[d] =>
                  form[d].is.ans = typed \/ \E e \in Devices \ {d} : typed \in HeldBy(e)

\* A file that the stored answer names stays until a submission that removes it:
\* the clean-up takes no saved file, except one that was saved between its
\* selection and its removal.
Alive(f) == row[f] \in {"pending", "old", "confirmed"} /\ f \in disk
FilesStay ==
    [][\A f \in section.att \cap section'.att :
          Alive(f) /\ ~Alive(f)' => f \in raced \/ \E d \in Devices : f \in job[d].of.rem]_vars
=============================================================================
