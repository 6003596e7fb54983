------------------------- MODULE SurveyDraft_proofs -------------------------
(* Theorems about the survey, for every set of devices and files and every    *)
(* bound on edits, saves, faults and visits.                                  *)
EXTENDS SurveyDraft, TLAPS

-----------------------------------------------------------------------------
(* Types.                                                                    *)

\* A draft that is restored, and what is restored with it.
LEMMA RestoreType ==
    ASSUME NEW is \in Payload, NEW p \in Payload
    PROVE  /\ Restore(is, p) \in Payload
           /\ Restore(is, p).ans = IF p.ans # 0 THEN p.ans ELSE is.ans
           /\ Restore(is, p).att \in {is.att, p.att}
BY DEF Restore, Payload

LEMMA BlankTypes ==
    /\ Empty \in Payload /\ Empty # Nothing /\ Empty.ans = 0 /\ Empty.att = {} /\ Empty.rem = {}
    /\ [Empty EXCEPT !.ans = 1] \in Payload /\ [Empty EXCEPT !.ans = 1].ans = 1
    /\ [Empty EXCEPT !.ans = 1].att = {}
    /\ Unopened \in Form /\ NoJob \in Submission /\ Blank \in Content
    /\ 0 \in Answers /\ 1 \in Answers /\ Answers \subseteq Nat
<1>1. 0 \in Answers /\ 1 \in Answers /\ Answers \subseteq Nat
  BY SurveyAssumption DEF Answers
<1>2. /\ Empty \in Payload /\ Empty # Nothing /\ Empty.ans = 0 /\ Empty.att = {} /\ Empty.rem = {}
      /\ [Empty EXCEPT !.ans = 1] \in Payload /\ [Empty EXCEPT !.ans = 1].ans = 1
      /\ [Empty EXCEPT !.ans = 1].att = {}
  BY <1>1, SurveyAssumption DEF Empty, Payload
<1>3. Unopened \in Form /\ NoJob \in Submission /\ Blank \in Content
  BY <1>1, <1>2 DEF Unopened, Form, NoJob, Submission, Steps, Blank, Content
<1>4. QED
  BY <1>1, <1>2, <1>3

LEMMA TypeInit == Init => TypeOK
<1> SUFFICES ASSUME Init PROVE TypeOK
  OBVIOUS
<1> USE BlankTypes
<1>1. draft \in Payload \cup {Nothing} /\ typed \in Answers
  BY DEF Init
<1>2. local \in [Devices -> Payload \cup {Nothing}]
  BY <1>1 DEF Init
<1>3. /\ fresher \in [Devices -> BOOLEAN] /\ asking \in [Devices -> BOOLEAN]
      /\ page \in [Devices -> Content] /\ form \in [Devices -> Form]
      /\ loaded \in [Devices -> Payload \cup {Nothing}] /\ pending \in [Devices -> Payload \cup {Nothing}]
      /\ saved \in [Devices -> Payload \cup {Nothing}] /\ puts \in [Devices -> SUBSET Payload]
      /\ job \in [Devices -> Submission] /\ row \in [Files -> RowStates]
  BY DEF Init, RowStates
<1>4. section \in Content /\ \A d \in Devices : job[d].rest \subseteq job[d].of.rem
  BY DEF Init, NoJob
<1>5. QED
  BY <1>1, <1>2, <1>3, <1>4 DEF TypeOK, Init

\* Fields of a form and of an answer are set one by one.
LEMMA PayloadTypes ==
    ASSUME NEW is \in Payload, NEW x \in Answers, NEW S \in SUBSET Files, NEW R \in SUBSET Files
    PROVE  /\ [is EXCEPT !.ans = x] \in Payload /\ [is EXCEPT !.att = S] \in Payload
           /\ [is EXCEPT !.att = S, !.rem = R] \in Payload
           /\ is.att \in SUBSET Files /\ is.rem \in SUBSET Files /\ is.ans \in Answers
BY DEF Payload

LEMMA FormTypes ==
    ASSUME NEW f \in Form, NEW is \in Payload
    PROVE  /\ [f EXCEPT !.is = is] \in Form /\ [f EXCEPT !.begun = TRUE] \in Form
           /\ [f EXCEPT !.open = FALSE, !.ready = FALSE] \in Form /\ [f EXCEPT !.done = TRUE] \in Form
           /\ f.is \in Payload
BY DEF Form

\* The parts of the state a change of the form, a stored draft and the sum of
\* mishaps touch.
LEMMA ChangeType ==
    ASSUME TypeOK, NEW d \in Devices, NEW f \in Form, Change(d, f)
    PROVE  form' \in [Devices -> Form] /\ pending' \in [Devices -> Payload \cup {Nothing}]
BY DEF TypeOK, Change, Form

LEMMA PersistType ==
    ASSUME TypeOK, NEW d \in Devices, NEW p \in Payload, Persist(d, p)
    PROVE  /\ local' \in [Devices -> Payload \cup {Nothing}]
           /\ fresher' \in [Devices -> BOOLEAN]
           /\ saved' \in [Devices -> Payload \cup {Nothing}]
           /\ puts' \in [Devices -> SUBSET Payload]
<1>1. CASE p = saved[d]
  BY <1>1 DEF TypeOK, Persist
<1>2. CASE p # saved[d]
  <2>1. /\ local' = [local EXCEPT ![d] = p] /\ fresher' = [fresher EXCEPT ![d] = FALSE]
        /\ saved' = [saved EXCEPT ![d] = p] /\ puts' = [puts EXCEPT ![d] = @ \cup {p}]
    BY <1>2 DEF Persist, WriteLocal
  <2>2. /\ local' \in [Devices -> Payload \cup {Nothing}]
        /\ fresher' \in [Devices -> BOOLEAN]
        /\ saved' \in [Devices -> Payload \cup {Nothing}]
    BY <2>1 DEF TypeOK
  <2>3. puts' \in [Devices -> SUBSET Payload]
    BY <2>1 DEF TypeOK
  <2>4. QED
    BY <2>2, <2>3
<1>3. QED
  BY <1>1, <1>2

LEMMA ChosenType ==
    ASSUME TypeOK, NEW d \in Devices
    PROVE  Chosen(d) \in Payload \cup {Nothing}
BY DEF TypeOK, Chosen

LEMMA MergedType ==
    ASSUME TypeOK, NEW d \in Devices
    PROVE  Merged(d) \in Content
BY DEF TypeOK, Merged, Content, Submission, Payload

LEMMA ConfirmType ==
    ASSUME TypeOK, NEW S
    PROVE  Confirm(S) \in [Files -> RowStates]
BY DEF TypeOK, Confirm, RowStates

-----------------------------------------------------------------------------
(* Every action keeps the types.                                             *)

LEMMA CleanUpTypes == TypeOK /\ CleanUp => TypeOK'
<1> SUFFICES ASSUME TypeOK, CleanUp PROVE TypeOK'
  OBVIOUS
<1> USE DEF TypeOK, drafts, view, saving, given
<1>1. CASE Select
  BY <1>1 DEF Select
<1>2. CASE Sweep
  BY <1>2 DEF Sweep, RowStates
<1>3. CASE SweepDies
  BY <1>3 DEF SweepDies
<1>4. ASSUME NEW f \in Files, Age(f) PROVE TypeOK'
  BY <1>4 DEF Age, RowStates
<1>5. QED
  BY <1>1, <1>2, <1>3, <1>4 DEF CleanUp

LEMMA OpenType ==
    ASSUME TypeOK, NEW d \in Devices, Open(d)
    PROVE  TypeOK'
<1> DEFINE before  == form[d]
           prefill == [ans |-> page[d].ans, att |-> page[d].att, rem |-> before.is.rem]
           old     == loaded[d]
           now     == [open  |-> TRUE,
                       ready |-> old # Nothing \/ ~asking[d],
                       begun |-> old # Nothing,
                       done  |-> FALSE,
                       is    |-> IF old = Nothing THEN prefill ELSE Restore(prefill, old)]
<1>1. before \in Form /\ before.is \in Payload /\ old \in Payload \cup {Nothing} /\ page[d] \in Content
  BY DEF TypeOK, Form
<1>2. prefill \in Payload
  BY <1>1 DEF Payload, Content
<1>3. now.is \in Payload /\ now \in Form
  <2> HIDE DEF prefill, before
  <2>1. (IF old = Nothing THEN prefill ELSE Restore(prefill, old)) \in Payload
    BY <1>1, <1>2, RestoreType
  <2>2. QED
    BY <2>1 DEF Form
<1>4. /\ form' = [form EXCEPT ![d] = now]
      /\ pending' = [pending EXCEPT ![d] =
                        IF now.begun THEN now.is
                        ELSE IF before.begun /\ ~before.done THEN before.is ELSE @]
      /\ loaded' = [loaded EXCEPT ![d] = Nothing] /\ asking' = [asking EXCEPT ![d] = TRUE]
      /\ opened' = opened \cup {d} /\ mishaps' \subseteq mishaps \cup Mishaps
      /\ UNCHANGED <<drafts, section, files, local, page, saved, puts, job, typed>>
  BY DEF Open, Elsewhere, Mishaps
<1> HIDE DEF now, old, before
<1>5. form' \in [Devices -> Form] /\ pending' \in [Devices -> Payload \cup {Nothing}]
  BY <1>1, <1>3, <1>4 DEF TypeOK
<1>6. loaded' \in [Devices -> Payload \cup {Nothing}] /\ asking' \in [Devices -> BOOLEAN]
  BY <1>4 DEF TypeOK
<1>7. QED
  BY <1>4, <1>5, <1>6 DEF TypeOK, drafts, files

LEMMA ShowType ==
    ASSUME TypeOK, NEW d \in Devices, NEW p \in Payload \cup {Nothing}, Show(d, p)
    PROVE  /\ form' \in [Devices -> Form] /\ pending' \in [Devices -> Payload \cup {Nothing}]
           /\ loaded' \in [Devices -> Payload \cup {Nothing}] /\ asking' \in [Devices -> BOOLEAN]
           /\ mishaps' \subseteq Mishaps
           /\ UNCHANGED <<draft, fresher, section, row, disk, sweep, raced, local, page, puts, job, typed, opened>>
<1> DEFINE f == form[d]
           is == IF f.open /\ p # Nothing THEN Restore(f.is, p) ELSE f.is
           g == [f EXCEPT !.ready = @ \/ f.open, !.begun = @ \/ (f.open /\ p # Nothing), !.is = is]
<1>1. f \in Form /\ f.is \in Payload
  BY DEF TypeOK, Form
<1>2. is \in Payload
  BY <1>1, RestoreType
<1>3. g \in Form
  <2> HIDE DEF is
  <2> QED
    BY <1>1, <1>2 DEF Form
<1>4. /\ asking' = [asking EXCEPT ![d] = FALSE] /\ loaded' = [loaded EXCEPT ![d] = p]
      /\ Change(d, g) \/ (form' = [form EXCEPT ![d] = g] /\ UNCHANGED pending)
      /\ mishaps' \subseteq mishaps \cup Mishaps
      /\ UNCHANGED <<draft, fresher, section, row, disk, sweep, raced, local, page, puts, job, typed, opened>>
  BY DEF Show, Elsewhere, Mishaps, drafts, files, given
<1> HIDE DEF g
<1>5. form' \in [Devices -> Form] /\ pending' \in [Devices -> Payload \cup {Nothing}]
  BY <1>3, <1>4, ChangeType DEF TypeOK
<1>6. QED
  BY <1>4, <1>5 DEF TypeOK

LEMMA FillTypes ==
    ASSUME TypeOK, NEW d \in Devices, Fill(d)
    PROVE  TypeOK'
<1>1. CASE Open(d)
  BY <1>1, OpenType
<1>2. CASE Begin(d)
  <2>0. form[d] \in Form /\ Empty \in Payload
    BY BlankTypes DEF TypeOK
  <2>1. [form[d] EXCEPT !.begun = TRUE] \in Form
    BY <2>0, FormTypes
  <2>2. QED
    BY <1>2, <2>1, ChangeType DEF Begin, TypeOK, drafts, files, given
<1>3. CASE Type(d)
  <2> form[d] \in Form /\ form[d].is \in Payload
    BY FormTypes, BlankTypes DEF TypeOK
  <2>0. typed + 1 \in Answers
    BY <1>3, SurveyAssumption DEF Type, TypeOK, Answers
  <2>1. [form[d] EXCEPT !.is.ans = typed + 1] \in Form
    <3>1. [form[d].is EXCEPT !.ans = typed + 1] \in Payload
      BY <2>0, PayloadTypes
    <3>2. QED
      BY <3>1, FormTypes
  <2>2. mishaps' \subseteq Mishaps /\ typed' \in Answers
    <3>1. typed' = typed + 1 /\ mishaps' \subseteq mishaps \cup {"during"}
      BY <1>3 DEF Type, Blame
    <3>2. QED
      BY <2>0, <3>1 DEF Mishaps, TypeOK
  <2>3. QED
    BY <1>3, <2>1, <2>2, ChangeType DEF Type, TypeOK, drafts, files
<1>4. CASE Turn(d)
  <2>1. form[d].is \in Payload
    BY DEF TypeOK, Form
  <2>2. Persist(d, form[d].is) /\ pending' \in [Devices -> Payload \cup {Nothing}]
    BY <1>4 DEF Turn, TypeOK
  <2>3. QED
    BY <1>4, <2>1, <2>2, PersistType DEF Turn, TypeOK, files, view, given
<1>5. CASE Close(d)
  <2>1. form' \in [Devices -> Form]
    <3>1. [form[d] EXCEPT !.open = FALSE, !.ready = FALSE] \in Form
      BY FormTypes, BlankTypes DEF TypeOK
    <3>2. form' = [form EXCEPT ![d] = [form[d] EXCEPT !.open = FALSE, !.ready = FALSE]]
      BY <1>5 DEF Close, TypeOK
    <3>3. QED
      BY <3>1, <3>2 DEF TypeOK
  <2>2. QED
    BY <1>5, <2>1 DEF Close, TypeOK, drafts, files, saving, given
<1>6. CASE Submit(d)
  <2>1. [at |-> "save", of |-> form[d].is, rest |-> form[d].is.rem] \in Submission
    BY DEF TypeOK, Form, Submission, Steps, Payload
  <2>2. job' \in [Devices -> Submission] /\ \A e \in Devices : job'[e].rest \subseteq job'[e].of.rem
    BY <1>6, <2>1 DEF Submit, TypeOK
  <2>3. QED
    BY <1>6, <2>2 DEF Submit, TypeOK, drafts, files, view, saving, given
<1>7. QED
  BY <1>1, <1>2, <1>3, <1>4, <1>5, <1>6 DEF Fill

LEMMA KeepTypes ==
    ASSUME TypeOK, NEW d \in Devices, Keep(d)
    PROVE  TypeOK'
<1>1. CASE Load(d)
  <2>1. Chosen(d) \in Payload \cup {Nothing} /\ Show(d, Chosen(d))
    BY <1>1, ChosenType DEF Load
  <2>2. saved' \in [Devices -> Payload \cup {Nothing}]
    BY <1>1, <2>1 DEF Load, TypeOK
  <2>3. QED
    BY <2>1, <2>2, ShowType DEF TypeOK
<1>2. CASE LoadFails(d)
  <2>1. local[d] \in Payload \cup {Nothing} /\ Show(d, local[d]) /\ saved' = saved
    BY <1>2 DEF LoadFails, TypeOK
  <2>2. QED
    BY <2>1, ShowType DEF TypeOK
<1>3. CASE TimerFires(d)
  <2>1. pending[d] \in Payload
    BY <1>3 DEF TimerFires, TypeOK
  <2>2. Persist(d, pending[d]) /\ pending' \in [Devices -> Payload \cup {Nothing}]
    BY <1>3 DEF TimerFires, TypeOK
  <2>3. QED
    BY <1>3, <2>1, <2>2, PersistType DEF TimerFires, TypeOK, files, view, given
<1>4. CASE Hide(d)
  <2>1. pending[d] \in Payload
    BY <1>4 DEF Hide, TypeOK
  <2>2. local' \in [Devices -> Payload \cup {Nothing}] /\ fresher' \in [Devices -> BOOLEAN]
    BY <1>4, <2>1 DEF Hide, WriteLocal, TypeOK
  <2>3. puts' \in [Devices -> SUBSET Payload]
    BY <1>4, <2>1 DEF Hide, TypeOK
  <2>4. QED
    BY <1>4, <2>2, <2>3 DEF Hide, TypeOK, files, view, given
<1>5. ASSUME NEW p \in puts[d], Put(d, p) PROVE TypeOK'
  <2>1. p \in Payload
    BY DEF TypeOK
  <2>2. puts' \in [Devices -> SUBSET Payload] /\ fresher' \in [Devices -> BOOLEAN]
    BY <1>5 DEF Put, TypeOK
  <2>3. mishaps' \subseteq Mishaps
    BY <1>5 DEF Put, Blame, TypeOK, Mishaps
  <2>4. QED
    BY <1>5, <2>1, <2>2, <2>3 DEF Put, TypeOK, files, view, given
<1>6. ASSUME NEW p \in puts[d], PutLost(d, p) PROVE TypeOK'
  <2>1. puts' \in [Devices -> SUBSET Payload]
    BY <1>6 DEF PutLost, TypeOK
  <2>2. QED
    BY <1>6, <2>1 DEF PutLost, TypeOK, drafts, files, view, given
<1>7. QED
  BY <1>1, <1>2, <1>3, <1>4, <1>5, <1>6 DEF Keep

LEMMA AttachTypes ==
    ASSUME TypeOK, NEW d \in Devices, Attach(d)
    PROVE  TypeOK'
<1> form[d] \in Form /\ form[d].is \in Payload
  BY FormTypes, BlankTypes DEF TypeOK
<1>1. ASSUME NEW f \in Files, Upload(d, f) PROVE TypeOK'
  <2>1. [form[d] EXCEPT !.is.att = @ \cup {f}] \in Form
    <3>1. [form[d].is EXCEPT !.att = form[d].is.att \cup {f}] \in Payload
      BY PayloadTypes, BlankTypes
    <3>2. QED
      BY <3>1, FormTypes
  <2>2. row' \in [Files -> RowStates] /\ disk' \subseteq Files
    BY <1>1 DEF Upload, TypeOK, RowStates
  <2>3. QED
    BY <1>1, <2>1, <2>2, ChangeType DEF Upload, TypeOK, drafts, given
<1>2. ASSUME NEW f \in Files, Remove(d, f) PROVE TypeOK'
  <2>1. [form[d] EXCEPT !.is.att = @ \ {f}, !.is.rem = @ \cup {f}] \in Form
    <3>1. [form[d].is EXCEPT !.att = form[d].is.att \ {f}, !.rem = form[d].is.rem \cup {f}] \in Payload
      BY PayloadTypes, BlankTypes
    <3>2. QED
      BY <3>1, FormTypes
  <2>2. QED
    BY <1>2, <2>1, ChangeType DEF Remove, TypeOK, drafts, files, given
<1>3. CASE Purge(d)
  <2> DEFINE dead == {f \in form[d].is.att : row[f] \in {"deleted", "gone"}}
  <2>1. [form[d] EXCEPT !.is.att = @ \ dead] \in Form
    <3> HIDE DEF dead
    <3>1. [form[d].is EXCEPT !.att = form[d].is.att \ dead] \in Payload
      BY PayloadTypes, BlankTypes
    <3>2. QED
      BY <3>1, FormTypes
  <2>2. QED
    BY <1>3, <2>1, ChangeType DEF Purge, TypeOK, drafts, files, given
<1>4. QED
  BY <1>1, <1>2, <1>3 DEF Attach

LEMMA HandTypes ==
    ASSUME TypeOK, NEW d \in Devices, Hand(d)
    PROVE  TypeOK'
<1> DEFINE JobOK == job' \in [Devices -> Submission] /\ \A e \in Devices : job'[e].rest \subseteq job'[e].of.rem
<1>0. ASSUME NEW at \in Steps, Step(d, at) PROVE JobOK
  BY <1>0 DEF Step, TypeOK, Submission
<1>1. CASE SaveSection(d)
  <2>1. JobOK
    BY <1>0, <1>1 DEF SaveSection, AfterSave, Steps
  <2>2. CASE job[d].of.ans = 0 /\ job[d].of.att = {}
    BY <1>1, <2>1, <2>2 DEF SaveSection, TypeOK, drafts, view, saving, given
  <2>3. CASE ~(job[d].of.ans = 0 /\ job[d].of.att = {})
    <3>1. section' \in Content /\ page' \in [Devices -> Content] /\ row' \in [Files -> RowStates]
      BY <1>1, <2>3, MergedType, ConfirmType DEF SaveSection, TypeOK
    <3>2. raced' \subseteq Files /\ mishaps' \subseteq Mishaps
      BY <1>1, <2>3 DEF SaveSection, Elsewhere, Mishaps, TypeOK
    <3>3. QED
      BY <1>1, <2>1, <3>1, <3>2 DEF SaveSection, TypeOK, drafts, view, saving, given
  <2>4. QED
    BY <2>2, <2>3
<1>2. CASE SaveFails(d)
  <2>1. JobOK
    BY <1>0, <1>2 DEF SaveFails, AfterSave, Steps
  <2>2. QED
    BY <1>2, <2>1 DEF SaveFails, Blame, Mishaps, TypeOK, drafts, files, view, saving, given
<1>3. CASE DeleteFile(d)
  <2> PICK f \in job[d].rest :
        /\ job' = [job EXCEPT ![d].rest = @ \ {f}, ![d].at = IF job[d].rest = {f} THEN "mark" ELSE @]
        /\ row' = [row EXCEPT ![f] = IF @ = "gone" THEN @ ELSE "deleted"] \/ UNCHANGED row
    BY <1>3 DEF DeleteFile
  <2>1. JobOK
    <3> DEFINE w == [job[d] EXCEPT !.rest = @ \ {f}, !.at = IF job[d].rest = {f} THEN "mark" ELSE @]
    <3>1. job[d] \in Submission /\ job[d].rest \subseteq job[d].of.rem
      BY DEF TypeOK
    <3>2. w \in Submission /\ w.rest \subseteq w.of.rem
      BY <3>1 DEF Submission, Steps
    <3>3. job' = [job EXCEPT ![d] = w]
      BY DEF TypeOK
    <3>4. QED
      <4> HIDE DEF w
      <4> QED
        BY <3>2, <3>3 DEF TypeOK
  <2>2. row' \in [Files -> RowStates]
    BY DEF TypeOK, RowStates
  <2>3. QED
    BY <1>3, <2>1, <2>2 DEF DeleteFile, TypeOK, drafts, view, saving, given
<1>4. CASE Mark(d)
  <2>1. JobOK
    BY <1>0, <1>4 DEF Mark, Steps
  <2>2. QED
    BY <1>4, <2>1 DEF Mark, TypeOK, drafts, files, given
<1>5. CASE MarkFails(d)
  <2>1. JobOK
    BY <1>5, BlankTypes DEF MarkFails, TypeOK, NoJob
  <2>2. QED
    BY <1>5, <2>1 DEF MarkFails, TypeOK, drafts, files, view, saving, given
<1>6. CASE DeleteDraft(d)
  <2>1. JobOK
    BY <1>0, <1>6 DEF DeleteDraft, Steps
  <2>2. draft' \in Payload \cup {Nothing} /\ mishaps' \subseteq Mishaps
    BY <1>6 DEF DeleteDraft, Blame, Mishaps, TypeOK
  <2>3. QED
    BY <1>6, <2>1, <2>2 DEF DeleteDraft, TypeOK, files, view, saving, given
<1>7. CASE Refresh(d)
  <2>1. JobOK
    BY <1>7, BlankTypes DEF Refresh, TypeOK, NoJob
  <2>2. page' \in [Devices -> Content] /\ form' \in [Devices -> Form]
    <3>1. [form[d] EXCEPT !.done = TRUE] \in Form
      BY FormTypes, BlankTypes DEF TypeOK
    <3>2. UNCHANGED form \/ form' = [form EXCEPT ![d] = [form[d] EXCEPT !.done = TRUE]]
      BY <1>7 DEF Refresh, TypeOK
    <3>3. page' \in [Devices -> Content]
      BY <1>7 DEF Refresh, TypeOK
    <3>4. QED
      BY <3>1, <3>2, <3>3 DEF TypeOK
  <2>3. QED
    BY <1>7, <2>1, <2>2 DEF Refresh, TypeOK, drafts, files, saving, given
<1>8. QED
  BY <1>1, <1>2, <1>3, <1>4, <1>5, <1>6, <1>7 DEF Hand

LEMMA TypeStep == TypeOK /\ [Next]_vars => TypeOK'
<1>1. TypeOK /\ Next => TypeOK'
  BY CleanUpTypes, FillTypes, KeepTypes, AttachTypes, HandTypes DEF Next
<1>2. TypeOK /\ UNCHANGED vars => TypeOK'
  BY DEF TypeOK, vars
<1>3. QED
  BY <1>1, <1>2

\* The rows, the drafts and what every device holds keep their type: all answers
\* are edits that were made, and a submission has only removed files left to delete.
THEOREM TypeCorrect == Spec => []TypeOK
BY TypeInit, TypeStep, PTL DEF Spec

-----------------------------------------------------------------------------
(* What the actions of a device do to it, and that they do nothing to others. *)

\* An action of d leaves the other devices as they are, and of what is stored
\* the clean-up leaves the answers.
LEMMA OthersKept ==
    ASSUME TypeOK, NEW d \in Devices, Fill(d) \/ Keep(d) \/ Attach(d) \/ Hand(d),
           NEW e \in Devices, e # d
    PROVE  /\ form'[e] = form[e] /\ job'[e] = job[e] /\ page'[e] = page[e] /\ puts'[e] = puts[e]
           /\ local'[e] = local[e] /\ loaded'[e] = loaded[e] /\ pending'[e] = pending[e]
           /\ saved'[e] = saved[e] /\ asking'[e] = asking[e]
<1> USE DEF TypeOK, drafts, files, view, saving
<1>1. CASE Fill(d)
  <2>1. CASE Open(d)
    BY <2>1 DEF Open
  <2>2. CASE Begin(d)
    BY <2>2 DEF Begin, Change
  <2>3. CASE Type(d)
    BY <2>3 DEF Type, Change
  <2>4. CASE Turn(d)
    BY <2>4 DEF Turn, Persist, WriteLocal
  <2>5. CASE Close(d)
    BY <2>5 DEF Close
  <2>6. CASE Submit(d)
    BY <2>6 DEF Submit
  <2>7. QED
    BY <1>1, <2>1, <2>2, <2>3, <2>4, <2>5, <2>6 DEF Fill
<1>2. CASE Keep(d)
  <2>1. ASSUME NEW p, Show(d, p)
        PROVE  /\ form'[e] = form[e] /\ job'[e] = job[e] /\ page'[e] = page[e] /\ puts'[e] = puts[e]
               /\ local'[e] = local[e] /\ loaded'[e] = loaded[e] /\ pending'[e] = pending[e]
               /\ asking'[e] = asking[e]
    BY <2>1 DEF Show, Change
  <2>2. CASE Load(d) \/ LoadFails(d)
    BY <2>1, <2>2 DEF Load, LoadFails
  <2>3. CASE TimerFires(d)
    BY <2>3 DEF TimerFires, Persist, WriteLocal
  <2>4. CASE Hide(d)
    BY <2>4 DEF Hide, WriteLocal
  <2>5. ASSUME NEW p \in puts[d], Put(d, p) \/ PutLost(d, p)
        PROVE  UNCHANGED <<form, job, page, local, loaded, pending, saved, asking>> /\ puts'[e] = puts[e]
    BY <2>5 DEF Put, PutLost
  <2>6. QED
    BY <1>2, <2>2, <2>3, <2>4, <2>5 DEF Keep
<1>3. CASE Attach(d)
  BY <1>3 DEF Attach, Upload, Remove, Purge, Change
<1>4. CASE Hand(d)
  <2>1. CASE SaveSection(d) \/ SaveFails(d)
    BY <2>1 DEF SaveSection, SaveFails, Step
  <2>2. CASE DeleteFile(d)
    BY <2>2 DEF DeleteFile
  <2>3. CASE Mark(d) \/ MarkFails(d) \/ DeleteDraft(d)
    BY <2>3 DEF Mark, MarkFails, DeleteDraft, Step
  <2>4. CASE Refresh(d)
    BY <2>4 DEF Refresh
  <2>5. QED
    BY <1>4, <2>1, <2>2, <2>3, <2>4 DEF Hand
<1>5. QED
  BY <1>1, <1>2, <1>3, <1>4

LEMMA CleanUpKeeps ==
    CleanUp => UNCHANGED <<draft, fresher, section, local, page, form, loaded, asking, pending, saved, puts,
                           job, typed, opened, mishaps>>
BY DEF CleanUp, Select, Sweep, SweepDies, Age, drafts, view, saving, given

\* Beginning the survey, and adding and removing files, change no answer.
LEMMA EditStep ==
    ASSUME TypeOK, NEW d \in Devices, Begin(d) \/ Attach(d)
    PROVE  /\ form'[d] \in Form /\ form'[d].is.ans = form[d].is.ans
           /\ form'[d].is.att \subseteq form[d].is.att \cup {f \in Files : row[f] = "absent" /\ row'[f] # "absent"}
           /\ form[d].open /\ form'[d].open /\ form'[d].begun /\ ~form[d].done /\ ~form'[d].done
           /\ form[d].begun \/ (Begin(d) /\ ~asking[d])
           /\ pending'[d] = form'[d].is
           /\ UNCHANGED <<draft, fresher, section, local, page, loaded, asking, saved, puts, job, typed,
                          opened, mishaps>>
<1>0. form[d] \in Form /\ form[d].is \in Payload
  BY FormTypes, BlankTypes DEF TypeOK
<1> DEFINE new == {f \in Files : row[f] = "absent" /\ row'[f] # "absent"}
           E(is) == /\ Change(d, [form[d] EXCEPT !.is = is]) /\ Editable(d) /\ is.ans = form[d].is.ans
                    /\ is.att \subseteq form[d].is.att \cup new
<1>1. ASSUME NEW g \in Form, Change(d, g), g.open, g.begun, ~g.done
      PROVE  form'[d] = g /\ pending'[d] = g.is
  BY <1>1 DEF Change, TypeOK
<1>2. CASE Begin(d)
  <2> DEFINE g == [form[d] EXCEPT !.begun = TRUE]
  <2>1. g \in Form /\ g.is = form[d].is /\ g.open = form[d].open /\ g.begun /\ g.done = form[d].done
    BY <1>0 DEF Form
  <2>2. Change(d, g) /\ form[d].open /\ ~form[d].done /\ ~asking[d]
    BY <1>2 DEF Begin
  <2> HIDE DEF g
  <2>3. form'[d] = g /\ pending'[d] = g.is
    BY <1>1, <2>1, <2>2
  <2>4. QED
    BY <1>2, <2>1, <2>2, <2>3 DEF Begin, drafts, files, given
<1>3. ASSUME NEW is \in Payload, Change(d, [form[d] EXCEPT !.is = is]), Editable(d)
      PROVE  /\ form'[d] \in Form /\ form'[d].is = is /\ pending'[d] = is
             /\ form[d].open /\ form'[d].open /\ form[d].begun /\ form'[d].begun /\ ~form[d].done /\ ~form'[d].done
  <2> DEFINE g == [form[d] EXCEPT !.is = is]
  <2>1. g \in Form /\ g.is = is /\ g.open = form[d].open /\ g.begun = form[d].begun /\ g.done = form[d].done
    BY <1>0 DEF Form
  <2>2. Change(d, g) /\ form[d].open /\ form[d].begun /\ ~form[d].done
    BY <1>3 DEF Editable
  <2> HIDE DEF g
  <2>3. form'[d] = g /\ pending'[d] = g.is
    BY <1>1, <2>1, <2>2
  <2>4. QED
    BY <2>1, <2>2, <2>3
<1>4. ASSUME NEW f \in Files, Upload(d, f)
      PROVE  \E is \in Payload : E(is)
  <2> DEFINE p == [form[d].is EXCEPT !.att = form[d].is.att \cup {f}]
  <2>1. p \in Payload
    BY <1>0, PayloadTypes, BlankTypes
  <2>2. p.ans = form[d].is.ans /\ p.att = form[d].is.att \cup {f}
    BY <1>0 DEF Payload
  <2>3. Change(d, [form[d] EXCEPT !.is = p]) /\ Editable(d) /\ f \in new
    BY <1>4 DEF Upload, TypeOK
  <2>4. QED
    BY <2>1, <2>2, <2>3
<1>5. ASSUME NEW f \in Files, Remove(d, f)
      PROVE  \E is \in Payload : E(is)
  <2> DEFINE p == [form[d].is EXCEPT !.att = form[d].is.att \ {f}, !.rem = form[d].is.rem \cup {f}]
  <2>1. p \in Payload
    BY <1>0, PayloadTypes, BlankTypes
  <2>2. p.ans = form[d].is.ans /\ p.att \subseteq form[d].is.att
    BY <1>0 DEF Payload
  <2>3. Change(d, [form[d] EXCEPT !.is = p]) /\ Editable(d)
    BY <1>5 DEF Remove
  <2>4. QED
    BY <2>1, <2>2, <2>3
<1>6. ASSUME Purge(d)
      PROVE  \E is \in Payload : E(is)
  <2> DEFINE dead == {f \in form[d].is.att : row[f] \in {"deleted", "gone"}}
             p == [form[d].is EXCEPT !.att = form[d].is.att \ dead]
  <2>1. Change(d, [form[d] EXCEPT !.is = p]) /\ Editable(d)
    BY <1>6 DEF Purge
  <2> HIDE DEF dead
  <2>2. p \in Payload
    BY <1>0, PayloadTypes, BlankTypes
  <2>3. p.ans = form[d].is.ans /\ p.att \subseteq form[d].is.att
    BY <1>0 DEF Payload
  <2>4. QED
    BY <2>1, <2>2, <2>3
<1>7. CASE Attach(d)
  <2>1. \E is \in Payload : E(is)
    <3> HIDE DEF E
    <3> QED
      BY <1>4, <1>5, <1>6, <1>7 DEF Attach
  <2>2. PICK is \in Payload : E(is)
    BY <2>1
  <2>3. UNCHANGED <<draft, fresher, section, local, page, loaded, asking, saved, puts, job, typed, opened, mishaps>>
    BY <1>7 DEF Attach, Upload, Remove, Purge, drafts, given
  <2>4. QED
    BY <1>3, <2>2, <2>3
<1>8. QED
  BY <1>2, <1>7

\* Opening the survey.
LEMMA OpenStep ==
    ASSUME TypeOK, NEW d \in Devices, Open(d)
    PROVE  /\ ~form[d].open /\ form'[d].open /\ ~form'[d].done /\ form'[d].is \in Payload
           /\ form'[d].begun <=> loaded[d] # Nothing
           /\ loaded[d] = Nothing => form'[d].is.ans = page[d].ans /\ form'[d].is.att = page[d].att
           /\ loaded[d] # Nothing =>
                 /\ form'[d].is.ans = IF loaded[d].ans # 0 THEN loaded[d].ans ELSE page[d].ans
                 /\ form'[d].is.att \in {page[d].att, loaded[d].att}
           /\ \/ form'[d].begun /\ pending'[d] = form'[d].is
              \/ ~form'[d].begun /\ form[d].begun /\ pending'[d] = form[d].is
              \/ ~form'[d].begun /\ pending'[d] = pending[d]
           /\ loaded'[d] = Nothing /\ asking'[d] /\ opened' = opened \cup {d}
           /\ mishaps' = {} =>
                 /\ mishaps = {} /\ pending[d] = Nothing /\ job[d] = NoJob
                 /\ loaded[d] # Nothing => form'[d].is.ans = typed
                 /\ page[d] = section \/ opened \ {d} = {}
           /\ UNCHANGED <<draft, fresher, section, row, local, page, saved, puts, job, typed>>
<1> DEFINE prefill == [ans |-> page[d].ans, att |-> page[d].att, rem |-> form[d].is.rem]
           is == IF loaded[d] = Nothing THEN prefill ELSE Restore(prefill, loaded[d])
           g == [open |-> TRUE, ready |-> loaded[d] # Nothing \/ ~asking[d], begun |-> loaded[d] # Nothing,
                 done |-> FALSE, is |-> is]
           w == IF g.begun THEN is ELSE IF form[d].begun /\ ~form[d].done THEN form[d].is ELSE pending[d]
<1>1. form[d].is \in Payload /\ page[d] \in Content /\ loaded[d] \in Payload \cup {Nothing}
  BY DEF TypeOK, Form
<1>2. prefill \in Payload /\ prefill.ans = page[d].ans /\ prefill.att = page[d].att
  BY <1>1 DEF Payload, Content
<1>3. /\ is \in Payload
      /\ loaded[d] = Nothing => is.ans = page[d].ans /\ is.att = page[d].att
      /\ loaded[d] # Nothing =>
            /\ is.ans = IF loaded[d].ans # 0 THEN loaded[d].ans ELSE page[d].ans
            /\ is.att \in {page[d].att, loaded[d].att}
  <2> HIDE DEF prefill
  <2> QED
    BY <1>1, <1>2, RestoreType
<1>4. /\ form' = [form EXCEPT ![d] = g] /\ pending' = [pending EXCEPT ![d] = w]
      /\ loaded' = [loaded EXCEPT ![d] = Nothing] /\ asking' = [asking EXCEPT ![d] = TRUE]
      /\ opened' = opened \cup {d} /\ ~form[d].open
      /\ UNCHANGED <<draft, fresher, section, row, local, page, saved, puts, job, typed>>
  BY DEF Open, TypeOK, drafts, files
<1>5. mishaps' = mishaps
         \cup (IF pending[d] # Nothing \/ job[d] # NoJob \/ (loaded[d] # Nothing /\ g.is.ans # typed)
               THEN {"reopened"} ELSE {})
         \cup Elsewhere(d, page[d] # section)
  BY DEF Open
<1>6. g.open /\ ~g.done /\ g.is = is /\ (g.begun <=> loaded[d] # Nothing)
  OBVIOUS
<1> HIDE DEF is, g
<1>7. form'[d] = g /\ pending'[d] = w /\ loaded'[d] = Nothing /\ asking'[d]
  BY <1>4 DEF TypeOK
<1>8. mishaps' = {} =>
         /\ mishaps = {} /\ pending[d] = Nothing /\ job[d] = NoJob
         /\ loaded[d] # Nothing => is.ans = typed
         /\ page[d] = section \/ opened \ {d} = {}
  BY <1>5, <1>6 DEF Elsewhere
<1>9. QED
  BY <1>3, <1>4, <1>6, <1>7, <1>8

\* A draft that has been loaded.
LEMMA ShowStep ==
    ASSUME TypeOK, NEW d \in Devices, NEW p \in Payload \cup {Nothing}, Show(d, p)
    PROVE  /\ asking[d] /\ ~asking'[d] /\ loaded'[d] = p /\ form'[d] \in Form
           /\ form'[d].open <=> form[d].open
           /\ form'[d].done <=> form[d].done
           /\ form'[d].begun <=> form[d].begun \/ (form[d].open /\ p # Nothing)
           /\ form'[d].is = IF form[d].open /\ p # Nothing THEN Restore(form[d].is, p) ELSE form[d].is
           /\ pending'[d] = pending[d] \/ (form'[d].open /\ form'[d].begun /\ pending'[d] = form'[d].is)
           /\ mishaps' = {} =>
                 /\ mishaps = {} /\ p = Chosen(d)
                 /\ form[d].begun /\ form[d].is.ans = typed => form'[d].is.ans = typed
                 /\ \/ ~form[d].open \/ form[d].begun \/ form'[d].is.ans = typed \/ opened \ {d} = {}
                    \/ form[d].is.ans # typed /\ (local[d] = Nothing \/ local[d].ans # typed)
           /\ UNCHANGED <<draft, fresher, section, row, local, page, puts, job, typed, opened>>
<1> DEFINE f == form[d]
           is == IF f.open /\ p # Nothing THEN Restore(f.is, p) ELSE f.is
           g == [f EXCEPT !.ready = @ \/ f.open, !.begun = @ \/ (f.open /\ p # Nothing), !.is = is]
<1>1. f \in Form /\ f.is \in Payload
  BY DEF TypeOK, Form
<1>2. is \in Payload
  BY <1>1, RestoreType
<1>3. /\ asking[d] /\ asking' = [asking EXCEPT ![d] = FALSE] /\ loaded' = [loaded EXCEPT ![d] = p]
      /\ Change(d, g) \/ (form' = [form EXCEPT ![d] = g] /\ UNCHANGED pending)
      /\ UNCHANGED <<draft, fresher, section, row, local, page, puts, job, typed, opened>>
  BY DEF Show, drafts, files, given
<1>4. mishaps' = mishaps
         \cup (IF p # Chosen(d) THEN {"unread"} ELSE {})
         \cup (IF f.begun /\ f.is.ans # g.is.ans /\ f.is.ans = typed THEN {"overlaid"} ELSE {})
         \cup Elsewhere(d, /\ f.open /\ ~f.begun /\ g.is.ans # typed
                           /\ typed \in {f.is.ans} \cup AnswersOf({local[d]}))
  BY DEF Show
<1>5. local[d] # Nothing => (typed \in AnswersOf({local[d]}) <=> local[d].ans = typed)
  BY DEF AnswersOf
<1> HIDE DEF is
<1>6. /\ g \in Form /\ g.is = is /\ (g.open <=> f.open) /\ (g.done <=> f.done)
      /\ g.begun <=> f.begun \/ (f.open /\ p # Nothing)
  BY <1>1, <1>2 DEF Form
<1> HIDE DEF g
<1>7. /\ form'[d] = g /\ loaded'[d] = p /\ ~asking'[d]
      /\ pending'[d] = pending[d] \/ (g.open /\ g.begun /\ pending'[d] = g.is)
  BY <1>3 DEF Change, TypeOK
<1>8. mishaps' = {} =>
         /\ mishaps = {} /\ p = Chosen(d)
         /\ f.begun /\ f.is.ans = typed => g.is.ans = typed
         /\ \/ ~f.open \/ f.begun \/ g.is.ans = typed \/ opened \ {d} = {}
            \/ f.is.ans # typed /\ (local[d] = Nothing \/ local[d].ans # typed)
  BY <1>4, <1>5 DEF Elsewhere
<1>9. QED
  BY <1>3, <1>6, <1>7, <1>8 DEF is

\* A draft that is written to the storage of the device and sent.
LEMMA PersistStep ==
    ASSUME TypeOK, NEW d \in Devices, NEW p \in Payload, Persist(d, p)
    PROVE  \/ p = saved[d] /\ UNCHANGED <<local, fresher, saved, puts>>
           \/ /\ local'[d] = p /\ ~fresher'[d] /\ saved'[d] = p /\ puts'[d] = puts[d] \cup {p}
              /\ \A e \in Devices \ {d} : fresher'[e] = fresher[e]
BY DEF Persist, WriteLocal, TypeOK

\* The steps of a submission, but for what SaveSection stores.
LEMMA HandStep ==
    ASSUME TypeOK, NEW d \in Devices, Hand(d)
    PROVE  /\ job[d].at # "idle"
           /\ job'[d] = NoJob \/ (job'[d].of = job[d].of /\ job'[d].at # "idle" /\ job'[d].at # "save")
           /\ job'[d].at = "clear" => Mark(d)
           /\ form'[d].is = form[d].is /\ (form'[d].open <=> form[d].open) /\ (form'[d].begun <=> form[d].begun)
           /\ UNCHANGED <<asking, puts, typed, opened, fresher>>
           /\ Mark(d) \/ UNCHANGED <<local, loaded, pending, saved>>
           /\ DeleteDraft(d) \/ UNCHANGED draft
           /\ SaveSection(d) \/ UNCHANGED section
           /\ SaveSection(d) \/ Refresh(d) \/ UNCHANGED page
<1>0. job[d] \in Submission /\ form[d] \in Form
  BY DEF TypeOK
<1>1. ASSUME NEW at \in Steps, at \notin {"idle", "save"}, Step(d, at)
      PROVE  job'[d].of = job[d].of /\ job'[d].at = at
  BY <1>0, <1>1 DEF Step, TypeOK, Submission
<1>2. CASE SaveSection(d) \/ SaveFails(d)
  <2>1. AfterSave(d) \in {"mark", "delete"}
    BY DEF AfterSave
  <2>2. job'[d].of = job[d].of /\ job'[d].at \in {"mark", "delete"} /\ job[d].at = "save"
    BY <1>1, <1>2, <2>1 DEF SaveSection, SaveFails, Steps
  <2>3. SaveSection(d) \/ UNCHANGED <<section, page>>
    BY <1>2 DEF SaveFails
  <2>4. QED
    BY <1>2, <2>2, <2>3 DEF SaveSection, SaveFails, drafts, view, saving, given
<1>3. CASE DeleteFile(d)
  <2>1. job'[d].of = job[d].of /\ job'[d].at \in {"mark", "delete"} /\ job[d].at = "delete"
    BY <1>0, <1>3 DEF DeleteFile, TypeOK, Submission
  <2>2. QED
    BY <1>3, <2>1 DEF DeleteFile, drafts, view, saving, given
<1>4. CASE Mark(d)
  BY <1>1, <1>4 DEF Mark, Steps, drafts, given
<1>5. CASE MarkFails(d)
  BY <1>5 DEF MarkFails, TypeOK, NoJob, drafts, view, saving, given
<1>6. CASE DeleteDraft(d)
  BY <1>1, <1>6 DEF DeleteDraft, Steps, view, saving, given
<1>7. CASE Refresh(d)
  <2>1. form'[d] = form[d] \/ form'[d] = [form[d] EXCEPT !.done = TRUE]
    BY <1>7 DEF Refresh, TypeOK
  <2>2. form'[d].is = form[d].is /\ (form'[d].open <=> form[d].open) /\ (form'[d].begun <=> form[d].begun)
    BY <1>0, <2>1 DEF Form
  <2>3. job'[d] = NoJob /\ job[d].at = "refresh"
    BY <1>7 DEF Refresh, TypeOK
  <2>4. UNCHANGED <<asking, puts, typed, opened, fresher, local, loaded, pending, saved, draft, section>>
    BY <1>7 DEF Refresh, drafts, saving, given
  <2>5. QED
    BY <1>7, <2>2, <2>3, <2>4 DEF NoJob
<1>8. QED
  BY <1>2, <1>3, <1>4, <1>5, <1>6, <1>7 DEF Hand

\* Where answers are on a device with the form f and the submission w, H being
\* its draft in the storage, the one it loaded, the one about to be saved and the
\* last one saved, and P the drafts on their way: all of them in S.
Holds(S, f, w, H, P) == f.is \in S /\ w.of \in S /\ H \subseteq S /\ P \subseteq S

\* A set that restoring, opening and editing do not leave holds the answers of a
\* device and the draft of the server for ever: no action makes up an answer.
LEMMA HeldStep ==
    ASSUME TypeOK, NEW d \in Devices, Fill(d) \/ Keep(d) \/ Attach(d) \/ Hand(d), NEW S,
           Nothing \in S, Empty \in S, draft \in S,
           Holds(S, form[d], job[d], {local[d], loaded[d], pending[d], saved[d]}, puts[d]),
           \A is, p \in S \cap Payload : Restore(is, p) \in S,
           Begin(d) \/ Attach(d) \/ Open(d) \/ Type(d) => form'[d].is \in S
    PROVE  /\ draft' \in S
           /\ Holds(S, form'[d], job'[d], {local'[d], loaded'[d], pending'[d], saved'[d]}, puts'[d])
<1> DEFINE Own == /\ form'[d].is \in S /\ job'[d].of \in S /\ puts'[d] \subseteq S
                  /\ local'[d] \in S /\ loaded'[d] \in S /\ pending'[d] \in S /\ saved'[d] \in S
<1> SUFFICES draft' \in S /\ Own
  BY DEF Holds
<1>1. /\ form[d].is \in S /\ job[d].of \in S /\ puts[d] \subseteq S
      /\ local[d] \in S /\ loaded[d] \in S /\ pending[d] \in S /\ saved[d] \in S
  BY DEF Holds
<1>2. /\ form[d].is \in Payload /\ puts[d] \subseteq Payload
      /\ local[d] \in Payload \cup {Nothing} /\ pending[d] \in Payload \cup {Nothing}
  BY DEF TypeOK, Form
<1>3. CASE Begin(d) \/ Attach(d)
  BY <1>1, <1>3, EditStep
<1>4. CASE Open(d)
  BY <1>1, <1>4, OpenStep
<1>5. CASE Type(d)
  <2>1. pending'[d] \in {pending[d], form'[d].is}
    BY <1>5 DEF Type, Change, TypeOK
  <2>2. UNCHANGED <<draft, local, loaded, saved, puts, job>>
    BY <1>5 DEF Type, drafts
  <2>3. QED
    BY <1>1, <1>5, <2>1, <2>2
<1>6. CASE Turn(d)
  BY <1>1, <1>2, <1>6, PersistStep DEF Turn, TypeOK, view
<1>7. CASE TimerFires(d)
  BY <1>1, <1>2, <1>7, PersistStep DEF TimerFires, TypeOK, view
<1>8. CASE Hide(d)
  BY <1>1, <1>8 DEF Hide, WriteLocal, TypeOK, view
<1>9. CASE Close(d)
  <2>1. form'[d].is = form[d].is
    BY <1>9 DEF Close, TypeOK, Form
  <2>2. QED
    BY <1>1, <1>9, <2>1 DEF Close, drafts, saving
<1>10. CASE Submit(d)
  BY <1>1, <1>10 DEF Submit, TypeOK, drafts, view, saving
<1>11. ASSUME NEW p \in puts[d], Put(d, p) \/ PutLost(d, p) PROVE draft' \in S /\ Own
  <2>1. UNCHANGED <<local, pending, saved, form, loaded, job>> /\ draft' \in {draft, p}
    BY <1>11 DEF Put, PutLost, drafts, view
  <2>2. puts'[d] \subseteq puts[d]
    BY <1>11 DEF Put, PutLost, TypeOK
  <2>3. QED
    BY <1>1, <2>1, <2>2
<1>12. CASE Load(d) \/ LoadFails(d)
  <2>1. PICK p \in {Chosen(d), local[d]} : Show(d, p) /\ saved'[d] \in {saved[d], p}
    BY <1>12 DEF Load, LoadFails, TypeOK
  <2>2. p \in S /\ p \in Payload \cup {Nothing}
    BY <1>1, <1>2, <2>1, ChosenType DEF Chosen
  <2>3. form'[d].is \in S
    BY <1>1, <1>2, <2>1, <2>2, ShowStep
  <2>4. QED
    BY <1>1, <2>1, <2>2, <2>3, ShowStep
<1>13. CASE Hand(d)
  <2>1. form'[d].is \in S /\ puts'[d] \subseteq S
    BY <1>1, <1>13, HandStep
  <2>2. job'[d].of \in S
    BY <1>1, <1>13, HandStep DEF NoJob
  <2>3. local'[d] \in S /\ loaded'[d] \in S /\ pending'[d] \in S /\ saved'[d] \in S
    BY <1>1, <1>13, HandStep DEF Mark, TypeOK
  <2>4. draft' \in S
    BY <1>13, HandStep DEF DeleteDraft
  <2>5. QED
    BY <2>1, <2>2, <2>3, <2>4
<1>14. QED
  BY <1>3, <1>4, <1>5, <1>6, <1>7, <1>8, <1>9, <1>10, <1>11, <1>12, <1>13 DEF Fill, Keep

-----------------------------------------------------------------------------
(* The files of saved answers stay.                                          *)

\* Every file an answer names has been uploaded, wherever the answer is; those
\* of a stored answer have been confirmed; and a confirmed file that the clean-up
\* has selected was saved after the selection.
Uploaded(r, p) == p # Nothing => \A f \in p.att : r[f] # "absent"
Saved(r, p) == \A f \in p.att : r[f] \in {"confirmed", "deleted", "gone"}
AnswersUploaded ==
    /\ Uploaded(row, draft)
    /\ \A d \in Devices :
          /\ Uploaded(row, form[d].is) /\ Uploaded(row, job[d].of)
          /\ Uploaded(row, local[d]) /\ Uploaded(row, loaded[d]) /\ Uploaded(row, pending[d])
          /\ Uploaded(row, saved[d]) /\ \A p \in puts[d] : Uploaded(row, p)
StoredSaved == Saved(row, section) /\ \A d \in Devices : Saved(row, page[d])
SelectedUnsaved == \A f \in sweep : row[f] = "confirmed" => f \in raced
FileInv == AnswersUploaded /\ StoredSaved /\ SelectedUnsaved

LEMMA FileInit == Init => FileInv
<1> SUFFICES ASSUME Init PROVE FileInv
  OBVIOUS
<1>1. Uploaded(row, draft) /\ Uploaded(row, Nothing)
  BY BlankTypes DEF Init, Uploaded
<1>2. ASSUME NEW d \in Devices
      PROVE  /\ local[d] \in {Nothing, draft} /\ loaded[d] = Nothing /\ pending[d] = Nothing
             /\ saved[d] = Nothing /\ puts[d] = {} /\ form[d] = Unopened /\ job[d] = NoJob /\ page[d] = Blank
  BY DEF Init
<1>3. Uploaded(row, Unopened.is) /\ Uploaded(row, NoJob.of) /\ Saved(row, Blank)
  BY BlankTypes DEF Unopened, NoJob, Blank, Uploaded, Saved
<1>4. AnswersUploaded
  BY <1>1, <1>2, <1>3 DEF AnswersUploaded
<1>5. StoredSaved
  BY <1>2, <1>3 DEF StoredSaved, Init
<1>6. SelectedUnsaved
  BY DEF Init, SelectedUnsaved
<1>7. QED
  BY <1>4, <1>5, <1>6 DEF FileInv

\* What no step does to the rows r: a row does not become absent, and a saved
\* file is not made unsaved.
Grown(r, s) ==
    \A f \in Files :
        /\ r[f] # "absent" => s[f] # "absent"
        /\ r[f] \in {"confirmed", "deleted", "gone"} => s[f] \in {"confirmed", "deleted", "gone"}

\* If the rows grow so, what was uploaded or saved stays it.
LEMMA GrownRows ==
    ASSUME NEW r, NEW s, Grown(r, s)
    PROVE  /\ \A p \in Payload \cup {Nothing} : Uploaded(r, p) => Uploaded(s, p)
           /\ \A p \in Content : Saved(r, p) => Saved(s, p)
BY DEF Grown, Uploaded, Saved, Payload, Content

LEMMA GrowStep == TypeOK /\ Next => Grown(row, row')
<1> SUFFICES ASSUME TypeOK, Next PROVE Grown(row, row')
  OBVIOUS
<1>0. (row' = row) => Grown(row, row')
  BY DEF Grown
<1>1. CASE CleanUp
  <2>1. ASSUME NEW f \in Files, Age(f) PROVE Grown(row, row')
    BY <2>1 DEF Age, Grown, TypeOK
  <2>2. CASE Sweep
    BY <2>2 DEF Sweep, Grown
  <2>3. QED
    BY <1>0, <1>1, <2>1, <2>2 DEF CleanUp, Select, SweepDies
<1>2. ASSUME NEW d \in Devices, Attach(d) PROVE Grown(row, row')
  <2>1. ASSUME NEW f \in Files, Upload(d, f) PROVE Grown(row, row')
    BY <2>1 DEF Upload, Grown, TypeOK
  <2>2. QED
    BY <1>0, <1>2, <2>1 DEF Attach, Purge, Remove, files
<1>3. ASSUME NEW d \in Devices, Hand(d) PROVE Grown(row, row')
  <2>1. CASE SaveSection(d)
    BY <1>0, <2>1 DEF SaveSection, Confirm, Grown
  <2>2. CASE DeleteFile(d)
    BY <1>0, <2>2 DEF DeleteFile, Grown, TypeOK
  <2>3. QED
    BY <1>0, <1>3, <2>1, <2>2 DEF Hand, SaveFails, Mark, MarkFails, DeleteDraft, Refresh, files
<1>4. ASSUME NEW d \in Devices, Fill(d) \/ Keep(d) PROVE Grown(row, row')
  <2>1. row' = row
    BY <1>4 DEF Fill, Open, Begin, Type, Turn, Close, Submit, Keep, Load, LoadFails, Show,
                TimerFires, Hide, Put, PutLost, files
  <2>2. QED
    BY <1>0, <2>1
<1>5. QED
  BY <1>1, <1>2, <1>3, <1>4 DEF Next

\* What is stored, and the files selected.
LEMMA SavedStep == TypeOK /\ FileInv /\ Next => StoredSaved' /\ SelectedUnsaved'
<1> SUFFICES ASSUME TypeOK, FileInv, Next PROVE StoredSaved' /\ SelectedUnsaved'
  OBVIOUS
<1>0. \A p \in Content : Saved(row, p) => Saved(row', p)
  BY GrowStep, GrownRows
<1>1. ASSUME section' = section, page' = page PROVE StoredSaved'
  BY <1>0, <1>1 DEF StoredSaved, FileInv, TypeOK
<1>2. ASSUME row' = row, sweep' = sweep, raced' = raced PROVE SelectedUnsaved'
  BY <1>2 DEF SelectedUnsaved, FileInv
<1>3. CASE CleanUp
  <2>1. StoredSaved'
    BY <1>1, <1>3 DEF CleanUp, Select, Sweep, SweepDies, Age
  <2>2. SelectedUnsaved'
    <3>1. ASSUME NEW f \in Files, Age(f) PROVE SelectedUnsaved'
      BY <3>1 DEF Age, SelectedUnsaved, FileInv, TypeOK
    <3>2. CASE Select
      BY <3>2 DEF Select, SelectedUnsaved
    <3>3. CASE Sweep \/ SweepDies
      BY <3>3 DEF Sweep, SweepDies, SelectedUnsaved
    <3>4. QED
      BY <1>3, <3>1, <3>2, <3>3 DEF CleanUp
  <2>3. QED
    BY <2>1, <2>2
<1>4. ASSUME NEW d \in Devices, Attach(d) PROVE StoredSaved' /\ SelectedUnsaved'
  <2>1. ASSUME NEW f \in Files, Upload(d, f) PROVE SelectedUnsaved'
    BY <2>1 DEF Upload, SelectedUnsaved, FileInv, TypeOK
  <2>2. QED
    BY <1>1, <1>2, <1>4, <2>1 DEF Attach, Upload, Purge, Remove, files
<1>5. ASSUME NEW d \in Devices, Fill(d) \/ Keep(d) PROVE StoredSaved' /\ SelectedUnsaved'
  BY <1>1, <1>2, <1>5 DEF Fill, Open, Begin, Type, Turn, Close, Submit, Keep, Load, LoadFails,
                          Show, TimerFires, Hide, Put, PutLost, files
<1>6. ASSUME NEW d \in Devices, Hand(d) PROVE StoredSaved' /\ SelectedUnsaved'
  <2>1. CASE SaveSection(d) /\ ~(job[d].of.ans = 0 /\ job[d].of.att = {})
    <3>1. /\ section' = Merged(d) /\ row' = Confirm(Merged(d).att)
          /\ raced' = raced \cup (Merged(d).att \cap sweep)
          /\ page' = [page EXCEPT ![d] = Merged(d)] /\ sweep' = sweep
      BY <2>1 DEF SaveSection
    <3>2. Merged(d) \in Content /\ Merged(d).att \in {job[d].of.att, page[d].att}
      BY MergedType DEF Merged
    <3>3. \A f \in Merged(d).att : f \in Files /\ row[f] # "absent"
      <4>1. \A f \in job[d].of.att : row[f] # "absent"
        <5>1. job[d].of \in Payload
          BY DEF TypeOK, Submission
        <5>2. QED
          BY <5>1, SurveyAssumption DEF FileInv, AnswersUploaded, Uploaded
      <4>2. \A f \in page[d].att : row[f] # "absent"
        BY DEF FileInv, StoredSaved, Saved
      <4>3. QED
        BY <3>2, <4>1, <4>2 DEF Content
    <3>4. Saved(row', Merged(d))
      BY <3>1, <3>3 DEF Saved, Confirm, TypeOK, RowStates
    <3>5. StoredSaved'
      BY <1>0, <3>1, <3>4 DEF StoredSaved, FileInv, TypeOK
    <3>6. SelectedUnsaved'
      BY <3>1, <3>3 DEF SelectedUnsaved, FileInv, Confirm, TypeOK
    <3>7. QED
      BY <3>5, <3>6
  <2>2. CASE SaveSection(d) /\ job[d].of.ans = 0 /\ job[d].of.att = {}
    BY <1>1, <1>2, <2>2 DEF SaveSection
  <2>3. CASE DeleteFile(d)
    <3>1. StoredSaved'
      BY <1>1, <2>3 DEF DeleteFile
    <3>2. SelectedUnsaved'
      BY <2>3 DEF DeleteFile, SelectedUnsaved, FileInv, TypeOK
    <3>3. QED
      BY <3>1, <3>2
  <2>4. CASE Refresh(d)
    <3>1. StoredSaved'
      BY <2>4 DEF Refresh, StoredSaved, FileInv, TypeOK, files
    <3>2. QED
      BY <1>2, <2>4, <3>1 DEF Refresh, files
  <2>5. QED
    BY <1>1, <1>2, <1>6, <2>1, <2>2, <2>3, <2>4 DEF Hand, SaveFails, Mark, MarkFails, DeleteDraft, files
<1>7. QED
  BY <1>3, <1>4, <1>5, <1>6 DEF Next

LEMMA UploadedStep == TypeOK /\ FileInv /\ Next => AnswersUploaded'
<1> SUFFICES ASSUME TypeOK, FileInv, Next PROVE AnswersUploaded'
  OBVIOUS
<1> DEFINE S == {p \in Payload \cup {Nothing} : Uploaded(row', p)}
           HoldsNow(d) == Holds(S, form[d], job[d], {local[d], loaded[d], pending[d], saved[d]}, puts[d])
           HoldsNext(d) == Holds(S, form'[d], job'[d], {local'[d], loaded'[d], pending'[d], saved'[d]}, puts'[d])
<1>1. Grown(row, row') /\ \A p \in Payload \cup {Nothing} : Uploaded(row, p) => p \in S
  BY GrowStep, GrownRows
<1>2. \A d \in Devices : /\ form[d].is \in Payload /\ job[d].of \in Payload /\ puts[d] \subseteq Payload
                         /\ local[d] \in Payload \cup {Nothing} /\ loaded[d] \in Payload \cup {Nothing}
                         /\ pending[d] \in Payload \cup {Nothing} /\ saved[d] \in Payload \cup {Nothing}
                         /\ page[d] \in Content
  BY DEF TypeOK, Form, Submission
<1>3. draft \in S /\ Nothing \in S /\ Empty \in S
  BY <1>1, BlankTypes DEF FileInv, AnswersUploaded, Uploaded, TypeOK
<1>4. \A p \in S : p # Nothing => p \in Payload /\ \A f \in p.att : row'[f] # "absent"
  BY DEF Uploaded
<1>5. ASSUME NEW p \in Payload, \A f \in p.att : row'[f] # "absent" PROVE p \in S
  BY <1>5 DEF Uploaded
<1> HIDE DEF S
<1>6. \A d \in Devices : HoldsNow(d)
  BY <1>1, <1>2 DEF FileInv, AnswersUploaded, Holds
<1>7. \A is, p \in S \cap Payload : Restore(is, p) \in S
  BY <1>4, <1>5, RestoreType, SurveyAssumption
<1>8. ASSUME NEW d \in Devices, Begin(d) \/ Attach(d) \/ Open(d) \/ Type(d) PROVE form'[d].is \in S
  <2>0. form'[d].is \in Payload
    BY <1>8, TypeStep DEF TypeOK, Form
  <2>1. form[d].is # Nothing /\ \A f \in form[d].is.att : row'[f] # "absent"
    BY <1>2, <1>4, <1>6, SurveyAssumption DEF Holds
  <2>2. CASE Begin(d) \/ Attach(d)
    BY <1>5, <2>0, <2>1, <2>2, EditStep
  <2>3. CASE Open(d)
    <3>1. \A f \in page[d].att : row'[f] # "absent"
      BY <1>1, <1>2 DEF FileInv, StoredSaved, Saved, Grown, Content
    <3>2. loaded[d] # Nothing => \A f \in loaded[d].att : row'[f] # "absent"
      BY <1>4, <1>6 DEF Holds
    <3>3. form'[d].is.att \in {page[d].att, loaded[d].att} /\ (loaded[d] = Nothing => form'[d].is.att = page[d].att)
      BY <2>3, OpenStep
    <3>4. QED
      BY <1>5, <2>0, <3>1, <3>2, <3>3
  <2>4. CASE Type(d)
    <3>1. form'[d].is = [form[d].is EXCEPT !.ans = typed + 1]
      BY <2>4 DEF Type, Change, TypeOK, Form
    <3>2. form'[d].is.att = form[d].is.att
      BY <1>2, <3>1 DEF Payload
    <3>3. QED
      BY <1>5, <2>0, <2>1, <3>2
  <2>5. QED
    BY <1>8, <2>2, <2>3, <2>4
<1>9. ASSUME NEW d \in Devices, Fill(d) \/ Keep(d) \/ Attach(d) \/ Hand(d)
      PROVE  draft' \in S /\ \A e \in Devices : HoldsNext(e)
  <2>1. draft' \in S /\ HoldsNext(d)
    BY <1>3, <1>6, <1>7, <1>8, <1>9, HeldStep
  <2>2. ASSUME NEW e \in Devices, e # d PROVE HoldsNext(e)
    BY <1>6, <1>9, <2>2, OthersKept
  <2>3. QED
    BY <2>1, <2>2
<1>10. draft' \in S /\ \A e \in Devices : HoldsNext(e)
  BY <1>3, <1>6, <1>9, CleanUpKeeps DEF Next
<1>11. \A p \in S : Uploaded(row', p)
  BY <1>4 DEF Uploaded
<1>12. QED
  BY <1>10, <1>11 DEF AnswersUploaded, Holds

LEMMA FileStep == TypeOK /\ FileInv /\ [Next]_vars => FileInv'
<1>1. TypeOK /\ FileInv /\ Next => FileInv'
  BY SavedStep, UploadedStep DEF FileInv
<1>2. FileInv /\ UNCHANGED vars => FileInv'
  BY DEF FileInv, AnswersUploaded, StoredSaved, SelectedUnsaved, Uploaded, Saved, vars
<1>3. QED
  BY <1>1, <1>2

\* A file of a stored answer that is there disappears only by the clean-up that
\* had selected it before it was saved, or by the submission that removes it.
LEMMA FilesStayStep ==
    ASSUME TypeOK, FileInv, [Next]_vars, NEW f \in section.att \cap section'.att,
           Alive(f), ~Alive(f)'
    PROVE  f \in raced \/ \E d \in Devices : f \in job[d].of.rem
<1>0. f \in Files /\ row[f] = "confirmed"
  BY DEF FileInv, StoredSaved, Saved, Alive, TypeOK, Content
<1>1. Next /\ ~(row' = row /\ disk' = disk)
  BY DEF Alive, vars
<1>2. CASE CleanUp
  <2>1. f \in sweep
    BY <1>0, <1>2 DEF CleanUp, Age, Select, Sweep, SweepDies, Alive, TypeOK
  <2>2. QED
    BY <1>0, <2>1 DEF FileInv, SelectedUnsaved
<1>3. ASSUME NEW d \in Devices, SaveSection(d) PROVE FALSE
  BY <1>0, <1>3 DEF SaveSection, Confirm, Alive, RowStates
<1>4. ASSUME NEW d \in Devices, NEW g \in Files, Upload(d, g) PROVE FALSE
  BY <1>0, <1>4 DEF Upload, Alive, TypeOK
<1>5. ASSUME NEW d \in Devices, DeleteFile(d) PROVE f \in job[d].of.rem
  <2>1. PICK g \in job[d].rest : row' = [row EXCEPT ![g] = IF @ = "gone" THEN @ ELSE "deleted"] \/ row' = row
    BY <1>5 DEF DeleteFile
  <2>2. f = g
    BY <1>0, <1>5, <2>1 DEF DeleteFile, Alive, TypeOK
  <2>3. QED
    BY <2>1, <2>2 DEF TypeOK
<1>6. ASSUME NEW d \in Devices, Fill(d) \/ Keep(d) PROVE FALSE
  BY <1>1, <1>6 DEF Fill, Open, Begin, Type, Turn, Close, Submit, Keep, Load, LoadFails, Show, TimerFires,
                    Hide, Put, PutLost, files
<1>7. ASSUME NEW d \in Devices, Attach(d) PROVE FALSE
  BY <1>1, <1>4, <1>7 DEF Attach, Purge, Remove, files
<1>8. ASSUME NEW d \in Devices, Hand(d) PROVE f \in job[d].of.rem
  BY <1>1, <1>3, <1>5, <1>8 DEF Hand, SaveFails, Mark, MarkFails, DeleteDraft, Refresh, files
<1>9. QED
  BY <1>1, <1>2, <1>6, <1>7, <1>8 DEF Next

\* The files of the answer that the project stores stay: the clean-up takes none
\* of them, except one that was saved between its selection and its removal.
THEOREM SavedFilesStay == Spec => FilesStay
<1>1. TypeOK /\ FileInv /\ [Next]_vars =>
         [\A f \in section.att \cap section'.att :
             Alive(f) /\ ~Alive(f)' => f \in raced \/ \E d \in Devices : f \in job[d].of.rem]_vars
  BY FilesStayStep
<1>2. QED
  BY <1>1, TypeInit, TypeStep, FileInit, FileStep, PTL DEF Spec, FilesStay

-----------------------------------------------------------------------------
(* The last answer is kept.                                                  *)

Is(n, p) == p # Nothing /\ p.ans = n
AtMost(n, p) == p # Nothing => p.ans =< n

\* No answer is newer than the last.
Bounded ==
    /\ section.ans =< typed /\ AtMost(typed, draft)
    /\ \A d \in Devices :
          /\ page[d].ans =< typed /\ AtMost(typed, form[d].is) /\ AtMost(typed, job[d].of)
          /\ AtMost(typed, local[d]) /\ AtMost(typed, loaded[d])
          /\ AtMost(typed, pending[d]) /\ AtMost(typed, saved[d])
          /\ \A p \in puts[d] : AtMost(typed, p)

\* A device on which the survey was not opened has nothing to save.
UnopenedRest ==
    \A d \in Devices \ opened :
        ~form[d].open /\ ~form[d].begun /\ pending[d] = Nothing /\ puts[d] = {} /\ job[d] = NoJob

\* A submission is that of a survey that was begun; if it has the last answer,
\* the form still shows it.
AtWork ==
    \A d \in Devices :
        /\ job[d].at = "idle" => job[d] = NoJob
        /\ job[d].at # "idle" =>
              form[d].begun /\ (job[d].of.ans = typed => form[d].is.ans = typed)

\* The last answer is stored in one of three ways.  Either the project has it,
\* and every open survey shows it,
Settled == section.ans = typed /\ \A d \in Devices : form[d].open => form[d].is.ans = typed

\* or else it is what the survey on d shows once it is begun, saves and submits:
Shows(d) ==
    /\ form[d].begun => form[d].is.ans = typed
    /\ form[d].open /\ ~form[d].begun => asking[d]
    /\ pending[d] # Nothing => pending[d].ans = typed
    /\ job[d].at \in {"idle", "save"}
    /\ job[d].at = "save" => job[d].of.ans = typed
\* on every device, because all drafts have it,
Drafted ==
    /\ typed # 0 /\ Is(typed, draft)
    /\ \A d \in Devices :
          Shows(d) /\ (local[d] # Nothing => Is(typed, local[d])) /\ \A p \in puts[d] : Is(typed, p)
\* or on the device t it was given on, which has not saved it and is the only one
\* to know it,
Fresh(t) ==
    /\ Is(typed, pending[t]) /\ form[t].begun
    /\ section.ans # typed /\ ~Is(typed, draft)
    /\ ~Is(typed, saved[t]) /\ ~Is(typed, loaded[t]) /\ ~Is(typed, local[t]) /\ \A p \in puts[t] : ~Is(typed, p)
    /\ \A d \in Devices : page[d].ans # typed
    /\ \A d \in Devices \ {t} :
          /\ ~Is(typed, local[d]) /\ ~Is(typed, loaded[d]) /\ ~Is(typed, pending[d]) /\ ~Is(typed, saved[d])
          /\ form[d].is.ans # typed /\ job[d].of.ans # typed /\ \A p \in puts[d] : ~Is(typed, p)
\* or has it in its storage.
KeptBy(t) == typed # 0 /\ Shows(t) /\ t \in opened /\ (Is(typed, local[t]) \/ Fresh(t))
Kept == Settled \/ Drafted \/ \E t \in Devices : KeptBy(t)

\* While the survey is used on one device only, its page is that of the project,
\* and it shows, saves and submits the last answer.  A draft it would load has
\* this answer or none, unless the survey is begun and about to save, or has been
\* submitted and is about to delete its draft.
Fine(p) == p # Nothing => p.ans \in {0, typed}
Alone(d) ==
    /\ page[d] = section
    /\ form[d].begun => form[d].is.ans = typed
    /\ pending[d] # Nothing => pending[d].ans = typed
    /\ job[d].at # "idle" => job[d].of.ans = typed
    /\ fresher[d] /\ local[d] # Nothing /\ draft # Nothing => draft = local[d]
    /\ Fine(Chosen(d)) \/ (form[d].begun /\ (pending[d] # Nothing \/ job[d].at = "clear"))
    /\ Is(typed, saved[d]) => Fine(Chosen(d))
    /\ job[d].at = "clear" => Fine(local[d])
OneDevice == \A d \in Devices : opened \subseteq {d} => Alone(d)

Inv == Bounded /\ UnopenedRest /\ (mishaps = {} => AtWork /\ Kept /\ OneDevice)

LEMMA KeptInit == Init => Inv
<1> SUFFICES ASSUME Init PROVE Inv
  OBVIOUS
<1>1. /\ typed \in {0, 1} /\ section = Blank /\ opened = {}
      /\ typed = 0 => draft = Nothing
      /\ typed = 1 => Is(1, draft)
  BY BlankTypes, SurveyAssumption DEF Init, Is
<1>2. ASSUME NEW d \in Devices
      PROVE  /\ local[d] \in {Nothing, draft} /\ loaded[d] = Nothing /\ pending[d] = Nothing
             /\ saved[d] = Nothing /\ puts[d] = {} /\ form[d] = Unopened /\ job[d] = NoJob /\ page[d] = Blank
  BY DEF Init
<1>3. /\ Unopened.is.ans = 0 /\ ~Unopened.open /\ ~Unopened.begun
      /\ NoJob.of.ans = 0 /\ NoJob.at = "idle" /\ Blank.ans = 0
  BY BlankTypes DEF Unopened, NoJob, Blank
<1>4. Bounded
  BY <1>1, <1>2, <1>3 DEF Bounded, AtMost, Is
<1>5. UnopenedRest
  BY <1>1, <1>2, <1>3 DEF UnopenedRest
<1>6. AtWork
  BY <1>2, <1>3 DEF AtWork
<1>7. Kept
  <2>1. CASE typed = 0
    BY <1>1, <1>2, <1>3, <2>1 DEF Kept, Settled
  <2>2. CASE typed = 1
    <3>1. \A d \in Devices : Shows(d)
      BY <1>2, <1>3 DEF Shows
    <3>2. Drafted
      BY <1>1, <1>2, <2>2, <3>1 DEF Drafted, Is
    <3>3. QED
      BY <3>2 DEF Kept
  <2>3. QED
    BY <1>1, <2>1, <2>2
<1>8. OneDevice
  <2> SUFFICES ASSUME NEW d \in Devices PROVE Alone(d)
    BY DEF OneDevice
  <2>1. Fine(Chosen(d)) /\ Fine(local[d])
    BY <1>1, <1>2 DEF Fine, Chosen, Is
  <2>2. QED
    BY <1>1, <1>2, <1>3, <2>1 DEF Alone, Is
<1>9. QED
  BY <1>4, <1>5, <1>6, <1>7, <1>8 DEF Inv

LEMMA BoundedStep == TypeOK /\ Bounded /\ Next => Bounded'
<1> SUFFICES ASSUME TypeOK, Bounded, Next PROVE Bounded'
  OBVIOUS
<1> DEFINE S == {p \in Payload \cup {Nothing} : AtMost(typed', p)}
           HoldsNow(d) == Holds(S, form[d], job[d], {local[d], loaded[d], pending[d], saved[d]}, puts[d])
           HoldsNext(d) == Holds(S, form'[d], job'[d], {local'[d], loaded'[d], pending'[d], saved'[d]}, puts'[d])
<1>1. typed \in Nat /\ typed' \in Nat /\ typed =< typed'
  <2>1. ASSUME NEW d \in Devices, Fill(d) \/ Keep(d) PROVE typed' = typed \/ typed' = typed + 1
    BY <2>1 DEF Fill, Open, Begin, Type, Turn, Close, Submit, Keep, Load, LoadFails, Show, TimerFires, Hide, Put,
                PutLost, given
  <2>2. ASSUME NEW d \in Devices, Attach(d) \/ Hand(d) PROVE typed' = typed
    BY <2>2, EditStep, HandStep
  <2>3. typed \in Nat /\ (typed' = typed \/ typed' = typed + 1)
    BY <2>1, <2>2, BlankTypes, CleanUpKeeps DEF TypeOK, Next
  <2>4. QED
    BY <2>3
<1>2. \A d \in Devices : /\ form[d].is \in Payload /\ job[d].of \in Payload /\ puts[d] \subseteq Payload
                         /\ local[d] \in Payload \cup {Nothing} /\ loaded[d] \in Payload \cup {Nothing}
                         /\ pending[d] \in Payload \cup {Nothing} /\ saved[d] \in Payload \cup {Nothing}
                         /\ page[d] \in Content
  BY DEF TypeOK, Form, Submission
<1>3. \A p \in Payload : p.ans \in Nat
  BY BlankTypes DEF Payload
<1>4. \A p \in Payload \cup {Nothing} : AtMost(typed, p) => p \in S
  BY <1>1, <1>3 DEF AtMost
<1>5. draft \in S /\ Nothing \in S /\ Empty \in S
  BY <1>1, <1>4, BlankTypes DEF Bounded, AtMost, TypeOK
<1>6. \A p \in Payload : p \in S <=> p.ans =< typed'
  BY SurveyAssumption DEF AtMost
<1> HIDE DEF S
<1>7. \A d \in Devices : HoldsNow(d)
  BY <1>2, <1>4 DEF Bounded, Holds
<1>8. \A is, p \in S \cap Payload : Restore(is, p) \in S
  BY <1>6, RestoreType
<1>9. section.ans =< typed' /\ \A d \in Devices : page[d].ans =< typed'
  <2>1. section.ans \in Nat /\ \A d \in Devices : page[d].ans \in Nat
    BY BlankTypes DEF TypeOK, Content
  <2>2. QED
    BY <1>1, <2>1 DEF Bounded
<1>10. ASSUME NEW d \in Devices, Begin(d) \/ Attach(d) \/ Open(d) \/ Type(d) PROVE form'[d].is \in S
  <2>0. form'[d].is \in Payload
    BY <1>10, TypeStep DEF TypeOK, Form
  <2>1. form[d].is.ans =< typed'
    BY <1>2, <1>6, <1>7 DEF Holds
  <2>2. CASE Begin(d) \/ Attach(d)
    BY <1>6, <2>0, <2>1, <2>2, EditStep
  <2>3. CASE Open(d)
    <3>1. loaded[d] # Nothing => loaded[d].ans =< typed'
      BY <1>2, <1>6, <1>7 DEF Holds
    <3>2. form'[d].is.ans = page[d].ans \/ (loaded[d] # Nothing /\ form'[d].is.ans = loaded[d].ans)
      BY <2>3, OpenStep
    <3>3. QED
      BY <1>6, <1>9, <2>0, <3>1, <3>2
  <2>4. CASE Type(d)
    <3>1. form'[d].is = [form[d].is EXCEPT !.ans = typed'] /\ typed' = typed + 1
      BY <2>4 DEF Type, Change, TypeOK, Form
    <3>2. form'[d].is.ans = typed'
      BY <1>2, <3>1 DEF Payload
    <3>3. QED
      BY <1>1, <1>6, <2>0, <3>2
  <2>5. QED
    BY <1>10, <2>2, <2>3, <2>4
<1>11. ASSUME NEW d \in Devices, Fill(d) \/ Keep(d) \/ Attach(d) \/ Hand(d)
      PROVE  draft' \in S /\ \A e \in Devices : HoldsNext(e)
  <2>1. draft' \in S /\ HoldsNext(d)
    BY <1>5, <1>7, <1>8, <1>10, <1>11, HeldStep
  <2>2. ASSUME NEW e \in Devices, e # d PROVE HoldsNext(e)
    BY <1>7, <1>11, <2>2, OthersKept
  <2>3. QED
    BY <2>1, <2>2
<1>12. draft' \in S /\ \A e \in Devices : HoldsNext(e)
  BY <1>5, <1>7, <1>11, CleanUpKeeps DEF Next
<1>13. section'.ans =< typed' /\ \A e \in Devices : page'[e].ans =< typed'
  <2>1. ASSUME NEW d \in Devices, SaveSection(d) PROVE section'.ans =< typed' /\ \A e \in Devices : page'[e].ans =< typed'
    <3>1. Merged(d).ans \in {job[d].of.ans, page[d].ans}
      BY DEF Merged
    <3>2. job[d].of.ans =< typed'
      BY <1>2, <1>6, <1>7 DEF Holds
    <3>3. QED
      BY <1>9, <2>1, <3>1, <3>2 DEF SaveSection, TypeOK
  <2>2. ASSUME NEW d \in Devices, Refresh(d) PROVE section'.ans =< typed' /\ \A e \in Devices : page'[e].ans =< typed'
    BY <1>9, <2>2 DEF Refresh, TypeOK
  <2>3. ASSUME NEW d \in Devices, Fill(d) \/ Keep(d) \/ Attach(d) PROVE UNCHANGED <<section, page>>
    BY <2>3, EditStep DEF Fill, Open, Type, Turn, Close, Submit,
       Keep, Load, LoadFails, Show, TimerFires, Hide, Put, PutLost
  <2>4. QED
    BY <1>9, <2>1, <2>2, <2>3, CleanUpKeeps, HandStep DEF Next
<1>14. QED
  BY <1>6, <1>12, <1>13 DEF Bounded, Holds, AtMost, S

LEMMA CalmBefore == Next /\ mishaps' = {} => mishaps = {}
<1> SUFFICES ASSUME Next, mishaps' = {} PROVE mishaps = {}
  OBVIOUS
<1>1. ASSUME NEW d \in Devices, Fill(d) PROVE mishaps = {}
  BY <1>1 DEF Fill, Open, Begin, Type, Turn, Close, Submit, Blame
<1>2. ASSUME NEW d \in Devices, Keep(d) PROVE mishaps = {}
  BY <1>2 DEF Keep, Load, LoadFails, Show, TimerFires, Hide, Put, PutLost, Blame
<1>3. ASSUME NEW d \in Devices, Attach(d) PROVE mishaps = {}
  BY <1>3 DEF Attach, Upload, Remove, Purge
<1>4. ASSUME NEW d \in Devices, Hand(d) PROVE mishaps = {}
  BY <1>4 DEF Hand, SaveSection, SaveFails, DeleteFile, Mark, MarkFails, DeleteDraft, Refresh, Blame
<1>5. QED
  BY <1>1, <1>2, <1>3, <1>4, CleanUpKeeps DEF Next

LEMMA OpenedStep ==
    ASSUME TypeOK, NEW d \in Devices, Fill(d) \/ Keep(d) \/ Attach(d) \/ Hand(d)
    PROVE  (Open(d) /\ opened' = opened \cup {d}) \/ (~Open(d) /\ opened' = opened) \/ opened' = opened
<1>1. CASE Fill(d)
  BY <1>1 DEF Fill, Open, Begin, Type, Turn, Close, Submit, given
<1>2. CASE Keep(d)
  BY <1>2 DEF Keep, Load, LoadFails, Show, TimerFires, Hide, Put, PutLost, given
<1>3. CASE Attach(d) \/ Hand(d)
  BY <1>3, EditStep, HandStep
<1>4. QED
  BY <1>1, <1>2, <1>3

\* A device on which the survey is not opened only loads drafts.
LEMMA UnopenedLoads ==
    ASSUME TypeOK, UnopenedRest, NEW d \in Devices, Fill(d) \/ Keep(d) \/ Attach(d) \/ Hand(d), d \notin opened'
    PROVE  d \notin opened /\ (Load(d) \/ LoadFails(d))
<1>1. d \notin opened /\ ~Open(d)
  BY OpenedStep, OpenStep
<1>2. ~form[d].open /\ pending[d] = Nothing /\ puts[d] = {} /\ job[d] = NoJob
  BY <1>1 DEF UnopenedRest
<1>3. ~Attach(d) /\ ~Hand(d)
  BY <1>2, EditStep, HandStep DEF NoJob
<1>4. ~Fill(d)
  BY <1>1, <1>2 DEF Fill, Begin, Type, Turn, Close, Submit, Editable
<1>5. QED
  BY <1>1, <1>2, <1>3, <1>4 DEF Keep, TimerFires, Hide

LEMMA UnopenedStep == TypeOK /\ UnopenedRest /\ Next => UnopenedRest'
<1> SUFFICES ASSUME TypeOK, UnopenedRest, Next, NEW e \in Devices, e \notin opened'
             PROVE  ~form'[e].open /\ ~form'[e].begun /\ pending'[e] = Nothing /\ puts'[e] = {} /\ job'[e] = NoJob
  BY DEF UnopenedRest
<1>1. ASSUME e \notin opened, form'[e] = form[e], pending'[e] = pending[e], puts'[e] = puts[e], job'[e] = job[e]
      PROVE  ~form'[e].open /\ ~form'[e].begun /\ pending'[e] = Nothing /\ puts'[e] = {} /\ job'[e] = NoJob
  BY <1>1 DEF UnopenedRest
<1>2. CASE CleanUp
  BY <1>1, <1>2, CleanUpKeeps
<1>3. ASSUME NEW d \in Devices, Fill(d) \/ Keep(d) \/ Attach(d) \/ Hand(d)
      PROVE  ~form'[e].open /\ ~form'[e].begun /\ pending'[e] = Nothing /\ puts'[e] = {} /\ job'[e] = NoJob
  <2>1. CASE e # d
    BY <1>1, <1>3, <2>1, OthersKept, OpenedStep
  <2>2. CASE e = d
    <3>1. e \notin opened /\ (Load(e) \/ LoadFails(e))
      BY <1>3, <2>2, UnopenedLoads
    <3>2. PICK p \in Payload \cup {Nothing} : Show(e, p)
      BY <3>1, ChosenType DEF Load, LoadFails, TypeOK
    <3>3. QED
      BY <3>1, <3>2, ShowStep DEF UnopenedRest
  <2>3. QED
    BY <2>1, <2>2
<1>4. QED
  BY <1>2, <1>3 DEF Next

\* What Load and LoadFails show.
LEMMA LoadStep ==
    ASSUME TypeOK, NEW d \in Devices, Load(d) \/ LoadFails(d)
    PROVE  \E p \in Payload \cup {Nothing} :
              /\ Show(d, p) /\ p \in {Chosen(d), local[d]}
              /\ saved'[d] = saved[d] \/ (saved'[d] = p /\ p = Chosen(d))
<1>1. CASE Load(d)
  BY <1>1, ChosenType DEF Load, TypeOK
<1>2. CASE LoadFails(d)
  BY <1>2 DEF LoadFails, TypeOK
<1>3. QED
  BY <1>1, <1>2

LEMMA AtWorkStep ==
    ASSUME TypeOK, Bounded, AtWork, Next, mishaps' = {}
    PROVE  AtWork'
<1> DEFINE W(d) == /\ job'[d].at = "idle" => job'[d] = NoJob
                   /\ job'[d].at # "idle" =>
                         form'[d].begun /\ (job'[d].of.ans = typed' => form'[d].is.ans = typed')
<1>1. ASSUME NEW d \in Devices, job'[d] = job[d], form'[d] = form[d], typed' = typed PROVE W(d)
  BY <1>1 DEF AtWork
<1>2. ASSUME NEW d \in Devices, NEW e \in Devices, e # d, Fill(d) \/ Keep(d) \/ Attach(d) \/ Hand(d) PROVE W(e)
  <2>1. form'[e] = form[e] /\ job'[e] = job[e]
    BY <1>2, OthersKept
  <2>2. CASE Type(d)
    <3>1. typed' = typed + 1 /\ typed \in Nat /\ job[e].of.ans \in Nat /\ job[e].of.ans =< typed
      BY <2>2, BlankTypes, SurveyAssumption DEF Type, Bounded, AtMost, TypeOK, Submission, Payload
    <3>2. job'[e].of.ans # typed'
      BY <2>1, <3>1
    <3>3. QED
      BY <2>1, <3>2 DEF AtWork
  <2>3. CASE ~Type(d)
    <3>1. typed' = typed
      BY <1>2, <2>3, EditStep, HandStep DEF Fill, Open, Begin, Turn, Close, Submit, Keep, Load, LoadFails, Show,
         TimerFires, Hide, Put, PutLost, given
    <3>2. QED
      BY <1>1, <2>1, <3>1
  <2>4. QED
    BY <2>2, <2>3
<1>3. ASSUME NEW d \in Devices, Fill(d) PROVE W(d)
  <2>1. CASE Open(d)
    BY <2>1, OpenStep DEF NoJob
  <2>2. CASE Begin(d)
    BY <2>2, EditStep DEF AtWork
  <2>3. CASE Type(d)
    <3>1. job'[d] = NoJob
      BY <2>3 DEF Type, Blame
    <3>2. QED
      BY <3>1 DEF NoJob
  <2>4. CASE Turn(d)
    BY <1>1, <2>4 DEF Turn, view, given
  <2>5. CASE Close(d)
    <3>1. form'[d].is = form[d].is /\ (form'[d].begun <=> form[d].begun)
      BY <2>5 DEF Close, TypeOK, Form
    <3>2. QED
      BY <2>5, <3>1 DEF Close, AtWork, given
  <2>6. CASE Submit(d)
    BY <2>6 DEF Submit, Editable, TypeOK, view, given
  <2>7. QED
    BY <1>3, <2>1, <2>2, <2>3, <2>4, <2>5, <2>6 DEF Fill
<1>4. ASSUME NEW d \in Devices, Keep(d) PROVE W(d)
  <2>1. CASE Load(d) \/ LoadFails(d)
    <3>1. PICK p \in Payload \cup {Nothing} : Show(d, p)
      BY <2>1, LoadStep
    <3>2. QED
      BY <3>1, ShowStep DEF AtWork
  <2>2. QED
    BY <1>1, <1>4, <2>1 DEF Keep, TimerFires, Hide, Put, PutLost, view, given
<1>5. ASSUME NEW d \in Devices, Attach(d) PROVE W(d)
  BY <1>5, EditStep DEF AtWork
<1>6. ASSUME NEW d \in Devices, Hand(d) PROVE W(d)
  <2>1. /\ job[d].at # "idle" /\ typed' = typed
        /\ form'[d].is = form[d].is /\ (form'[d].begun <=> form[d].begun)
    BY <1>6, HandStep
  <2>2. form[d].begun /\ (job[d].of.ans = typed => form[d].is.ans = typed)
    BY <2>1 DEF AtWork
  <2>3. job'[d] = NoJob \/ (job'[d].of = job[d].of /\ job'[d].at # "idle")
    BY <1>6, HandStep
  <2>4. CASE job'[d] = NoJob
    BY <2>4 DEF NoJob
  <2>5. CASE job'[d].of = job[d].of /\ job'[d].at # "idle"
    <3>1. form'[d].begun /\ (job'[d].of.ans = typed' => form'[d].is.ans = typed')
      BY <2>1, <2>2, <2>5
    <3>2. QED
      BY <2>5, <3>1
  <2>6. QED
    BY <2>3, <2>4, <2>5
<1>7. \A d \in Devices : W(d)
  BY <1>1, <1>2, <1>3, <1>4, <1>5, <1>6, CleanUpKeeps DEF Next
<1>8. QED
  BY <1>7 DEF AtWork

\* Only typing changes the last answer.
LEMMA SameAnswer ==
    ASSUME TypeOK, NEW d \in Devices, Fill(d) \/ Keep(d) \/ Attach(d) \/ Hand(d), ~Type(d)
    PROVE  typed' = typed /\ opened \subseteq opened'
<1>1. typed' = typed
  BY EditStep, HandStep DEF Fill, Open, Begin, Turn, Close, Submit, Keep, Load, LoadFails, Show,
     TimerFires, Hide, Put, PutLost, given
<1>2. opened \subseteq opened'
  BY OpenedStep
<1>3. QED
  BY <1>1, <1>2

\* A section save that is not blamed leaves the last answer in the project.
LEMMA SaveSettles ==
    ASSUME TypeOK, Bounded, UnopenedRest, AtWork, OneDevice, mishaps' = {},
           NEW d \in Devices, SaveSection(d), ~(job[d].of.ans = 0 /\ job[d].of.att = {})
    PROVE  Settled'
<1>1. /\ section' = Merged(d) /\ job[d].at = "save" /\ typed' = typed /\ form' = form
      /\ \/ opened \ {d} = {}
         \/ job[d].of.ans = typed /\ \A e \in Devices \ {d} : form[e].open => form[e].is.ans = typed
  BY DEF SaveSection, Elsewhere, given, view
<1>2. job[d].of.ans = typed /\ \A e \in Devices \ {d} : form[e].open => form[e].is.ans = typed
  <2>1. CASE opened \ {d} = {}
    <3>1. Alone(d)
      BY <2>1, BlankTypes DEF OneDevice, TypeOK
    <3>2. \A e \in Devices \ {d} : ~form[e].open
      BY <2>1 DEF UnopenedRest
    <3>3. QED
      BY <1>1, <3>1, <3>2 DEF Alone
  <2>2. QED
    BY <1>1, <2>1
<1>3. \A e \in Devices : form[e].open => form[e].is.ans = typed
  BY <1>1, <1>2 DEF AtWork
<1>4. Merged(d).ans = typed
  <2>1. CASE typed # 0
    BY <1>2, <2>1 DEF Merged
  <2>2. CASE typed = 0
    <3>1. page[d].ans \in Nat /\ page[d].ans =< 0
      BY <2>2, BlankTypes DEF Bounded, TypeOK, Content
    <3>2. QED
      BY <1>2, <2>2, <3>1 DEF Merged
  <2>3. QED
    BY <2>1, <2>2
<1>5. QED
  BY <1>1, <1>3, <1>4 DEF Settled

\* The project keeps the last answer, and open surveys show it.
LEMMA SettledStep ==
    ASSUME TypeOK, Bounded, UnopenedRest, AtWork, OneDevice, Settled, mishaps' = {},
           NEW d \in Devices, Fill(d) \/ Keep(d) \/ Attach(d) \/ Hand(d), ~Type(d)
    PROVE  Settled'
<1>1. typed' = typed /\ \A e \in Devices \ {d} : form'[e] = form[e]
  BY SameAnswer, OthersKept
<1>2. ASSUME section' = section, form'[d].open => form'[d].is.ans = typed PROVE Settled'
  BY <1>1, <1>2 DEF Settled
<1>3. form[d].open => form[d].is.ans = typed
  BY DEF Settled
<1>4. CASE Open(d)
  <2>1. page[d] = section
    <3>1. CASE opened \ {d} = {}
      BY <3>1 DEF OneDevice, Alone, TypeOK
    <3>2. QED
      BY <1>4, <3>1, OpenStep
  <2>2. QED
    BY <1>2, <1>4, <2>1, OpenStep DEF Settled
<1>5. CASE Load(d) \/ LoadFails(d)
  <2>1. PICK p \in Payload \cup {Nothing} : Show(d, p)
    BY <1>5, LoadStep
  <2>2. section' = section /\ p = Chosen(d) /\ (form'[d].open <=> form[d].open)
    BY <2>1, ShowStep
  <2>3. form[d].open => form'[d].is.ans = typed
    <3>1. CASE ~form[d].begun /\ opened \ {d} = {}
      <4>1. Alone(d)
        BY <3>1 DEF OneDevice, TypeOK
      <4>2. Fine(p)
        BY <2>2, <3>1, <4>1 DEF Alone
      <4>3. form'[d].is = IF form[d].open /\ p # Nothing THEN Restore(form[d].is, p) ELSE form[d].is
        BY <2>1, ShowStep
      <4>4. form[d].is \in Payload
        BY DEF TypeOK, Form
      <4>5. QED
        BY <1>3, <4>2, <4>3, <4>4, RestoreType DEF Fine
    <3>2. QED
      BY <1>3, <2>1, <3>1, ShowStep
  <2>4. QED
    BY <1>2, <2>2, <2>3
<1>6. CASE Begin(d) \/ Attach(d)
  BY <1>2, <1>3, <1>6, EditStep
<1>7. CASE Hand(d)
  <2>1. CASE SaveSection(d) /\ ~(job[d].of.ans = 0 /\ job[d].of.att = {})
    BY <2>1, SaveSettles
  <2>2. CASE ~(SaveSection(d) /\ ~(job[d].of.ans = 0 /\ job[d].of.att = {}))
    <3>1. section' = section
      BY <1>7, <2>2, HandStep DEF SaveSection
    <3>2. QED
      BY <1>2, <1>3, <1>7, <3>1, HandStep
  <2>3. QED
    BY <2>1, <2>2
<1>8. CASE Close(d)
  <2>1. form'[d].is = form[d].is /\ section' = section /\ ~form'[d].open
    BY <1>8 DEF Close, TypeOK, Form
  <2>2. QED
    BY <1>2, <2>1
<1>9. CASE Turn(d) \/ Submit(d) \/ TimerFires(d) \/ Hide(d) \/ \E p \in puts[d] : Put(d, p) \/ PutLost(d, p)
  BY <1>2, <1>3, <1>9 DEF Turn, Submit, TimerFires, Hide, Put, PutLost, view
<1>10. QED
  BY <1>4, <1>5, <1>6, <1>7, <1>8, <1>9 DEF Fill, Keep

\* The survey of d goes on showing the last answer, whatever d does but type,
\* provided that a draft it would load is not an older one; or the answer has
\* been saved in the project.
LEMMA ShowsStep ==
    ASSUME TypeOK, Bounded, UnopenedRest, AtWork, OneDevice, mishaps' = {},
           NEW d \in Devices, Fill(d) \/ Keep(d) \/ Attach(d) \/ Hand(d), ~Type(d),
           typed # 0, Shows(d),
           form[d].open /\ ~form[d].begun =>
              Is(typed, Chosen(d)) \/ (opened \ {d} # {} /\ Is(typed, local[d]))
    PROVE  Shows(d)' \/ Settled'
<1>1. typed' = typed
  BY SameAnswer
<1>2. /\ form[d].begun => form[d].is.ans = typed
      /\ form[d].open /\ ~form[d].begun => asking[d]
      /\ pending[d] # Nothing => pending[d].ans = typed
      /\ job[d].at \in {"idle", "save"} /\ (job[d].at = "save" => job[d].of.ans = typed)
  BY DEF Shows
<1>3. ASSUME /\ form'[d].begun => form'[d].is.ans = typed
             /\ form'[d].open /\ ~form'[d].begun => asking'[d]
             /\ pending'[d] # Nothing => pending'[d].ans = typed
             /\ job'[d] = job[d]
      PROVE  Shows(d)'
  BY <1>1, <1>2, <1>3 DEF Shows
<1> HIDE <1>3
<1>4. CASE Open(d)
  <2>1. /\ form'[d].begun => form'[d].is.ans = typed
        /\ asking'[d] /\ job'[d] = job[d]
    BY <1>4, OpenStep
  <2>2. pending'[d] # Nothing => pending'[d].ans = typed
    BY <1>2, <1>4, <2>1, OpenStep
  <2>3. QED
    BY <1>3, <2>1, <2>2
<1>5. CASE Load(d) \/ LoadFails(d)
  <2>1. PICK p \in Payload \cup {Nothing} : Show(d, p)
    BY <1>5, LoadStep
  <2>2. /\ p = Chosen(d) /\ job'[d] = job[d]
        /\ form'[d].open <=> form[d].open
        /\ form'[d].begun <=> form[d].begun \/ (form[d].open /\ p # Nothing)
        /\ form'[d].is = IF form[d].open /\ p # Nothing THEN Restore(form[d].is, p) ELSE form[d].is
        /\ pending'[d] = pending[d] \/ (form'[d].begun /\ pending'[d] = form'[d].is)
    BY <2>1, ShowStep
  <2>3. form[d].begun => form'[d].is.ans = typed
    BY <1>2, <2>1, ShowStep
  <2>4. form[d].open /\ ~form[d].begun => p # Nothing /\ form'[d].is.ans = typed
    <3> SUFFICES ASSUME form[d].open, ~form[d].begun PROVE p # Nothing /\ form'[d].is.ans = typed
      OBVIOUS
    <3>1. CASE Is(typed, Chosen(d))
      <4>1. p # Nothing /\ p.ans = typed /\ form[d].is \in Payload
        BY <2>2, <3>1 DEF Is, TypeOK, Form
      <4>2. QED
        BY <2>2, <4>1, RestoreType
    <3>2. CASE opened \ {d} # {} /\ Is(typed, local[d])
      <4>1. form'[d].is.ans = typed
        BY <2>1, <3>2, ShowStep DEF Is
      <4>2. p # Nothing
        BY <2>2, <3>2 DEF Chosen, Is
      <4>3. QED
        BY <4>1, <4>2
    <3>3. QED
      BY <3>1, <3>2
  <2>5. form'[d].begun => form'[d].is.ans = typed
    BY <2>2, <2>3, <2>4
  <2>6. form'[d].open /\ ~form'[d].begun => asking'[d]
    BY <2>2, <2>4
  <2>7. pending'[d] # Nothing => pending'[d].ans = typed
    BY <1>2, <2>2, <2>5
  <2>8. QED
    BY <1>3, <2>2, <2>5, <2>6, <2>7
<1>6. CASE Begin(d) \/ Attach(d)
  <2>1. form[d].begun
    BY <1>2, <1>6, EditStep
  <2>2. form'[d].is.ans = typed /\ form'[d].begun /\ pending'[d] = form'[d].is /\ job'[d] = job[d]
    BY <1>2, <1>6, <2>1, EditStep
  <2>3. QED
    BY <1>3, <2>2
<1>7. CASE Hand(d)
  <2>1. job[d].at = "save"
    BY <1>2, <1>7, HandStep
  <2>2. SaveSection(d) \/ SaveFails(d)
    BY <1>7, <2>1 DEF Hand, DeleteFile, Mark, MarkFails, DeleteDraft, Refresh
  <2>3. SaveSection(d)
    BY <2>2 DEF SaveFails, Blame
  <2>4. QED
    BY <1>2, <2>1, <2>3, SaveSettles
<1>8. CASE Close(d)
  <2>1. form'[d].is = form[d].is /\ (form'[d].begun <=> form[d].begun) /\ ~form'[d].open
    BY <1>8 DEF Close, TypeOK, Form
  <2>2. pending'[d] = pending[d] /\ job'[d] = job[d]
    BY <1>8 DEF Close, saving
  <2>3. QED
    BY <1>2, <1>3, <2>1, <2>2
<1>9. CASE Submit(d)
  <2>1. form' = form /\ asking' = asking /\ pending' = pending
    BY <1>9 DEF Submit, view, saving
  <2>2. job'[d].at = "save" /\ job'[d].of.ans = typed
    BY <1>2, <1>9 DEF Submit, Editable, TypeOK
  <2>3. QED
    BY <1>1, <1>2, <2>1, <2>2 DEF Shows
<1>10. CASE Turn(d) \/ TimerFires(d) \/ Hide(d) \/ \E p \in puts[d] : Put(d, p) \/ PutLost(d, p)
  <2>1. form' = form /\ asking' = asking /\ job' = job /\ pending'[d] \in {Nothing, pending[d]}
    BY <1>10 DEF Turn, TimerFires, Hide, Put, PutLost, view, TypeOK
  <2>2. QED
    BY <1>2, <1>3, <2>1
<1>11. QED
  BY <1>4, <1>5, <1>6, <1>7, <1>8, <1>9, <1>10 DEF Fill, Keep

\* What is stored as a draft: the answers the survey shows, or those that wait
\* to be saved.
LEMMA WriteStep ==
    ASSUME TypeOK, NEW d \in Devices, Fill(d) \/ Keep(d) \/ Attach(d) \/ Hand(d)
    PROVE  /\ \/ local'[d] = local[d] \/ Mark(d)
              \/ form[d].begun /\ local'[d] = form[d].is
              \/ pending[d] # Nothing /\ local'[d] = pending[d]
           /\ \A p \in puts'[d] : \/ p \in puts[d]
                                  \/ form[d].begun /\ p = form[d].is
                                  \/ pending[d] # Nothing /\ p = pending[d]
           /\ draft' = draft \/ draft' \in puts[d] \/ DeleteDraft(d)
<1>1. CASE Turn(d)
  <2>1. Persist(d, form[d].is) /\ form[d].begun /\ form[d].is \in Payload /\ draft' = draft
    BY <1>1 DEF Turn, Editable, TypeOK, Form
  <2>2. QED
    BY <2>1, PersistStep
<1>2. CASE TimerFires(d)
  <2>1. Persist(d, pending[d]) /\ pending[d] # Nothing /\ pending[d] \in Payload /\ draft' = draft
    BY <1>2 DEF TimerFires, TypeOK
  <2>2. QED
    BY <2>1, PersistStep
<1>3. CASE Hide(d)
  BY <1>3 DEF Hide, WriteLocal, TypeOK
<1>4. ASSUME NEW p \in puts[d], Put(d, p) \/ PutLost(d, p)
      PROVE  local' = local /\ puts'[d] \subseteq puts[d] /\ draft' \in {draft, p}
  BY <1>4 DEF Put, PutLost, TypeOK, drafts
<1>5. CASE Hand(d)
  BY <1>5, HandStep
<1>6. CASE Begin(d) \/ Attach(d)
  BY <1>6, EditStep
<1>7. CASE Open(d) \/ Type(d) \/ Close(d) \/ Submit(d) \/ Load(d) \/ LoadFails(d)
  BY <1>7 DEF Open, Type, Close, Submit, Load, LoadFails, Show, drafts, saving
<1>8. QED
  BY <1>1, <1>2, <1>3, <1>4, <1>5, <1>6, <1>7 DEF Fill, Keep

\* While all drafts have the last answer, only this answer is saved.
LEMMA DraftedStep ==
    ASSUME TypeOK, Bounded, UnopenedRest, AtWork, OneDevice, Drafted, mishaps' = {},
           NEW d \in Devices, Fill(d) \/ Keep(d) \/ Attach(d) \/ Hand(d), ~Type(d)
    PROVE  Drafted' \/ Settled'
<1>1. typed' = typed /\ typed # 0
  BY SameAnswer DEF Drafted
<1>2. Shows(d) /\ (local[d] # Nothing => Is(typed, local[d])) /\ (\A p \in puts[d] : Is(typed, p)) /\ Is(typed, draft)
  BY DEF Drafted
<1>3. Is(typed, Chosen(d))
  BY <1>2 DEF Chosen, Is
<1>4. Shows(d)' \/ Settled'
  BY <1>1, <1>2, <1>3, ShowsStep
<1>5. ~Mark(d) /\ ~DeleteDraft(d)
  BY <1>2 DEF Shows, Mark, DeleteDraft
<1>6. form[d].is # Nothing /\ (form[d].begun => form[d].is.ans = typed) /\ (pending[d] # Nothing => pending[d].ans = typed)
  BY <1>2, SurveyAssumption DEF Shows, TypeOK, Form
<1>7. Is(typed, draft') /\ (local'[d] # Nothing => Is(typed, local'[d])) /\ \A p \in puts'[d] : Is(typed, p)
  BY <1>2, <1>5, <1>6, WriteStep DEF Is
<1>8. ASSUME NEW e \in Devices, e # d
      PROVE  Shows(e)' /\ (local'[e] # Nothing => Is(typed, local'[e])) /\ \A p \in puts'[e] : Is(typed, p)
  BY <1>1, <1>8, OthersKept DEF Drafted, Shows
<1>9. QED
  BY <1>1, <1>4, <1>7, <1>8 DEF Drafted

\* The only device that knows the last answer saves it before it takes anything
\* else for the survey.
LEMMA FreshStep ==
    ASSUME TypeOK, Bounded, UnopenedRest, AtWork, OneDevice, mishaps' = {},
           NEW d \in Devices, Fill(d) \/ Keep(d) \/ Attach(d) \/ Hand(d), ~Type(d),
           typed # 0, Shows(d), Fresh(d)
    PROVE  Is(typed', local'[d]) \/ Fresh(d)' \/ Settled'
<1>1. typed' = typed /\ form[d].is.ans = typed /\ form[d].is \in Payload /\ form[d].is # Nothing
  BY SameAnswer, SurveyAssumption DEF Shows, Fresh, TypeOK, Form
<1>2. /\ Is(typed, pending[d]) /\ form[d].begun
      /\ section.ans # typed /\ ~Is(typed, draft)
      /\ ~Is(typed, saved[d]) /\ ~Is(typed, loaded[d]) /\ ~Is(typed, local[d]) /\ \A p \in puts[d] : ~Is(typed, p)
      /\ \A e \in Devices : page[e].ans # typed
  BY DEF Fresh
<1>3. \A e \in Devices \ {d} :
         /\ ~Is(typed, local'[e]) /\ ~Is(typed, loaded'[e]) /\ ~Is(typed, pending'[e]) /\ ~Is(typed, saved'[e])
         /\ form'[e].is.ans # typed /\ job'[e].of.ans # typed /\ \A p \in puts'[e] : ~Is(typed, p)
  BY OthersKept DEF Fresh
<1>4. ASSUME Is(typed, pending'[d]), form'[d].begun, UNCHANGED <<section, page>>, ~Is(typed, draft'),
             ~Is(typed, saved'[d]), ~Is(typed, loaded'[d]), ~Is(typed, local'[d]), puts'[d] \subseteq puts[d]
      PROVE  Fresh(d)'
  BY <1>1, <1>2, <1>3, <1>4 DEF Fresh
<1> HIDE <1>4
<1>5. CASE Open(d)
  BY <1>2, <1>5, OpenStep DEF Is
<1>6. CASE Load(d) \/ LoadFails(d)
  <2>1. PICK p \in Payload \cup {Nothing} : Show(d, p) /\ p \in {Chosen(d), local[d]} /\ saved'[d] \in {saved[d], p}
    BY <1>6, LoadStep
  <2>2. ~Is(typed, p)
    BY <1>2, <2>1 DEF Chosen
  <2>3. UNCHANGED <<draft, section, local, page, puts>> /\ loaded'[d] = p /\ form'[d].begun
    BY <1>2, <2>1, ShowStep
  <2>4. form'[d].is.ans = typed /\ form'[d].is # Nothing
    BY <1>1, <1>2, <2>1, SurveyAssumption, ShowStep DEF Form
  <2>5. Is(typed, pending'[d])
    BY <1>2, <2>1, <2>4, ShowStep DEF Is
  <2>6. QED
    BY <1>2, <1>4, <2>1, <2>2, <2>3, <2>5
<1>7. CASE Begin(d) \/ Attach(d)
  <2>1. form'[d].is.ans = typed /\ form'[d].is # Nothing /\ pending'[d] = form'[d].is /\ form'[d].begun
    BY <1>1, <1>7, SurveyAssumption, EditStep DEF Form
  <2>2. UNCHANGED <<draft, section, local, page, loaded, saved, puts>>
    BY <1>7, EditStep
  <2>3. QED
    BY <1>2, <1>4, <2>1, <2>2 DEF Is
<1>8. CASE Turn(d)
  <2>1. Persist(d, form[d].is)
    BY <1>8 DEF Turn
  <2>2. QED
    BY <1>1, <1>2, <2>1, PersistStep DEF Is
<1>9. CASE TimerFires(d)
  <2>1. Persist(d, pending[d]) /\ pending[d] \in Payload
    BY <1>9 DEF TimerFires, TypeOK
  <2>2. QED
    BY <1>1, <1>2, <2>1, PersistStep DEF Is
<1>10. CASE Hide(d)
  BY <1>1, <1>2, <1>10 DEF Hide, WriteLocal, TypeOK
<1>11. CASE Close(d)
  <2>1. form'[d].begun
    BY <1>2, <1>11 DEF Close, TypeOK, Form
  <2>2. QED
    BY <1>2, <1>4, <1>11, <2>1 DEF Close, drafts, saving
<1>12. CASE Submit(d)
  BY <1>2, <1>4, <1>12 DEF Submit, drafts, view, saving
<1>13. ASSUME NEW p \in puts[d], Put(d, p) \/ PutLost(d, p) PROVE Fresh(d)'
  <2>1. puts'[d] \subseteq puts[d] /\ draft' \in {draft, p}
    BY <1>13 DEF Put, PutLost, TypeOK, drafts
  <2>2. QED
    BY <1>2, <1>4, <1>13, <2>1 DEF Put, PutLost, view
<1>14. CASE Hand(d)
  <2>1. job[d].at = "save" /\ job[d].of.ans = typed
    BY <1>14, HandStep DEF Shows
  <2>2. SaveSection(d) \/ SaveFails(d)
    BY <1>14, <2>1 DEF Hand, DeleteFile, Mark, MarkFails, DeleteDraft, Refresh
  <2>3. SaveSection(d)
    BY <2>2 DEF SaveFails, Blame
  <2>4. QED
    BY <2>1, <2>3, SaveSettles
<1>15. QED
  BY <1>5, <1>6, <1>7, <1>8, <1>9, <1>10, <1>11, <1>12, <1>13, <1>14 DEF Fill, Keep

LEMMA KeptByOwn ==
    ASSUME TypeOK, Bounded, UnopenedRest, AtWork, OneDevice, mishaps' = {},
           NEW d \in Devices, Fill(d) \/ Keep(d) \/ Attach(d) \/ Hand(d), ~Type(d), KeptBy(d)
    PROVE  KeptBy(d)' \/ Settled'
<1>1. typed' = typed /\ typed # 0 /\ Shows(d) /\ d \in opened' /\ (Is(typed, local[d]) \/ Fresh(d))
  BY SameAnswer DEF KeptBy
<1>2. Shows(d)' \/ Settled'
  <2>1. ASSUME form[d].open, ~form[d].begun
        PROVE  Is(typed, Chosen(d)) \/ (opened \ {d} # {} /\ Is(typed, local[d]))
    <3>1. Is(typed, local[d])
      BY <1>1, <2>1 DEF Fresh
    <3>2. CASE opened \ {d} = {}
      <4>1. Alone(d)
        BY <3>2 DEF OneDevice, TypeOK
      <4>2. Chosen(d) = local[d]
        BY <3>1, <4>1 DEF Alone, Chosen, Is, TypeOK
      <4>3. QED
        BY <3>1, <4>2
    <3>3. QED
      BY <3>1, <3>2
  <2>2. QED
    BY <1>1, <2>1, ShowsStep
<1>3. Is(typed', local'[d]) \/ Fresh(d)' \/ Settled'
  <2>1. CASE Is(typed, local[d])
    <3>1. ~Mark(d)
      BY <1>1 DEF Shows, Mark
    <3>2. form[d].is # Nothing /\ (form[d].begun => form[d].is.ans = typed)
          /\ (pending[d] # Nothing => pending[d].ans = typed)
      BY <1>1, SurveyAssumption DEF Shows, TypeOK, Form
    <3>3. QED
      BY <1>1, <2>1, <3>1, <3>2, WriteStep DEF Is
  <2>2. QED
    BY <1>1, <2>1, FreshStep
<1>4. QED
  BY <1>1, <1>2, <1>3 DEF KeptBy

\* What the others do leaves the device that has the last answer alone: they do
\* not know the answer, and can save no section in its place.
LEMMA KeptByOther ==
    ASSUME TypeOK, UnopenedRest, mishaps' = {}, NEW t \in Devices, KeptBy(t),
           NEW d \in Devices \ {t}, Fill(d) \/ Keep(d) \/ Attach(d) \/ Hand(d), ~Type(d)
    PROVE  KeptBy(t)'
<1>1. typed' = typed /\ typed # 0 /\ t \in opened /\ t \in opened' /\ Shows(t)
  BY SameAnswer DEF KeptBy
<1>2. Shows(t)'
  BY <1>1, OthersKept DEF Shows
<1>3. CASE Is(typed, local[t])
  BY <1>1, <1>2, <1>3, OthersKept DEF KeptBy
<1>4. CASE Fresh(t)
  <2> DEFINE S == {p \in Payload \cup {Nothing} : ~Is(typed, p)}
  <2>1. /\ form[d].is \in Payload /\ job[d].of \in Payload /\ puts[d] \subseteq Payload
        /\ local[d] \in Payload \cup {Nothing} /\ loaded[d] \in Payload \cup {Nothing}
        /\ pending[d] \in Payload \cup {Nothing} /\ saved[d] \in Payload \cup {Nothing}
    BY DEF TypeOK, Form, Submission
  <2>2. /\ section.ans # typed /\ ~Is(typed, draft)
        /\ ~Is(typed, local[d]) /\ ~Is(typed, loaded[d]) /\ ~Is(typed, pending[d]) /\ ~Is(typed, saved[d])
        /\ form[d].is.ans # typed /\ job[d].of.ans # typed /\ \A p \in puts[d] : ~Is(typed, p)
        /\ \A e \in Devices : page[e].ans # typed
    BY <1>4 DEF Fresh
  <2>3. \A p \in Payload : p \in S <=> p.ans # typed
    BY SurveyAssumption DEF Is
  <2>4. Nothing \in S /\ Empty \in S /\ draft \in S
    BY <1>1, <2>2, <2>3, BlankTypes DEF Is, TypeOK
  <2>5. local[d] \in S /\ loaded[d] \in S /\ pending[d] \in S /\ saved[d] \in S /\ puts[d] \subseteq S
    BY <2>1, <2>2
  <2>6. form[d].is \in S /\ job[d].of \in S
    BY <2>1, <2>2, <2>3
  <2>7. \A p \in S : ~Is(typed, p)
    OBVIOUS
  <2> HIDE DEF S
  <2>8. Holds(S, form[d], job[d], {local[d], loaded[d], pending[d], saved[d]}, puts[d])
    BY <2>5, <2>6 DEF Holds
  <2>9. \A is, p \in S \cap Payload : Restore(is, p) \in S
    BY <2>3, RestoreType
  <2>10. Begin(d) \/ Attach(d) \/ Open(d) => form'[d].is \in S
    <3>1. CASE Begin(d) \/ Attach(d)
      <4>1. form'[d].is.ans # typed /\ form'[d].is \in Payload
        BY <2>2, <3>1, EditStep DEF Form
      <4>2. QED
        BY <2>3, <4>1
    <3>2. CASE Open(d)
      <4>1. form'[d].is \in Payload
        BY <3>2, OpenStep
      <4>2. form'[d].is.ans = page[d].ans \/ (loaded[d] # Nothing /\ form'[d].is.ans = loaded[d].ans)
        BY <3>2, OpenStep
      <4>3. form'[d].is.ans # typed
        BY <2>2, <4>2 DEF Is
      <4>4. QED
        BY <2>3, <4>1, <4>3
    <3>3. QED
      BY <3>1, <3>2
  <2>11. /\ draft' \in S
         /\ Holds(S, form'[d], job'[d], {local'[d], loaded'[d], pending'[d], saved'[d]}, puts'[d])
    BY <2>4, <2>8, <2>9, <2>10, HeldStep
  <2>12. form'[d].is \in Payload /\ job'[d].of \in Payload
    <3>1. TypeOK'
      <4>1. Next
        BY DEF Next
      <4>2. QED
        BY <4>1, TypeStep
    <3>2. QED
      BY <3>1 DEF TypeOK, Form, Submission
  <2>13. /\ ~Is(typed, draft')
         /\ ~Is(typed, local'[d]) /\ ~Is(typed, loaded'[d]) /\ ~Is(typed, pending'[d]) /\ ~Is(typed, saved'[d])
         /\ form'[d].is.ans # typed /\ job'[d].of.ans # typed /\ \A p \in puts'[d] : ~Is(typed, p)
    BY <2>3, <2>7, <2>11, <2>12 DEF Holds
  <2>14. section' = section /\ \A e \in Devices : page'[e].ans # typed
    <3>1. SaveSection(d) => UNCHANGED <<section, page>>
      <4>1. opened \ {d} # {}
        BY <1>1
      <4>2. QED
        BY <2>2, <4>1 DEF SaveSection, Elsewhere
    <3>2. CASE Hand(d)
      <4>1. CASE Refresh(d)
        <5>1. section' = section /\ (page' = page \/ page' = [page EXCEPT ![d] = section])
          BY <4>1 DEF Refresh
        <5>2. QED
          BY <2>2, <5>1 DEF TypeOK
      <4>2. QED
        BY <2>2, <3>1, <3>2, <4>1, HandStep
    <3>3. CASE Fill(d) \/ Keep(d) \/ Attach(d)
      <4>1. UNCHANGED <<section, page>>
        BY <3>3, EditStep DEF Fill, Open, Turn, Close, Submit, Keep, Load, LoadFails, Show, TimerFires,
           Hide, Put, PutLost
      <4>2. QED
        BY <2>2, <4>1
    <3>4. QED
      BY <3>2, <3>3
  <2>15. /\ Is(typed, pending'[t]) /\ form'[t].begun
         /\ ~Is(typed, saved'[t]) /\ ~Is(typed, loaded'[t]) /\ ~Is(typed, local'[t])
         /\ \A p \in puts'[t] : ~Is(typed, p)
    BY <1>4, OthersKept DEF Fresh
  <2>16. \A e \in Devices \ {t, d} :
            /\ ~Is(typed, local'[e]) /\ ~Is(typed, loaded'[e]) /\ ~Is(typed, pending'[e]) /\ ~Is(typed, saved'[e])
            /\ form'[e].is.ans # typed /\ job'[e].of.ans # typed /\ \A p \in puts'[e] : ~Is(typed, p)
    BY <1>4, OthersKept DEF Fresh
  <2>17. Fresh(t)'
    BY <1>1, <2>2, <2>13, <2>14, <2>15, <2>16 DEF Fresh
  <2>18. QED
    BY <1>1, <1>2, <2>17 DEF KeptBy
<1>5. QED
  BY <1>3, <1>4 DEF KeptBy

\* What typing does to the device.
LEMMA TypedShows ==
    ASSUME TypeOK, NEW d \in Devices, Type(d)
    PROVE  /\ form[d].open /\ form'[d].begun /\ form'[d].is.ans = typed'
           /\ Is(typed', pending'[d]) /\ typed' = typed + 1 /\ typed' # 0
           /\ \A e \in Devices \ {d} : form'[e] = form[e] /\ pending'[e] = pending[e]
<1>1. /\ form[d].open /\ form[d].begun /\ ~form[d].done
      /\ typed' = typed + 1 /\ Change(d, [form[d] EXCEPT !.is = [form[d].is EXCEPT !.ans = typed + 1]])
  BY DEF Type, Editable
<1>2. form[d] \in Form /\ form[d].is \in Payload /\ typed \in Nat /\ typed + 1 \in Answers
  BY BlankTypes, SurveyAssumption DEF TypeOK, Form, Type, Answers
<1> DEFINE is == [form[d].is EXCEPT !.ans = typed + 1]
           g == [form[d] EXCEPT !.is = is]
<1>3. is \in Payload /\ is.ans = typed + 1
  BY <1>2 DEF Payload
<1> HIDE DEF is
<1>4. g.is = is /\ (g.open <=> form[d].open) /\ (g.begun <=> form[d].begun) /\ (g.done <=> form[d].done)
  BY <1>2 DEF Form
<1>5. Change(d, g)
  BY <1>1 DEF is
<1> HIDE DEF g
<1>6. /\ form'[d] = g /\ pending'[d] = is
      /\ \A e \in Devices \ {d} : form'[e] = form[e] /\ pending'[e] = pending[e]
  BY <1>1, <1>4, <1>5 DEF Change, TypeOK
<1>7. Is(typed', pending'[d]) /\ typed' # 0
  BY <1>1, <1>2, <1>3, <1>6, SurveyAssumption DEF Is
<1>8. form'[d].is.ans = typed' /\ form'[d].begun
  <2>1. form'[d].is.ans = typed'
    BY <1>1, <1>3, <1>4, <1>6
  <2>2. form'[d].begun
    BY <1>1, <1>4, <1>6
  <2>3. QED
    BY <2>1, <2>2
<1>9. QED
  BY <1>1, <1>6, <1>7, <1>8

\* An answer that is typed is new, and about to be saved.
LEMMA TypedStep ==
    ASSUME TypeOK, Bounded, UnopenedRest, mishaps' = {}, NEW d \in Devices, Type(d)
    PROVE  KeptBy(d)'
<1>1. /\ job[d] = NoJob
      /\ UNCHANGED <<draft, section, local, page, loaded, saved, puts, job, opened>>
  BY DEF Type, Blame, drafts
<1>2. /\ form[d].open /\ form'[d].begun /\ form'[d].is.ans = typed'
      /\ Is(typed', pending'[d]) /\ typed' = typed + 1 /\ typed' # 0 /\ typed \in Nat
      /\ \A e \in Devices \ {d} : form'[e] = form[e] /\ pending'[e] = pending[e]
  BY BlankTypes, TypedShows DEF TypeOK
<1>3. d \in opened'
  BY <1>1, <1>2 DEF UnopenedRest
<1>4. Shows(d)'
  BY <1>1, <1>2 DEF Shows, NoJob, Is
<1>5. \A p \in Payload \cup {Nothing} : AtMost(typed, p) => ~Is(typed', p)
  <2>1. \A p \in Payload : p.ans \in Nat
    BY BlankTypes DEF Payload
  <2>2. QED
    BY <1>2, <2>1 DEF AtMost, Is
<1>6. /\ section.ans \in Nat /\ draft \in Payload \cup {Nothing}
      /\ \A e \in Devices :
            /\ page[e].ans \in Nat /\ form[e].is \in Payload /\ form[e].is # Nothing
            /\ job[e].of \in Payload /\ job[e].of # Nothing /\ puts[e] \subseteq Payload
            /\ local[e] \in Payload \cup {Nothing} /\ loaded[e] \in Payload \cup {Nothing}
            /\ pending[e] \in Payload \cup {Nothing} /\ saved[e] \in Payload \cup {Nothing}
  BY BlankTypes, SurveyAssumption DEF TypeOK, Form, Submission, Content
<1>7. section.ans # typed' /\ ~Is(typed', draft) /\ \A e \in Devices : page[e].ans # typed'
  BY <1>2, <1>5, <1>6 DEF Bounded
<1>8. \A e \in Devices :
         /\ ~Is(typed', local[e]) /\ ~Is(typed', loaded[e]) /\ ~Is(typed', saved[e]) /\ ~Is(typed', pending[e])
         /\ \A p \in puts[e] : ~Is(typed', p)
         /\ form[e].is.ans # typed' /\ job[e].of.ans # typed'
  BY <1>5, <1>6 DEF Bounded, Is
<1>9. Fresh(d)'
  BY <1>1, <1>2, <1>7, <1>8 DEF Fresh
<1>10. QED
  BY <1>2, <1>3, <1>4, <1>9 DEF KeptBy

LEMMA KeptStep ==
    ASSUME TypeOK, Bounded, UnopenedRest, AtWork, Kept, OneDevice, Next, mishaps' = {}
    PROVE  Kept'
<1>1. CASE CleanUp
  <2>1. UNCHANGED <<draft, section, local, page, form, loaded, asking, pending, saved, puts, job, typed, opened>>
    BY <1>1, CleanUpKeeps
  <2>2. QED
    BY <2>1 DEF Kept, Settled, Drafted, KeptBy, Shows, Fresh
<1>2. ASSUME NEW d \in Devices, Fill(d) \/ Keep(d) \/ Attach(d) \/ Hand(d) PROVE Kept'
  <2>1. CASE Type(d)
    BY <2>1, TypedStep DEF Kept
  <2>2. CASE ~Type(d)
    <3>1. Settled => Settled'
      BY <1>2, <2>2, SettledStep
    <3>2. Drafted => Drafted' \/ Settled'
      BY <1>2, <2>2, DraftedStep
    <3>3. ASSUME NEW t \in Devices, KeptBy(t) PROVE KeptBy(t)' \/ Settled'
      <4>1. CASE t = d
        BY <1>2, <2>2, <3>3, <4>1, KeptByOwn
      <4>2. CASE t # d
        BY <1>2, <2>2, <3>3, <4>2, KeptByOther
      <4>3. QED
        BY <4>1, <4>2
    <3>4. QED
      BY <3>1, <3>2, <3>3 DEF Kept
  <2>3. QED
    BY <2>1, <2>2
<1>3. QED
  BY <1>1, <1>2 DEF Next

\* One device: its page and its survey.
LEMMA AloneShows ==
    ASSUME TypeOK, UnopenedRest, Kept', NEW d \in Devices, Alone(d), mishaps' = {},
           Fill(d) \/ Keep(d) \/ Attach(d) \/ Hand(d), opened' \subseteq {d}
    PROVE  /\ page'[d] = section'
           /\ form'[d].begun => form'[d].is.ans = typed'
           /\ pending'[d] # Nothing => pending'[d].ans = typed'
           /\ job'[d].at # "idle" => job'[d].of.ans = typed'
<1>1. /\ page[d] = section
      /\ form[d].begun => form[d].is.ans = typed
      /\ pending[d] # Nothing => pending[d].ans = typed
      /\ job[d].at # "idle" => job[d].of.ans = typed
  BY DEF Alone
<1>2. page'[d] = section'
  <2>1. CASE SaveSection(d)
    BY <1>1, <2>1 DEF SaveSection, TypeOK
  <2>2. CASE Refresh(d)
    BY <1>1, <2>2 DEF Refresh, TypeOK
  <2>3. CASE Hand(d) /\ ~SaveSection(d) /\ ~Refresh(d)
    BY <1>1, <2>3, HandStep
  <2>4. CASE Fill(d) \/ Keep(d) \/ Attach(d)
    BY <1>1, <2>4, EditStep DEF Fill, Open, Type, Turn, Close, Submit, Keep, Load, LoadFails, Show, TimerFires,
       Hide, Put, PutLost
  <2>5. QED
    BY <2>1, <2>2, <2>3, <2>4
<1>3. form'[d].open /\ form'[d].begun => form'[d].is.ans = typed'
  <2>1. ASSUME NEW t \in Devices, KeptBy(t)' PROVE t = d
    BY <2>1 DEF KeptBy
  <2>2. Settled' \/ Shows(d)'
    BY <2>1 DEF Kept, Drafted, KeptBy
  <2>3. QED
    BY <2>2 DEF Settled, Shows
<1>5. CASE Open(d)
  <2>1. typed' = typed /\ (form'[d].begun => form'[d].is.ans = typed') /\ job'[d] = NoJob
    BY <1>3, <1>5, OpenStep
  <2>2. pending'[d] # Nothing => pending'[d].ans = typed'
    BY <1>1, <1>5, <2>1, OpenStep
  <2>3. QED
    BY <1>2, <2>1, <2>2 DEF NoJob
<1>6. CASE Load(d) \/ LoadFails(d)
  <2>1. PICK p \in Payload \cup {Nothing} : Show(d, p)
    BY <1>6, LoadStep
  <2>2. /\ form'[d].open <=> form[d].open
        /\ ~form[d].open => form'[d].is = form[d].is /\ (form'[d].begun <=> form[d].begun)
        /\ pending'[d] = pending[d] \/ (form'[d].begun /\ pending'[d] = form'[d].is)
        /\ job'[d] = job[d] /\ typed' = typed
    BY <2>1, ShowStep
  <2>3. form'[d].begun => form'[d].is.ans = typed'
    BY <1>1, <1>3, <2>2
  <2>4. QED
    BY <1>1, <1>2, <2>2, <2>3
<1>7. CASE Begin(d) \/ Attach(d)
  <2>1. /\ form'[d].open /\ form'[d].begun /\ pending'[d] = form'[d].is /\ job'[d] = job[d] /\ typed' = typed
    BY <1>7, EditStep
  <2>2. QED
    BY <1>1, <1>2, <1>3, <2>1
<1>8. CASE Type(d)
  <2>1. job'[d] = NoJob
    BY <1>8 DEF Type, Blame
  <2>2. QED
    BY <1>2, <1>8, <2>1, TypedShows DEF NoJob, Is
<1>9. CASE Hand(d)
  <2>1. /\ form'[d].is = form[d].is /\ (form'[d].begun <=> form[d].begun) /\ typed' = typed
        /\ job'[d] = NoJob \/ job'[d].of = job[d].of
        /\ job[d].at # "idle"
        /\ Mark(d) \/ pending' = pending
    BY <1>9, HandStep
  <2>2. pending'[d] \in {Nothing, pending[d]}
    BY <2>1 DEF Mark, TypeOK
  <2>3. job'[d].at # "idle" => job'[d].of.ans = typed'
    BY <1>1, <2>1 DEF NoJob
  <2>4. QED
    BY <1>1, <1>2, <2>1, <2>2, <2>3
<1>10. CASE Close(d)
  <2>1. form'[d].is = form[d].is /\ (form'[d].begun <=> form[d].begun)
    BY <1>10 DEF Close, TypeOK, Form
  <2>2. QED
    BY <1>1, <1>2, <1>10, <2>1 DEF Close, saving, given
<1>11. CASE Submit(d)
  <2>1. UNCHANGED <<form, pending, typed>>
    BY <1>11 DEF Submit, view, saving, given
  <2>2. job'[d].of.ans = typed
    BY <1>1, <1>11 DEF Submit, Editable, TypeOK
  <2>3. QED
    BY <1>1, <1>2, <2>1, <2>2
<1>12. CASE Turn(d) \/ TimerFires(d) \/ Hide(d) \/ \E p \in puts[d] : Put(d, p) \/ PutLost(d, p)
  <2>1. UNCHANGED <<form, job, typed>> /\ pending'[d] \in {Nothing, pending[d]}
    BY <1>12 DEF Turn, TimerFires, Hide, Put, PutLost, view, given, TypeOK
  <2>2. QED
    BY <1>1, <1>2, <2>1
<1>13. QED
  BY <1>5, <1>6, <1>7, <1>8, <1>9, <1>10, <1>11, <1>12 DEF Fill, Keep

\* One device: its draft and that of the server.
LEMMA AloneDrafts ==
    ASSUME TypeOK, Bounded, AtWork, NEW d \in Devices, Alone(d), mishaps' = {},
           Fill(d) \/ Keep(d) \/ Attach(d) \/ Hand(d)
    PROVE  /\ fresher'[d] /\ local'[d] # Nothing /\ draft' # Nothing => draft' = local'[d]
           /\ Fine(Chosen(d))' \/ (form'[d].begun /\ (pending'[d] # Nothing \/ job'[d].at = "clear"))
           /\ Is(typed', saved'[d]) => Fine(Chosen(d))'
           /\ job'[d].at = "clear" => Fine(local[d])'
<1> DEFINE Goal == /\ fresher'[d] /\ local'[d] # Nothing /\ draft' # Nothing => draft' = local'[d]
                   /\ Fine(Chosen(d))' \/ (form'[d].begun /\ (pending'[d] # Nothing \/ job'[d].at = "clear"))
                   /\ Is(typed', saved'[d]) => Fine(Chosen(d))'
                   /\ job'[d].at = "clear" => Fine(local[d])'
<1>1. /\ form[d].begun => form[d].is.ans = typed
      /\ pending[d] # Nothing => pending[d].ans = typed
      /\ fresher[d] /\ local[d] # Nothing /\ draft # Nothing => draft = local[d]
      /\ Fine(Chosen(d)) \/ (form[d].begun /\ (pending[d] # Nothing \/ job[d].at = "clear"))
      /\ Is(typed, saved[d]) => Fine(Chosen(d))
      /\ job[d].at = "clear" => Fine(local[d])
  BY DEF Alone
<1>2. ASSUME typed' = typed, draft' = draft, local'[d] = local[d], fresher'[d] = fresher[d]
      PROVE  /\ fresher'[d] /\ local'[d] # Nothing /\ draft' # Nothing => draft' = local'[d]
             /\ Chosen(d)' = Chosen(d) /\ (Fine(Chosen(d)) => Fine(Chosen(d))') /\ (Fine(local[d]) => Fine(local[d])')
  BY <1>1, <1>2 DEF Chosen, Fine
<1>3. ASSUME typed' = typed, local'[d] # Nothing, local'[d].ans = typed, ~fresher'[d] PROVE Goal
  BY <1>3 DEF Chosen, Fine
\* A step that leaves the drafts, and what waits to be saved.
<1>4. ASSUME UNCHANGED <<typed, draft, local, fresher, saved>>, form'[d].begun <=> form[d].begun,
             pending[d] # Nothing => pending'[d] # Nothing,
             job[d].at = "clear" <=> job'[d].at = "clear"
      PROVE  Goal
  <2>1. Is(typed', saved'[d]) <=> Is(typed, saved[d])
    BY <1>4
  <2>2. QED
    BY <1>1, <1>2, <1>4, <2>1
<1> HIDE <1>2, <1>3, <1>4
<1>5. ASSUME NEW p \in Payload, p.ans = typed, Persist(d, p),
             UNCHANGED <<typed, draft, job>>, form[d].begun \/ job[d].at # "clear"
      PROVE  Goal
  <2>1. CASE p = saved[d] /\ UNCHANGED <<local, fresher, saved, puts>>
    <3>1. Is(typed, saved[d])
      BY <1>5, <2>1, SurveyAssumption DEF Is
    <3>2. Fine(Chosen(d))
      BY <1>1, <3>1
    <3>3. QED
      BY <1>1, <1>2, <1>5, <2>1, <3>2
  <2>2. CASE local'[d] = p /\ ~fresher'[d]
    BY <1>3, <1>5, <2>2, SurveyAssumption
  <2>3. QED
    BY <1>5, <2>1, <2>2, PersistStep
<1>6. CASE Turn(d)
  <2>1. form[d].begun /\ form[d].is \in Payload /\ Persist(d, form[d].is) /\ UNCHANGED <<typed, draft, job>>
    BY <1>6 DEF Turn, Editable, TypeOK, Form, given
  <2>2. QED
    BY <1>1, <1>5, <2>1
<1>7. CASE TimerFires(d)
  <2>1. pending[d] # Nothing /\ pending[d] \in Payload /\ Persist(d, pending[d]) /\ UNCHANGED <<typed, draft, job>>
    BY <1>7 DEF TimerFires, TypeOK, given
  <2>2. form[d].begun \/ job[d].at # "clear"
    BY DEF AtWork
  <2>3. QED
    BY <1>1, <1>5, <2>1, <2>2
<1>8. CASE Hide(d)
  <2>1. /\ pending[d] # Nothing /\ local'[d] = pending[d] /\ ~fresher'[d] /\ typed' = typed
    BY <1>8 DEF Hide, WriteLocal, TypeOK, given
  <2>2. QED
    BY <1>1, <1>3, <2>1
<1>9. CASE Open(d)
  <2>1. /\ pending[d] = Nothing /\ job[d] = NoJob /\ job'[d] = NoJob
        /\ UNCHANGED <<draft, fresher, local, saved, typed>>
    BY <1>9, OpenStep
  <2>2. Fine(Chosen(d))
    BY <1>1, <2>1 DEF NoJob
  <2>3. Chosen(d)' = Chosen(d) /\ Fine(Chosen(d))'
        /\ (fresher'[d] /\ local'[d] # Nothing /\ draft' # Nothing => draft' = local'[d])
    BY <1>2, <2>1, <2>2
  <2>4. QED
    BY <2>1, <2>3 DEF NoJob
<1>10. CASE Load(d) \/ LoadFails(d)
  <2>1. PICK p \in Payload \cup {Nothing} :
           Show(d, p) /\ (saved'[d] = saved[d] \/ (saved'[d] = p /\ p = Chosen(d)))
    BY <1>10, LoadStep
  <2>2. /\ UNCHANGED <<draft, fresher, local, job, typed>> /\ p = Chosen(d)
        /\ form[d].begun => form'[d].begun
        /\ pending'[d] = pending[d] \/ pending'[d] = form'[d].is
        /\ form'[d] \in Form
    BY <2>1, ShowStep
  <2>3. pending[d] # Nothing => pending'[d] # Nothing
    BY <2>2, SurveyAssumption DEF Form
  <2>4. Is(typed, Chosen(d)) => Fine(Chosen(d))
    BY DEF Is, Fine
  <2>5. Is(typed, saved'[d]) => Fine(Chosen(d))
    BY <1>1, <2>1, <2>4
  <2>6. /\ Chosen(d)' = Chosen(d) /\ (Fine(Chosen(d)) => Fine(Chosen(d))') /\ (Fine(local[d]) => Fine(local[d])')
        /\ fresher'[d] /\ local'[d] # Nothing /\ draft' # Nothing => draft' = local'[d]
    BY <1>2, <2>2
  <2>7. QED
    BY <1>1, <2>2, <2>3, <2>5, <2>6
<1>11. CASE Begin(d) \/ Attach(d)
  <2>1. /\ form'[d].begun /\ pending'[d] = form'[d].is /\ form'[d] \in Form
        /\ UNCHANGED <<draft, fresher, local, saved, typed, job>>
    BY <1>11, EditStep
  <2>2. pending'[d] # Nothing
    BY <2>1, SurveyAssumption DEF Form
  <2>3. /\ (Fine(Chosen(d)) => Fine(Chosen(d))') /\ (Fine(local[d]) => Fine(local[d])')
        /\ fresher'[d] /\ local'[d] # Nothing /\ draft' # Nothing => draft' = local'[d]
    BY <1>2, <2>1
  <2>4. QED
    BY <1>1, <2>1, <2>2, <2>3
<1>12. CASE Type(d)
  <2>1. /\ typed' = typed + 1 /\ job[d] = NoJob /\ job'[d] = NoJob
        /\ UNCHANGED <<draft, fresher, local, saved>>
    BY <1>12 DEF Type, Blame, drafts
  <2>2. pending'[d] # Nothing /\ form'[d].begun
    BY <1>12, TypedShows DEF Is
  <2>3. ~Is(typed', saved'[d])
    <3>1. typed \in Nat /\ \A p \in Payload : p.ans \in Nat
      BY BlankTypes DEF TypeOK, Payload
    <3>2. QED
      BY <2>1, <3>1 DEF Bounded, AtMost, Is, TypeOK
  <2>4. fresher'[d] /\ local'[d] # Nothing /\ draft' # Nothing => draft' = local'[d]
    BY <1>1, <2>1
  <2>5. QED
    BY <2>1, <2>2, <2>3, <2>4 DEF NoJob
<1>13. CASE Close(d)
  <2>1. form'[d].begun <=> form[d].begun
    BY <1>13 DEF Close, TypeOK, Form
  <2>2. UNCHANGED <<typed, draft, local, fresher, saved, pending, job>>
    BY <1>13 DEF Close, drafts, saving, given
  <2>3. QED
    BY <1>4, <2>1, <2>2
<1>14. CASE Submit(d)
  <2>1. UNCHANGED <<typed, draft, local, fresher, saved, pending, form>>
    BY <1>14 DEF Submit, drafts, view, saving, given
  <2>2. job[d].at # "clear" /\ job'[d].at # "clear"
    BY <1>14 DEF Submit, NoJob, TypeOK
  <2>3. QED
    BY <1>4, <2>1, <2>2
<1>15. ASSUME NEW p \in puts[d], Put(d, p) PROVE Goal
  <2>1. /\ p = local[d] /\ draft' = p /\ (fresher' = fresher \/ fresher'[d])
        /\ UNCHANGED <<typed, local, saved, pending, form, job>>
    BY <1>15 DEF Put, Blame, view, given
  <2>2. p # Nothing
    BY <1>15, SurveyAssumption DEF TypeOK
  <2>3. Chosen(d) = local[d] /\ Chosen(d)' = local[d]
    BY <1>1, <2>1, <2>2 DEF Chosen
  <2>4. (Fine(Chosen(d)) => Fine(Chosen(d))') /\ (Fine(local[d]) => Fine(local[d])')
    BY <2>1, <2>3 DEF Fine
  <2>5. QED
    BY <1>1, <2>1, <2>4
<1>16. ASSUME NEW p \in puts[d], PutLost(d, p) PROVE Goal
  <2>1. UNCHANGED <<typed, draft, local, fresher, saved, pending, form, job>>
    BY <1>16 DEF PutLost, drafts, view, given
  <2>2. QED
    BY <1>4, <2>1
<1>17. CASE SaveSection(d) \/ SaveFails(d) \/ DeleteFile(d) \/ MarkFails(d) \/ Refresh(d)
  <2>1. Hand(d) /\ ~DeleteDraft(d) /\ job[d].at # "clear"
    <3>1. Hand(d)
      BY <1>17 DEF Hand
    <3>2. job[d].at \in {"save", "delete", "mark", "refresh"}
      BY <1>17 DEF SaveSection, SaveFails, DeleteFile, MarkFails, Refresh
    <3>3. QED
      BY <3>1, <3>2 DEF DeleteDraft
  <2>2. ~Mark(d)
    <3>1. CASE SaveSection(d) \/ SaveFails(d) \/ DeleteFile(d) \/ Refresh(d)
      <4>1. job[d].at # "mark"
        BY <3>1 DEF SaveSection, SaveFails, DeleteFile, Refresh
      <4>2. QED
        BY <4>1 DEF Mark
    <3>2. CASE MarkFails(d)
      BY <3>2 DEF MarkFails, Mark, Step, TypeOK, Submission, NoJob
    <3>3. QED
      BY <1>17, <3>1, <3>2
  <2>3. /\ UNCHANGED <<typed, draft, local, fresher, saved, pending>> /\ (form'[d].begun <=> form[d].begun)
        /\ job'[d].at # "clear"
    BY <2>1, <2>2, HandStep
  <2>4. QED
    BY <1>4, <2>1, <2>3
<1>18. CASE Mark(d)
  <2>1. /\ UNCHANGED <<typed, draft, fresher>> /\ (form'[d].begun <=> form[d].begun)
    BY <1>18, HandStep DEF Hand, Mark, drafts, given
  <2>2. local'[d] = Nothing /\ saved'[d] = Nothing /\ job'[d].at = "clear" /\ job[d].at = "mark"
    BY <1>18 DEF Mark, Step, TypeOK, Submission
  <2>3. form[d].begun
    BY <2>2 DEF AtWork
  <2>4. QED
    BY <2>1, <2>2, <2>3 DEF Is, Fine
<1>19. CASE DeleteDraft(d)
  <2>1. /\ draft' = Nothing /\ UNCHANGED <<typed, local, fresher, saved, pending>> /\ job[d].at = "clear"
    BY <1>19 DEF DeleteDraft, Blame, saving, given
  <2>2. job'[d].at = "refresh"
    BY <1>19 DEF DeleteDraft, Step, TypeOK, Submission
  <2>3. Fine(Chosen(d))'
    BY <1>1, <2>1 DEF Chosen, Fine
  <2>4. QED
    BY <2>1, <2>2, <2>3
<1>20. CASE Keep(d)
  BY <1>7, <1>8, <1>10, <1>15, <1>16, <1>20 DEF Keep
<1>21. CASE Fill(d)
  BY <1>6, <1>9, <1>11, <1>12, <1>13, <1>14, <1>21 DEF Fill
<1>22. CASE Hand(d)
  BY <1>17, <1>18, <1>19, <1>22 DEF Hand
<1>23. QED
  BY <1>11, <1>20, <1>21, <1>22

LEMMA OneDeviceStep ==
    ASSUME TypeOK, Bounded, UnopenedRest, AtWork, Kept', OneDevice, Next, mishaps' = {}
    PROVE  OneDevice'
<1> SUFFICES ASSUME NEW d \in Devices, opened' \subseteq {d} PROVE Alone(d)'
  BY DEF OneDevice
<1>1. CASE CleanUp
  <2>1. UNCHANGED <<draft, fresher, section, local, page, form, pending, saved, job, typed, opened>>
    BY <1>1, CleanUpKeeps
  <2>2. Alone(d)
    BY <2>1 DEF OneDevice
  <2>3. QED
    BY <2>1, <2>2 DEF Alone, Fine, Chosen
<1>2. ASSUME NEW e \in Devices, Fill(e) \/ Keep(e) \/ Attach(e) \/ Hand(e) PROVE Alone(d)'
  <2>1. Alone(d)
    <3>1. opened \subseteq opened'
      BY <1>2, OpenedStep
    <3>2. QED
      BY <3>1 DEF OneDevice
  <2>2. CASE e = d
    BY <1>2, <2>1, <2>2, AloneShows, AloneDrafts DEF Alone
  <2>3. CASE e # d
    <3>1. Load(e) \/ LoadFails(e)
      BY <1>2, <2>3, UnopenedLoads
    <3>2. PICK p \in Payload \cup {Nothing} : Show(e, p)
      BY <3>1, LoadStep
    <3>3. UNCHANGED <<draft, fresher, section, local, page, job, typed>>
      BY <3>2, ShowStep
    <3>4. form'[d] = form[d] /\ pending'[d] = pending[d] /\ saved'[d] = saved[d]
      BY <1>2, <2>3, OthersKept
    <3>5. QED
      BY <2>1, <3>3, <3>4 DEF Alone, Fine, Chosen
  <2>4. QED
    BY <2>2, <2>3
<1>3. QED
  BY <1>1, <1>2 DEF Next

LEMMA InvStep == TypeOK /\ Inv /\ [Next]_vars => Inv'
<1>1. ASSUME TypeOK, Inv, Next PROVE Inv'
  <2>1. Bounded' /\ UnopenedRest'
    BY <1>1, BoundedStep, UnopenedStep DEF Inv
  <2>2. ASSUME mishaps' = {} PROVE AtWork' /\ Kept' /\ OneDevice'
    <3>1. AtWork /\ Kept /\ OneDevice
      BY <1>1, <2>2, CalmBefore DEF Inv
    <3>2. AtWork'
      BY <1>1, <2>2, <3>1, AtWorkStep DEF Inv
    <3>3. Kept'
      BY <1>1, <2>2, <3>1, KeptStep DEF Inv
    <3>4. OneDevice'
      BY <1>1, <2>2, <3>1, <3>3, OneDeviceStep DEF Inv
    <3>5. QED
      BY <3>2, <3>3, <3>4
  <2>3. QED
    BY <2>1, <2>2 DEF Inv
<1>2. TypeOK /\ Inv /\ UNCHANGED vars => Inv'
  <2>1. Bounded /\ UNCHANGED vars => Bounded'
    BY DEF vars, Bounded
  <2>2. UnopenedRest /\ UNCHANGED vars => UnopenedRest'
    BY DEF vars, UnopenedRest
  <2>3. AtWork /\ UNCHANGED vars => AtWork'
    BY DEF vars, AtWork
  <2>4. Kept /\ UNCHANGED vars => Kept'
    BY DEF vars, Kept, Settled, Drafted, KeptBy, Shows, Fresh
  <2>5. OneDevice /\ UNCHANGED vars => OneDevice'
    BY DEF vars, OneDevice, Alone, Fine, Chosen
  <2>6. UNCHANGED vars => mishaps' = mishaps
    BY DEF vars
  <2>7. QED
    BY <2>1, <2>2, <2>3, <2>4, <2>5, <2>6 DEF Inv
<1>3. QED
  BY <1>1, <1>2

LEMMA InvKeepsAnswer == TypeOK /\ Inv => AnswerKept
<1> SUFFICES ASSUME TypeOK, Inv, mishaps = {}
             PROVE  /\ typed \in {section.ans} \cup AnswersOf({draft}) \cup UNION {HeldBy(d) : d \in Devices}
                    /\ \A d \in Devices :
                          Editable(d) /\ ~asking[d] =>
                             form[d].is.ans = typed \/ \E e \in Devices \ {d} : typed \in HeldBy(e)
  BY DEF AnswerKept
<1>1. Kept
  BY DEF Inv
<1>2. ASSUME NEW t \in Devices, KeptBy(t) PROVE typed \in HeldBy(t)
  <2>1. Is(typed, local[t]) \/ Is(typed, pending[t])
    BY <1>2 DEF KeptBy, Fresh
  <2>2. \A p : Is(typed, p) => p # Nothing /\ typed = p.ans
    BY DEF Is
  <2>3. QED
    BY <2>1, <2>2 DEF HeldBy, AnswersOf
<1>3. typed \in {section.ans} \cup AnswersOf({draft}) \cup UNION {HeldBy(d) : d \in Devices}
  <2>1. Drafted => typed \in AnswersOf({draft})
    BY DEF Drafted, Is, AnswersOf
  <2>2. Settled => typed = section.ans
    BY DEF Settled
  <2>3. QED
    BY <1>1, <1>2, <2>1, <2>2 DEF Kept
<1>4. ASSUME NEW d \in Devices, Editable(d)
      PROVE  form[d].is.ans = typed \/ \E e \in Devices \ {d} : typed \in HeldBy(e)
  <2>1. form[d].open /\ form[d].begun
    BY <1>4 DEF Editable
  <2>2. CASE Settled \/ Drafted
    BY <2>1, <2>2 DEF Settled, Drafted, Shows
  <2>3. ASSUME NEW t \in Devices, KeptBy(t)
        PROVE  form[d].is.ans = typed \/ \E e \in Devices \ {d} : typed \in HeldBy(e)
    BY <1>2, <2>1, <2>3 DEF KeptBy, Shows
  <2>4. QED
    BY <1>1, <2>2, <2>3 DEF Kept
<1>5. QED
  BY <1>3, <1>4

\* The answer the user gave last is in the project, in a draft or on its way,
\* and a survey that is filled in shows it, or another device still has it, in
\* every behaviour in which none of the mishaps has happened.
THEOREM LastAnswerKept == Spec => []AnswerKept
<1>1. TypeOK /\ Inv /\ [Next]_vars => TypeOK' /\ Inv'
  BY TypeStep, InvStep
<1>2. QED
  BY <1>1, TypeInit, KeptInit, InvKeepsAnswer, PTL DEF Spec
=============================================================================
