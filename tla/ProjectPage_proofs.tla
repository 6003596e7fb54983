-------------------------- MODULE ProjectPage_proofs --------------------------
(* Theorems about the project page, for every set of users, handlers and      *)
(* edits, every assignment of roles and every bound.                          *)
EXTENDS ProjectPage, TLAPS

-----------------------------------------------------------------------------
(* The sequence of the sign-offs.                                            *)

\* Three different roles in a row.
LEMMA SequenceParts ==
    /\ Roles = {"technical_lead", GbiRole, Lead}
    /\ GbiRole # "technical_lead" /\ GbiRole # Lead /\ Lead # "technical_lead"
    /\ Before("technical_lead") = {}
    /\ Before(GbiRole) = {"technical_lead"}
    /\ Before(Lead) = {"technical_lead", GbiRole}
<1>1. /\ DOMAIN Sequence = 1 .. 3 /\ Sequence[1] = "technical_lead"
      /\ Sequence[2] = GbiRole /\ Sequence[3] = Lead
  BY DEF Sequence, Lead
<1>2. GbiRole # "technical_lead" /\ GbiRole # Lead /\ Lead # "technical_lead"
  BY ProjectPageAssumption DEF Lead
<1>3. Roles = {"technical_lead", GbiRole, Lead}
  BY <1>1 DEF Roles
<1>4. ASSUME NEW r \in Roles
      PROVE  Before(r) = {Sequence[i] : i \in {j \in 1 .. 3 : \E k \in 1 .. 3 : j < k /\ Sequence[k] = r}}
  BY <1>1 DEF Before
<1>5. {j \in 1 .. 3 : \E k \in 1 .. 3 : j < k /\ Sequence[k] = "technical_lead"} = {}
  BY <1>1, <1>2
<1>6. {j \in 1 .. 3 : \E k \in 1 .. 3 : j < k /\ Sequence[k] = GbiRole} = {1}
  BY <1>1, <1>2
<1>7. {j \in 1 .. 3 : \E k \in 1 .. 3 : j < k /\ Sequence[k] = Lead} = {1, 2}
  BY <1>1, <1>2
<1>8. QED
  BY <1>1, <1>2, <1>3, <1>4, <1>5, <1>6, <1>7

\* Approvals are in order when none is ahead of an earlier one.
LEMMA OrderMeans ==
    ASSUME NEW a
    PROVE  InOrder(a) <=>
              /\ a[GbiRole] = "approved" => a["technical_lead"] = "approved"
              /\ a[Lead] = "approved" =>
                    a["technical_lead"] = "approved" /\ a[GbiRole] = "approved"
BY SequenceParts DEF InOrder

\* What the modal of a role sends.
LEMMA ApprovalType ==
    ASSUME NEW a \in [Roles -> ApprovalStatus], NEW role \in Roles
    PROVE  /\ WithApproval(a, role) \in [Roles -> ApprovalStatus]
           /\ WithApproval(a, role)[role] = "approved"
<1> DEFINE to(r) ==
        CASE r = role -> "approved"
          [] r # role /\ Follows(role, r) /\ a[r] \in {"absent", "pending"} -> "waiting"
          [] r # role /\ a[r] = "absent" /\ ~Follows(role, r) -> "pending"
          [] OTHER -> a[r]
<1>1. ASSUME NEW r \in Roles PROVE to(r) \in ApprovalStatus
  BY DEF ApprovalStatus
<1>2. to(role) = "approved"
  OBVIOUS
<1>3. WithApproval(a, role) = [r \in Roles |-> to(r)]
  BY DEF WithApproval
<1> HIDE DEF to
<1>4. QED
  BY <1>1, <1>2, <1>3

-----------------------------------------------------------------------------
(* Projects.                                                                 *)

\* What an update of one field of a project leaves.
LEMMA RowFields ==
    ASSUME NEW p \in Row
    PROVE  /\ \A s \in Status : LET q == [p EXCEPT !.status = s] IN
                 /\ q \in Row /\ q.status = s /\ q.approvals = p.approvals
                 /\ q.section = p.section /\ q.job = p.job
           /\ \A x \in SUBSET Edits : LET q == [p EXCEPT !.section = x] IN
                 /\ q \in Row /\ q.status = p.status /\ q.approvals = p.approvals
                 /\ q.section = x /\ q.job = p.job
           /\ \A j \in JobStatus : LET q == [p EXCEPT !.job = j] IN
                 /\ q \in Row /\ q.status = p.status /\ q.approvals = p.approvals
                 /\ q.section = p.section /\ q.job = j
           /\ \A a \in [Roles -> ApprovalStatus] : LET q == [p EXCEPT !.approvals = a] IN
                 /\ q \in Row /\ q.status = p.status /\ q.approvals = a
                 /\ q.section = p.section /\ q.job = p.job
           /\ p.approvals \in [Roles -> ApprovalStatus] /\ p.status \in Status
           /\ p.section \in SUBSET Edits /\ p.job \in JobStatus
           /\ p # Nothing
BY NothingIsNoProject DEF Row

\* The backend's answer is a project with the stored section.
LEMMA ShownType ==
    ASSUME NEW p \in Row
    PROVE  /\ Shown(p) \in Row
           /\ Shown(p).section = p.section
           /\ Shown(p) # Nothing
<1>1. (IF p.status = "blocked" THEN "blocked" ELSE Derived(p.approvals)) \in Status
  BY DEF Derived, Status
<1>2. QED
  BY <1>1, RowFields DEF Shown

\* The value saveSection shows at once is a project.
LEMMA OptimisticType ==
    ASSUME NEW p \in Row, NEW call, NEW body,
           call = "section" => body \in SUBSET Edits,
           call = "approvals" => body \in [Roles -> ApprovalStatus],
           call = "status" => body \in Status
    PROVE  Optimistic(p, call, body) \in Row
<1>1. CASE call = "section"
  BY <1>1, RowFields DEF Optimistic
<1>2. CASE call = "approvals"
  BY <1>2, RowFields DEF Optimistic
<1>3. CASE call = "status"
  BY <1>3, RowFields DEF Optimistic
<1>4. CASE call \notin {"section", "approvals", "status"}
  BY <1>4 DEF Optimistic
<1>5. QED
  BY <1>1, <1>2, <1>3, <1>4

-----------------------------------------------------------------------------
(* TypeOK and CallsFit, taken apart by who holds what.                       *)

\* A handler's record.
Fits(h, c) ==
    /\ c \in [op : Operations \cup {Nothing}, call : Calls \cup {"none"},
              at : {"none", "sent", "served", "refused"},
              base : Row \cup {Nothing}, body : {c.body}, answer : Row \cup {Nothing}]
    /\ c.call = "section" => c.body \in SUBSET Edits
    /\ c.call = "status" => c.body \in Status
    /\ c.call = "approvals" =>
          /\ c.body \in [Roles -> ApprovalStatus]
          /\ RoleOf[UserOf[h]] \in Roles
          /\ c.body[RoleOf[UserOf[h]]] = "approved"
    /\ c.call \in Saves => c.base # Nothing
    /\ c.call \in Saves /\ c.at = "served" => c.answer # Nothing
    /\ c.call = "refresh" => c.at = "sent"

RunFits == /\ run = [h \in Handlers |-> run[h]]
           /\ \A h \in Handlers : Fits(h, run[h])

ServerFits == /\ row \in Row
              /\ task \in JobStatus
              /\ granted \subseteq Roles \cup {"member"}
              /\ everSaved \subseteq Edits

ViewFits == /\ view \in [Users -> Row \cup {Nothing}]
            /\ modal \in [Users -> {"closed", "step1", "step2"}]
            /\ \A u \in Users : modal[u] # "closed" => RoleOf[u] \in Roles /\ view[u] # Nothing

GetFits == /\ get \in [Users -> [at : {"none", "sent", "served"}, data : Row \cup {Nothing},
                                 for : SUBSET (Handlers \cup {"load", "poll"})]]
           /\ \A u \in Users : get[u].at = "served" => get[u].data # Nothing

Waits == \A u \in Users : \A h \in get[u].for \cap Handlers :
             UserOf[h] = u /\ run[h].call = "refresh"

CountFits == /\ mixed \subseteq Users
             /\ used \in [clicks : Nat, losses : Nat, resets : Nat, failures : Nat]

Types == RunFits /\ ServerFits /\ ViewFits /\ GetFits /\ Waits /\ CountFits

\* It is the same thing.
LEMMA TypesMean == TypeOK /\ CallsFit <=> Types
<1>1. ASSUME TypeOK, CallsFit PROVE Types
  BY <1>1 DEF TypeOK, CallsFit, Types, RunFits, ServerFits, ViewFits, GetFits,
              Waits, CountFits, Fits, Saving
<1>2. ASSUME Types PROVE TypeOK /\ CallsFit
  BY <1>2 DEF Types, RunFits, ServerFits, ViewFits, GetFits, Waits, CountFits, TypeOK, CallsFit,
              Fits, Saving
<1>3. QED
  BY <1>1, <1>2

\* One handler's record is replaced.
LEMMA RunPart ==
    ASSUME RunFits, NEW h \in Handlers, NEW c, Fits(h, c), run' = [run EXCEPT ![h] = c]
    PROVE  RunFits' /\ run'[h] = c /\ \A g \in Handlers \ {h} : run'[g] = run[g]
<1>1. run' = [g \in Handlers |-> IF g = h THEN c ELSE run[g]]
  BY DEF RunFits
<1>2. \A g \in Handlers : Fits(g, run'[g])
  BY <1>1 DEF RunFits
<1>3. QED
  BY <1>1, <1>2 DEF RunFits

\* An idle handler, and the sets of handlers that become idle.
LEMMA IdleFits == ASSUME NEW h PROVE Fits(h, Idle)
BY DEF Fits, Idle, Calls, Saves

LEMMA RunIdles ==
    ASSUME RunFits, NEW S, run' = [h \in Handlers |-> IF h \in S THEN Idle ELSE run[h]]
    PROVE  RunFits' /\ \A h \in Handlers : run'[h] = IF h \in S THEN Idle ELSE run[h]
<1>1. \A h \in Handlers : Fits(h, run'[h])
  BY IdleFits DEF RunFits
<1>2. QED
  BY <1>1 DEF RunFits

\* A call is sent.
LEMMA SendPart ==
    ASSUME RunFits, NEW h \in Handlers, NEW op \in Operations \cup {Nothing},
           NEW call \in Calls, NEW base \in Row \cup {Nothing}, NEW body,
           Send(h, op, call, base, body),
           call = "section" => body \in SUBSET Edits,
           call = "status" => body \in Status,
           call = "approvals" => /\ body \in [Roles -> ApprovalStatus]
                                 /\ RoleOf[UserOf[h]] \in Roles
                                 /\ body[RoleOf[UserOf[h]]] = "approved",
           call \in Saves => base # Nothing
    PROVE  /\ RunFits'
           /\ run'[h] = [op |-> op, call |-> call, at |-> "sent",
                         base |-> base, body |-> body, answer |-> Nothing]
           /\ \A g \in Handlers \ {h} : run'[g] = run[g]
<1> DEFINE c == [op |-> op, call |-> call, at |-> "sent",
                 base |-> base, body |-> body, answer |-> Nothing]
<1>1. Fits(h, c)
  BY DEF Fits
<1>2. run' = [run EXCEPT ![h] = c]
  BY DEF Send
<1> HIDE DEF c
<1>3. RunFits' /\ run'[h] = c /\ \A g \in Handlers \ {h} : run'[g] = run[g]
  BY <1>1, <1>2, RunPart
<1>4. QED
  BY <1>3 DEF c

\* A call is answered, or refused.
LEMMA AnswerPart ==
    ASSUME RunFits, NEW h \in Handlers, NEW reply \in Row \cup {Nothing}, Answer(h, reply),
           run[h].call # "refresh", Saving(h) => reply # Nothing
    PROVE  /\ RunFits'
           /\ run'[h] = [run[h] EXCEPT !.at = "served", !.answer = reply]
           /\ run'[h].at = "served" /\ run'[h].answer = reply
           /\ run'[h].call = run[h].call /\ run'[h].base = run[h].base
           /\ run'[h].op = run[h].op /\ run'[h].body = run[h].body
           /\ \A g \in Handlers \ {h} : run'[g] = run[g]
<1> DEFINE c == [run[h] EXCEPT !.at = "served", !.answer = reply]
<1>1. Fits(h, run[h])
  BY DEF RunFits
<1>2. /\ c.at = "served" /\ c.answer = reply
      /\ c.call = run[h].call /\ c.base = run[h].base
      /\ c.op = run[h].op /\ c.body = run[h].body
      /\ c \in [op : {c.op}, call : {c.call}, at : {c.at}, base : {c.base}, body : {c.body},
                answer : {c.answer}]
  BY <1>1 DEF Fits
<1>3. run' = [run EXCEPT ![h] = c]
  BY <1>1 DEF Answer, RunFits, Fits
<1> HIDE DEF c
<1>4. Fits(h, c)
  BY <1>1, <1>2 DEF Fits, Saving
<1>5. RunFits' /\ run'[h] = c /\ \A g \in Handlers \ {h} : run'[g] = run[g]
  BY <1>3, <1>4, RunPart
<1>6. QED
  BY <1>2, <1>5 DEF c

LEMMA RefusePart ==
    ASSUME RunFits, NEW h \in Handlers, run' = [run EXCEPT ![h].at = "refused"],
           run[h].call # "refresh"
    PROVE  /\ RunFits'
           /\ run'[h].at = "refused"
           /\ run'[h].call = run[h].call /\ run'[h].base = run[h].base
           /\ run'[h].op = run[h].op /\ run'[h].body = run[h].body
           /\ \A g \in Handlers \ {h} : run'[g] = run[g]
<1> DEFINE c == [run[h] EXCEPT !.at = "refused"]
<1>1. Fits(h, run[h])
  BY DEF RunFits
<1>2. /\ c.at = "refused" /\ c.answer = run[h].answer
      /\ c.call = run[h].call /\ c.base = run[h].base
      /\ c.op = run[h].op /\ c.body = run[h].body
      /\ c \in [op : {c.op}, call : {c.call}, at : {c.at}, base : {c.base}, body : {c.body},
                answer : {c.answer}]
  BY <1>1 DEF Fits
<1>3. run' = [run EXCEPT ![h] = c]
  BY DEF RunFits
<1> HIDE DEF c
<1>4. Fits(h, c)
  BY <1>1, <1>2 DEF Fits, Saving
<1>5. RunFits' /\ run'[h] = c /\ \A g \in Handlers \ {h} : run'[g] = run[g]
  BY <1>3, <1>4, RunPart
<1>6. QED
  BY <1>2, <1>5

\* Someone joins the GET of a page.
LEMMA JoinPart ==
    ASSUME GetFits, NEW u \in Users, NEW who \in Handlers \cup {"load", "poll"}, JoinGet(u, who)
    PROVE  /\ GetFits'
           /\ \A v \in Users \ {u} : get'[v] = get[v]
           /\ get'[u].for \subseteq get[u].for \cup {who}
           /\ get'[u].at = "served" => get[u].at = "served" /\ get'[u].data = get[u].data
<1> DEFINE g == IF get[u].at = "none"
                THEN [at |-> "sent", data |-> Nothing, for |-> {who}]
                ELSE [at |-> get[u].at, data |-> get[u].data, for |-> get[u].for \cup {who}]
<1>1. /\ g \in [at : {"none", "sent", "served"}, data : Row \cup {Nothing},
                for : SUBSET (Handlers \cup {"load", "poll"})]
      /\ g.for \subseteq get[u].for \cup {who}
      /\ g.at = "served" => get[u].at = "served" /\ g.data = get[u].data
  BY DEF GetFits
<1>2. get' = [get EXCEPT ![u] = g]
  BY DEF JoinGet
<1> HIDE DEF g
<1>3. QED
  BY <1>1, <1>2 DEF GetFits

\* Which call follows which.
LEMMA NextCallParts ==
    ASSUME NEW h
    PROVE  /\ NextCall(h) \in {"none", "status", "config", "job", "refresh"}
           /\ NextCall(h) = "status" => run[h].call = "approvals"
           /\ NextCall(h) = "config" => run[h].call \in {"approvals", "status"}
BY DEF NextCall

\* The sets of those that wait for a GET.
LEMMA WaitsPart ==
    ASSUME Waits, NEW h \in Handlers, run[h].call # "refresh", get' = get,
           \A g \in Handlers \ {h} : run'[g] = run[g]
    PROVE  Waits'
BY DEF Waits

\* One view is replaced.
LEMMA ViewPart ==
    ASSUME ViewFits, NEW u \in Users, NEW w \in Row, view' = [view EXCEPT ![u] = w],
           modal' = modal \/ modal' = [modal EXCEPT ![u] = "closed"]
    PROVE  ViewFits' /\ view'[u] = w /\ \A v \in Users \ {u} : view'[v] = view[v]
BY NothingIsNoProject DEF ViewFits

\* The handler goes on: with its next call, or to its end.
LEMMA ContinueTypes ==
    ASSUME Types, NEW h \in Handlers, NEW w \in Row \cup {Nothing}, Continue(h, w),
           w = Nothing => view[UserOf[h]] = Nothing,
           run[h].call # "refresh", Saving(h) => w # Nothing, UNCHANGED <<server, modal, used>>
    PROVE  Types'
<1> DEFINE u == UserOf[h]  call == NextCall(h)  c == run[h]
<1>1. u \in Users
  BY ProjectPageAssumption
<1>2. RunFits /\ ViewFits /\ GetFits /\ Waits /\ CountFits /\ ServerFits
  BY DEF Types
<1>3. Fits(h, c)
  BY <1>2 DEF RunFits
<1>4. ServerFits'
  BY <1>2 DEF ServerFits, server
<1>5. ASSUME view' = [view EXCEPT ![u] = w] PROVE ViewFits'
  <2>1. CASE w = Nothing
    <3>1. view' = view
      BY <1>1, <1>2, <1>5, <2>1 DEF ViewFits
    <3>2. QED
      BY <1>2, <3>1 DEF ViewFits
  <2>2. CASE w # Nothing
    BY <1>1, <1>2, <1>5, <2>2, ViewPart
  <2>3. QED
    BY <2>1, <2>2
<1>6. ASSUME mixed' = mixed \/ Overlap(h) PROVE CountFits'
  BY <1>1, <1>2, <1>6 DEF CountFits, Overlap
<1>7. CASE /\ call = "none"
           /\ view' = [view EXCEPT ![u] = w]
           /\ run' = [run EXCEPT ![h] = Idle]
           /\ UNCHANGED <<get, mixed>>
  <2>1. RunFits' /\ \A g \in Handlers \ {h} : run'[g] = run[g]
    BY <1>2, <1>7, IdleFits, RunPart
  <2>2. Waits' /\ GetFits'
    BY <1>2, <1>7, <2>1, WaitsPart DEF GetFits
  <2>3. QED
    BY <1>4, <1>5, <1>6, <1>7, <2>1, <2>2 DEF Types
<1>8. CASE /\ call = "status"
           /\ view' = [view EXCEPT ![u] = Optimistic(w, "status", "signed-off")]
           /\ Send(h, c.op, "status", c.base, "signed-off")
           /\ Overlap(h)
           /\ UNCHANGED get
  <2>1. Saving(h)
    BY <1>8, NextCallParts DEF Saving, Saves
  <2>2. w \in Row /\ c.base \in Row /\ c.base # Nothing /\ c.op \in Operations \cup {Nothing}
    BY <1>3, <2>1 DEF Fits, Saving
  <2>3. Optimistic(w, "status", "signed-off") \in Row
    BY <2>2, OptimisticType DEF Status
  <2>4. ViewFits'
    BY <1>1, <1>2, <1>8, <2>3, ViewPart
  <2>5. RunFits' /\ \A g \in Handlers \ {h} : run'[g] = run[g]
    <3> HIDE DEF call, c
    <3>1. "status" \in Calls /\ "signed-off" \in Status
      BY DEF Calls, Status
    <3>2. QED
      BY <1>2, <1>8, <2>2, <3>1, SendPart
  <2>6. Waits' /\ GetFits'
    BY <1>2, <1>8, <2>5, WaitsPart DEF GetFits
  <2>7. QED
    BY <1>4, <1>6, <1>8, <2>4, <2>5, <2>6 DEF Types
<1>9. CASE /\ call \in {"config", "job"}
           /\ view' = [view EXCEPT ![u] = w]
           /\ Send(h, c.op, call, c.base, Nothing)
           /\ Overlap(h)
           /\ UNCHANGED get
  <2>1. call = "config" => Saving(h)
    BY <1>9, NextCallParts DEF Saving, Saves
  <2>2. /\ c.base \in Row \cup {Nothing} /\ c.op \in Operations \cup {Nothing}
        /\ call \in Saves => c.base # Nothing
    BY <1>3, <1>9, <2>1 DEF Fits, Saving, Saves
  <2>3. RunFits' /\ \A g \in Handlers \ {h} : run'[g] = run[g]
    <3> HIDE DEF call, c
    <3>1. call \in Calls /\ call \notin {"section", "status", "approvals"}
      BY <1>9 DEF Calls
    <3>2. QED
      BY <1>2, <1>9, <2>2, <3>1, SendPart
  <2>4. Waits' /\ GetFits'
    BY <1>2, <1>9, <2>3, WaitsPart DEF GetFits
  <2>5. QED
    BY <1>4, <1>5, <1>6, <1>9, <2>3, <2>4 DEF Types
<1>10. CASE /\ call = "refresh"
            /\ view' = [view EXCEPT ![u] = w]
            /\ Send(h, c.op, "refresh", c.base, Nothing)
            /\ JoinGet(u, h)
            /\ UNCHANGED mixed
  <2>1. c.base \in Row \cup {Nothing} /\ c.op \in Operations \cup {Nothing}
    BY <1>3 DEF Fits
  <2>2. /\ RunFits' /\ \A g \in Handlers \ {h} : run'[g] = run[g]
        /\ run'[h].call = "refresh"
    <3> HIDE DEF call, c
    <3>1. "refresh" \in Calls /\ "refresh" \notin Saves
      BY DEF Calls, Saves
    <3>2. /\ RunFits' /\ \A g \in Handlers \ {h} : run'[g] = run[g]
          /\ run'[h] = [op |-> c.op, call |-> "refresh", at |-> "sent",
                        base |-> c.base, body |-> Nothing, answer |-> Nothing]
      BY <1>2, <1>10, <2>1, <3>1, SendPart
    <3>3. QED
      BY <3>2
  <2>3. /\ GetFits'
        /\ \A v \in Users \ {u} : get'[v] = get[v]
        /\ get'[u].for \subseteq get[u].for \cup {h}
    BY <1>1, <1>2, <1>10, JoinPart
  <2>4. Waits'
    BY <1>2, <2>2, <2>3 DEF Waits
  <2>5. QED
    BY <1>4, <1>5, <1>6, <1>10, <2>2, <2>3, <2>4 DEF Types
<1>11. QED
  BY <1>7, <1>8, <1>9, <1>10 DEF Continue

\* The backend answers, or the call fails.
LEMMA AnswerTypes ==
    ASSUME Types, NEW h \in Handlers, NEW reply \in Row \cup {Nothing}, Answer(h, reply),
           run[h].call # "refresh", Saving(h) => reply # Nothing, ServerFits',
           UNCHANGED <<view, get, modal, mixed, used>>
    PROVE  Types'
<1>1. RunFits' /\ \A g \in Handlers \ {h} : run'[g] = run[g]
  BY AnswerPart DEF Types
<1>2. Waits'
  BY <1>1, WaitsPart DEF Types
<1>3. QED
  BY <1>1, <1>2 DEF Types, ViewFits, GetFits, CountFits

LEMMA RefuseTypes ==
    ASSUME Types, NEW h \in Handlers, run' = [run EXCEPT ![h].at = "refused"],
           run[h].call # "refresh", CountFits', UNCHANGED <<server, view, get, modal>>
    PROVE  Types'
<1>1. RunFits' /\ \A g \in Handlers \ {h} : run'[g] = run[g]
  BY RefusePart DEF Types
<1>2. Waits'
  BY <1>1, WaitsPart DEF Types
<1>3. QED
  BY <1>1, <1>2 DEF Types, ViewFits, GetFits, ServerFits, server

\* A user starts a handler, which shows w and sends its first call.
LEMMA StartTypes ==
    ASSUME Types, NEW h \in Handlers, NEW op \in Operations, NEW call \in Calls, NEW body,
           CanStart(h, op), Click(h), NEW w \in Row,
           view' = [view EXCEPT ![UserOf[h]] = w],
           modal' = modal \/ modal' = [modal EXCEPT ![UserOf[h]] = "closed"],
           Send(h, op, call, view[UserOf[h]], body),
           mixed' = mixed \/ Overlap(h), UNCHANGED <<server, get>>,
           call = "section" => body \in SUBSET Edits,
           call = "status" => body \in Status,
           call = "approvals" => /\ body \in [Roles -> ApprovalStatus]
                                 /\ RoleOf[UserOf[h]] \in Roles
                                 /\ body[RoleOf[UserOf[h]]] = "approved"
    PROVE  Types'
<1> DEFINE u == UserOf[h]
<1>1. u \in Users
  BY ProjectPageAssumption
<1>2. RunFits /\ ViewFits /\ GetFits /\ Waits /\ CountFits /\ ServerFits
  BY DEF Types
<1>3. view[u] \in Row /\ view[u] # Nothing /\ run[h] = Idle
  BY <1>1, <1>2 DEF CanStart, ViewFits, Busy
<1>4. RunFits' /\ \A g \in Handlers \ {h} : run'[g] = run[g]
  BY <1>2, <1>3, SendPart
<1>5. run[h].call # "refresh"
  BY <1>3 DEF Idle
<1>6. Waits'
  BY <1>2, <1>4, <1>5, WaitsPart
<1>7. ViewFits'
  BY <1>1, <1>2, ViewPart
<1>8. GetFits' /\ ServerFits'
  BY <1>2 DEF GetFits, ServerFits, server
<1>9. CountFits'
  BY <1>1, <1>2 DEF CountFits, Click, Overlap
<1>10. QED
  BY <1>4, <1>6, <1>7, <1>8, <1>9 DEF Types

\* Handlers that waited for the GET of u become idle, and the GET is over.
LEMMA GetEndTypes ==
    ASSUME Types, NEW u \in Users, get' = [get EXCEPT ![u] = NoGet],
           run' = [h \in Handlers |-> IF h \in get[u].for THEN Idle ELSE run[h]],
           ViewFits', CountFits', UNCHANGED server
    PROVE  Types'
<1>1. RunFits /\ ViewFits /\ GetFits /\ Waits /\ CountFits /\ ServerFits
  BY DEF Types
<1>2. RunFits' /\ \A h \in Handlers : run'[h] = IF h \in get[u].for THEN Idle ELSE run[h]
  BY <1>1, RunIdles
<1>3. GetFits' /\ \A v \in Users : get'[v] = IF v = u THEN NoGet ELSE get[v]
  BY <1>1 DEF GetFits, NoGet
<1>4. ASSUME NEW v \in Users, NEW h \in get'[v].for \cap Handlers
      PROVE  UserOf[h] = v /\ run'[h].call = "refresh"
  <2>1. v # u
    BY <1>3, <1>4 DEF NoGet
  <2>2. UserOf[h] = v /\ run[h].call = "refresh"
    BY <1>1, <1>3, <1>4, <2>1 DEF Waits
  <2>3. h \notin get[u].for
    BY <1>1, <2>1, <2>2 DEF Waits
  <2>4. QED
    BY <1>2, <2>2, <2>3
<1>5. Waits'
  BY <1>4 DEF Waits
<1>6. ServerFits'
  BY <1>1 DEF ServerFits, server
<1>7. QED
  BY <1>2, <1>3, <1>5, <1>6 DEF Types

\* A page joins its GET for itself.
LEMMA JoinTypes ==
    ASSUME Types, NEW u \in Users, NEW who \in {"load", "poll"}, JoinGet(u, who),
           UNCHANGED <<server, view, run, modal, mixed, used>>
    PROVE  Types'
<1>1. RunFits /\ ViewFits /\ GetFits /\ Waits /\ CountFits /\ ServerFits
  BY DEF Types
<1>2. /\ GetFits'
      /\ \A v \in Users \ {u} : get'[v] = get[v]
      /\ get'[u].for \subseteq get[u].for \cup {who}
  BY <1>1, JoinPart
<1>3. who \notin Handlers
  BY ProjectPageAssumption
<1>4. Waits'
  BY <1>1, <1>2, <1>3 DEF Waits
<1>5. QED
  BY <1>1, <1>2, <1>4 DEF Types, RunFits, ViewFits, CountFits, ServerFits, server

-----------------------------------------------------------------------------
(* Type correctness.                                                         *)

\* At first nobody has a page open.
LEMMA TypeInit == Init => Types
<1> SUFFICES ASSUME Init PROVE Types
  OBVIOUS
<1>1. RunFits
  BY IdleFits DEF Init, RunFits
<1>2. ServerFits
  <2>1. PICK n \in 0 .. Len(Sequence) - 1 :
            /\ row = [approvals |-> Signed(n), status |-> "in-progress",
                      section |-> {}, job |-> "none"]
            /\ granted = {Sequence[i] : i \in 1 .. n}
    BY DEF Init
  <2>2. Len(Sequence) = 3 /\ DOMAIN Sequence = 1 .. 3
    BY DEF Sequence
  <2>3. granted \subseteq Roles
    BY <2>1, <2>2 DEF Roles
  <2>4. \A r \in Roles : (CASE \E i \in 1 .. n : Sequence[i] = r -> "approved"
                            [] n > 0 /\ r = Sequence[n + 1] -> "waiting"
                            [] OTHER -> IF n = 0 THEN "absent" ELSE "pending") \in ApprovalStatus
    BY DEF ApprovalStatus
  <2>5. Signed(n) \in [Roles -> ApprovalStatus]
    BY <2>4 DEF Signed
  <2>6. QED
    BY <2>1, <2>3, <2>5 DEF Init, ServerFits, Row, Status, JobStatus
<1>3. ViewFits /\ GetFits /\ Waits /\ CountFits
  BY DEF Init, ViewFits, GetFits, Waits, CountFits, NoGet
<1>4. QED
  BY <1>1, <1>2, <1>3 DEF Types

\* Each action of a user keeps the types.
LEMMA ActTypes ==
    ASSUME Types, NEW h \in Handlers, Act(h)
    PROVE  Types'
<1> DEFINE u == UserOf[h]
<1>1. u \in Users /\ RoleOf[u] \in Roles \cup {"member"}
  BY ProjectPageAssumption
<1>2. ViewFits
  BY DEF Types
<1>3. ASSUME NEW op, CanStart(h, op) PROVE view[u] \in Row
  BY <1>1, <1>2, <1>3 DEF CanStart, ViewFits
<1>4. ASSUME NEW e \in Edits, NEW op \in {"save", "complete"}, CanStart(h, op)
      PROVE  /\ view[u].section \cup {e} \in SUBSET Edits
             /\ Optimistic(view[u], "section", view[u].section \cup {e}) \in Row
  <2>1. view[u] \in Row
    BY <1>3, <1>4
  <2>2. view[u].section \cup {e} \in SUBSET Edits
    BY <2>1, RowFields
  <2>3. QED
    BY <2>1, <2>2, OptimisticType
<1>5. view = [v \in Users |-> view[v]]
  BY <1>2 DEF ViewFits
<1>6. ASSUME NEW e \in Edits, SaveSection(h, e) PROVE Types'
  <2>1. CanStart(h, "save") /\ Click(h)
    BY <1>6 DEF SaveSection
  <2> DEFINE body == view[u].section \cup {e}
             w == Optimistic(view[u], "section", body)
  <2>2. body \in SUBSET Edits /\ w \in Row
    BY <1>4, <2>1
  <2>3. /\ view' = [view EXCEPT ![u] = w]
        /\ Send(h, "save", "section", view[u], body)
        /\ Overlap(h) /\ UNCHANGED <<server, get, modal>>
    BY <1>6 DEF SaveSection
  <2>4. "save" \in Operations /\ "section" \in Calls
    BY DEF Operations, Calls
  <2> HIDE DEF body, w
  <2>5. QED
    BY <2>1, <2>2, <2>3, <2>4, StartTypes
<1>7. ASSUME NEW e \in Edits, MarkComplete(h, e) PROVE Types'
  <2>1. CanStart(h, "complete") /\ Click(h)
    BY <1>7 DEF MarkComplete
  <2> DEFINE body == view[u].section \cup {e}
             w == Optimistic(view[u], "section", body)
  <2>2. body \in SUBSET Edits /\ w \in Row
    BY <1>4, <2>1
  <2>3. /\ view' = [view EXCEPT ![u] = w]
        /\ Send(h, "complete", "section", view[u], body)
        /\ Overlap(h) /\ UNCHANGED <<server, get, modal>>
    BY <1>7 DEF MarkComplete
  <2>4. "complete" \in Operations /\ "section" \in Calls
    BY DEF Operations, Calls
  <2> HIDE DEF body, w
  <2>5. QED
    BY <2>1, <2>2, <2>3, <2>4, StartTypes
<1>8. ASSUME Confirm(h) PROVE Types'
  <2> DEFINE body == WithApproval(view[u].approvals, RoleOf[u])
             w == Optimistic(view[u], "approvals", body)
  <2>1. CanStart(h, "approve") /\ Click(h) /\ modal[u] # "closed"
    BY <1>8 DEF Confirm
  <2>2. RoleOf[u] \in Roles
    BY <1>1, <1>2, <2>1 DEF ViewFits
  <2>3. view[u] \in Row /\ view[u].approvals \in [Roles -> ApprovalStatus]
    BY <1>3, <2>1, RowFields
  <2>4. body \in [Roles -> ApprovalStatus] /\ body[RoleOf[u]] = "approved"
    BY <2>2, <2>3, ApprovalType
  <2>5. w \in Row
    BY <2>3, <2>4, OptimisticType
  <2>6. /\ view' = [view EXCEPT ![u] = w]
        /\ modal' = [modal EXCEPT ![u] = "closed"]
        /\ Send(h, "approve", "approvals", view[u], body)
        /\ Overlap(h) /\ UNCHANGED <<server, get>>
    BY <1>8 DEF Confirm
  <2>7. "approve" \in Operations /\ "approvals" \in Calls
    BY DEF Operations, Calls
  <2> HIDE DEF body, w
  <2>8. QED
    BY <2>1, <2>2, <2>4, <2>5, <2>6, <2>7, StartTypes
<1>9. ASSUME Block(h) PROVE Types'
  <2>1. /\ CanStart(h, "block") /\ Click(h)
        /\ Send(h, "block", "block", view[u], Nothing)
        /\ UNCHANGED <<server, view, get, modal, mixed>>
    BY <1>9 DEF Block
  <2>2. view[u] \in Row /\ view' = [view EXCEPT ![u] = view[u]]
    BY <1>1, <1>3, <1>5, <2>1
  <2>3. "block" \in Operations /\ "block" \in Calls
    BY DEF Operations, Calls
  <2>4. QED
    BY <2>1, <2>2, <2>3, StartTypes
<1>10. ASSUME Unblock(h) PROVE Types'
  <2> DEFINE w == Optimistic(view[u], "status", "in-progress")
  <2>1. /\ CanStart(h, "unblock") /\ Click(h)
        /\ view' = [view EXCEPT ![u] = w]
        /\ Send(h, "unblock", "status", view[u], "in-progress")
        /\ Overlap(h) /\ UNCHANGED <<server, get, modal>>
    BY <1>10 DEF Unblock
  <2>2. w \in Row
    BY <1>3, <2>1, OptimisticType DEF Status
  <2>3. "unblock" \in Operations /\ "status" \in Calls /\ "in-progress" \in Status
    BY DEF Operations, Calls, Status
  <2> HIDE DEF w
  <2>4. QED
    BY <2>1, <2>2, <2>3, StartTypes
<1>11. ASSUME RetryJob(h) PROVE Types'
  <2>1. /\ CanStart(h, "retry") /\ Click(h)
        /\ Send(h, "retry", "retry", view[u], Nothing)
        /\ UNCHANGED <<server, view, get, modal, mixed>>
    BY <1>11 DEF RetryJob
  <2>2. view[u] \in Row /\ view' = [view EXCEPT ![u] = view[u]]
    BY <1>1, <1>3, <1>5, <2>1
  <2>3. "retry" \in Operations /\ "retry" \in Calls
    BY DEF Operations, Calls
  <2>4. QED
    BY <2>1, <2>2, <2>3, StartTypes
<1>12. QED
  BY <1>6, <1>7, <1>8, <1>9, <1>10, <1>11 DEF Act

\* So does each endpoint.
LEMMA ServeTypes ==
    ASSUME Types, NEW h \in Handlers, Serve(h)
    PROVE  Types'
<1>1. RunFits /\ CountFits /\ ServerFits /\ row \in Row
  BY DEF Types, ServerFits
<1>2. Fits(h, run[h])
  BY <1>1 DEF RunFits
<1>3. RoleOf[UserOf[h]] \in Roles \cup {"member"}
  BY ProjectPageAssumption
<1>4. ASSUME Refuse(h), UNCHANGED <<view, get, modal, mixed, used>>, run[h].call # "refresh"
      PROVE  Types'
  <2>1. CountFits'
    BY <1>1, <1>4 DEF CountFits
  <2>2. QED
    BY <1>4, <2>1, RefuseTypes DEF Refuse
<1>5. ASSUME ServeApprovals(h) PROVE Types'
  <2> DEFINE a == run[h].body
             st == IF row.status = "blocked" THEN "blocked" ELSE Derived(a)
             p == [row EXCEPT !.approvals = a, !.status = st]
  <2>1. a \in [Roles -> ApprovalStatus] /\ run[h].call # "refresh"
    BY <1>2, <1>5 DEF ServeApprovals, Fits
  <2>2. st \in Status
    BY DEF Derived, Status
  <2>3. p \in Row
    BY <1>1, <2>1, <2>2 DEF Row
  <2>4. Shown(p) \in Row \cup {Nothing} /\ Shown(p) # Nothing
    BY <2>3, ShownType
  <2>5. CASE Refuse(h)
    BY <1>4, <1>5, <2>1, <2>5 DEF ServeApprovals
  <2>6. CASE /\ row' = p /\ granted' = granted \cup {RoleOf[UserOf[h]]}
             /\ Answer(h, Shown(p)) /\ UNCHANGED <<task, everSaved>>
    <3>1. ServerFits'
      BY <1>1, <1>3, <2>3, <2>6 DEF ServerFits
    <3> HIDE DEF p
    <3>2. QED
      BY <1>5, <2>1, <2>4, <2>6, <3>1, AnswerTypes DEF ServeApprovals
  <2>7. QED
    BY <1>5, <2>5, <2>6 DEF ServeApprovals
<1>6. ASSUME ServeStatus(h) PROVE Types'
  <2> DEFINE s == IF row.status = "blocked" THEN Derived(row.approvals) ELSE run[h].body
             p == [row EXCEPT !.status = s]
  <2>1. run[h].body \in Status /\ run[h].call # "refresh"
    BY <1>2, <1>6 DEF ServeStatus, Fits
  <2>2. s \in Status
    BY <2>1 DEF Derived, Status
  <2>3. p \in Row
    BY <1>1, <2>2, RowFields
  <2>4. Shown(p) \in Row \cup {Nothing} /\ Shown(p) # Nothing
    BY <2>3, ShownType
  <2>5. CASE Refuse(h)
    BY <1>4, <1>6, <2>1, <2>5 DEF ServeStatus
  <2>6. CASE /\ row' = p /\ Answer(h, Shown(p)) /\ UNCHANGED <<task, granted, everSaved>>
    <3>1. ServerFits'
      BY <1>1, <2>3, <2>6 DEF ServerFits
    <3> HIDE DEF p
    <3>2. QED
      BY <1>6, <2>1, <2>4, <2>6, <3>1, AnswerTypes DEF ServeStatus
  <2>7. QED
    BY <1>6, <2>5, <2>6 DEF ServeStatus
<1>7. ASSUME ServeSection(h) PROVE Types'
  <2> DEFINE p == [row EXCEPT !.section = run[h].body]
  <2>1. run[h].body \in SUBSET Edits /\ run[h].call # "refresh"
    BY <1>2, <1>7 DEF ServeSection, Fits
  <2>2. p \in Row
    BY <1>1, <2>1, RowFields
  <2>3. Shown(p) \in Row \cup {Nothing} /\ Shown(p) # Nothing
    BY <2>2, ShownType
  <2>4. ServerFits'
    BY <1>1, <1>7, <2>1, <2>2 DEF ServerFits, ServeSection
  <2>5. Answer(h, Shown(p)) /\ UNCHANGED <<view, get, modal, mixed, used>>
    BY <1>7 DEF ServeSection
  <2> HIDE DEF p
  <2>6. QED
    BY <2>1, <2>3, <2>4, <2>5, AnswerTypes
<1>8. ASSUME ServeConfig(h) PROVE Types'
  <2>1. Shown(row) \in Row \cup {Nothing} /\ Shown(row) # Nothing
    BY <1>1, ShownType
  <2>2. ServerFits'
    BY <1>1, <1>8 DEF ServerFits, ServeConfig, server
  <2>3. QED
    BY <1>8, <2>1, <2>2, AnswerTypes DEF ServeConfig
<1>9. ASSUME ServeBlock(h) PROVE Types'
  <2>1. ServerFits'
    BY <1>1, <1>9, RowFields DEF ServerFits, ServeBlock, Status
  <2>2. ~Saving(h) /\ run[h].call # "refresh"
    BY <1>9 DEF ServeBlock, Saving, Saves
  <2>3. QED
    BY <1>9, <2>1, <2>2, AnswerTypes DEF ServeBlock
<1>10. ASSUME ServeJob(h) PROVE Types'
  <2>1. ServerFits'
    BY <1>1, <1>10, RowFields DEF ServerFits, ServeJob, JobStatus
  <2>2. ~Saving(h) /\ run[h].call # "refresh"
    BY <1>10 DEF ServeJob, Saving, Saves
  <2>3. QED
    BY <1>10, <2>1, <2>2, AnswerTypes DEF ServeJob
<1>11. ASSUME ServeRetry(h) PROVE Types'
  <2>1. ~Saving(h) /\ run[h].call # "refresh"
    BY <1>11 DEF ServeRetry, Saving, Saves
  <2>2. CASE Refuse(h)
    BY <1>4, <1>11, <2>1, <2>2 DEF ServeRetry
  <2>3. CASE /\ row' = [row EXCEPT !.job = "pending"] /\ task' = "pending"
             /\ Answer(h, Nothing) /\ UNCHANGED <<granted, everSaved>>
    <3>1. ServerFits'
      BY <1>1, <2>3, RowFields DEF ServerFits, JobStatus
    <3>2. QED
      BY <1>11, <2>1, <2>3, <3>1, AnswerTypes DEF ServeRetry
  <2>4. QED
    BY <1>11, <2>2, <2>3 DEF ServeRetry
<1>12. QED
  BY <1>5, <1>6, <1>7, <1>8, <1>9, <1>10, <1>11 DEF Serve

\* And each answer and each failure that reaches a handler.
LEMMA HandlerTypes ==
    ASSUME Types, NEW h \in Handlers, Lose(h) \/ Reply(h) \/ Rollback(h)
    PROVE  Types'
<1> DEFINE u == UserOf[h]
<1>1. RunFits /\ CountFits /\ ServerFits /\ ViewFits /\ GetFits /\ Waits
  BY DEF Types
<1>2. Fits(h, run[h])
  BY <1>1 DEF RunFits
<1>3. u \in Users /\ view[u] \in Row \cup {Nothing}
  BY <1>1, ProjectPageAssumption DEF ViewFits
<1>4. CASE Lose(h)
  <2>1. CountFits'
    BY <1>1, <1>4 DEF CountFits, Lose
  <2>2. QED
    BY <1>4, <2>1, RefuseTypes DEF Lose
<1>5. CASE Reply(h)
  <2> DEFINE w == IF Saving(h) THEN run[h].answer ELSE view[u]
  <2>1. /\ w \in Row \cup {Nothing} /\ (w = Nothing => view[u] = Nothing)
        /\ Saving(h) => w # Nothing
        /\ run[h].call # "refresh"
    BY <1>2, <1>3, <1>5 DEF Fits, Saving, Reply
  <2>2. Continue(h, w) /\ UNCHANGED <<server, modal, used>>
    BY <1>5 DEF Reply
  <2> HIDE DEF w
  <2>3. QED
    BY <2>1, <2>2, ContinueTypes
<1>6. CASE Rollback(h)
  <2> DEFINE w == IF Saving(h) THEN run[h].base ELSE view[u]
  <2>1. /\ w \in Row \cup {Nothing} /\ (w = Nothing => view[u] = Nothing)
        /\ Saving(h) => w # Nothing
        /\ run[h].call # "refresh"
    BY <1>2, <1>3, <1>6 DEF Fits, Saving, Rollback
  <2>2. UNCHANGED <<server, modal, used>>
    BY <1>6 DEF Rollback
  <2>3. CASE Continue(h, w)
    <3> HIDE DEF w
    <3>1. QED
      BY <2>1, <2>2, <2>3, ContinueTypes
  <2>4. CASE /\ view' = [view EXCEPT ![u] = w]
             /\ run' = [run EXCEPT ![h] = Idle]
             /\ UNCHANGED <<get, mixed>>
    <3> HIDE DEF w
    <3>1. RunFits' /\ \A g \in Handlers \ {h} : run'[g] = run[g]
      BY <1>1, <2>4, IdleFits, RunPart
    <3>2. Waits'
      BY <1>1, <2>1, <2>4, <3>1, WaitsPart
    <3>3. ViewFits'
      <4>1. CASE w = Nothing
        <5>1. view' = view
          BY <1>1, <1>3, <2>1, <2>4, <4>1 DEF ViewFits
        <5>2. QED
          BY <1>1, <2>2, <5>1 DEF ViewFits
      <4>2. CASE w # Nothing
        BY <1>1, <1>3, <2>1, <2>2, <2>4, <4>2, ViewPart
      <4>3. QED
        BY <4>1, <4>2
    <3>4. GetFits' /\ CountFits' /\ ServerFits'
      BY <1>1, <2>2, <2>4 DEF GetFits, CountFits, ServerFits, server
    <3>5. QED
      BY <3>1, <3>2, <3>3, <3>4 DEF Types
  <2>5. QED
    BY <1>6, <2>3, <2>4 DEF Rollback
<1>7. QED
  BY <1>4, <1>5, <1>6

\* The steps of a page that no handler takes.
LEMMA PageTypes ==
    ASSUME Types, NEW u \in Users,
           Browse(u) \/ ServeGet(u) \/ GetReply(u) \/ GetFails(u) \/ Poll(u)
    PROVE  Types'
<1>1. RunFits /\ CountFits /\ ServerFits /\ ViewFits /\ GetFits /\ Waits
  BY DEF Types
<1>2. ASSUME Open(u) \/ Poll(u) PROVE Types'
  BY <1>2, JoinTypes DEF Open, Poll
<1>3. ASSUME OpenModal(u) \/ CloseModal(u) \/ Configure(u) PROVE Types'
  <2>1. ViewFits'
    BY <1>1, <1>3 DEF ViewFits, OpenModal, CloseModal, Configure, Eligible
  <2>2. RunFits' /\ ServerFits' /\ GetFits' /\ Waits' /\ CountFits'
    BY <1>1, <1>3 DEF OpenModal, CloseModal, Configure, RunFits, ServerFits, GetFits, Waits,
                      CountFits, server
  <2>3. QED
    BY <2>1, <2>2 DEF Types
<1>4. ASSUME ServeGet(u) PROVE Types'
  <2>1. Shown(row) \in Row /\ Shown(row) # Nothing
    BY <1>1, ShownType DEF ServerFits
  <2> DEFINE reply == Shown(row)
  <2>2. get' = [get EXCEPT ![u].at = "served", ![u].data = reply]
    BY <1>4 DEF ServeGet
  <2>3. reply \in Row /\ reply # Nothing
    BY <2>1
  <2> HIDE DEF reply
  <2>4. GetFits' /\ \A v \in Users : get'[v].for = get[v].for
    BY <1>1, <2>2, <2>3 DEF GetFits
  <2>5. Waits'
    BY <1>1, <1>4, <2>4 DEF Waits, ServeGet
  <2>6. RunFits' /\ ServerFits' /\ ViewFits' /\ CountFits'
    BY <1>1, <1>4 DEF ServeGet, RunFits, ServerFits, ViewFits, CountFits, server
  <2>7. QED
    BY <2>4, <2>5, <2>6 DEF Types
<1>5. ASSUME GetReply(u) PROVE Types'
  <2>1. get[u].data \in Row
    BY <1>1, <1>5 DEF GetReply, GetFits
  <2>2. ViewFits'
    BY <1>1, <1>5, <2>1, ViewPart DEF GetReply
  <2>3. CountFits'
    BY <1>1, <1>5 DEF GetReply, CountFits
  <2>4. QED
    BY <1>5, <2>2, <2>3, GetEndTypes DEF GetReply
<1>6. ASSUME GetFails(u) PROVE Types'
  <2>1. ViewFits'
    BY <1>1, <1>6 DEF GetFails, ViewFits
  <2>2. CountFits'
    BY <1>1, <1>6 DEF GetFails, CountFits
  <2>3. QED
    BY <1>6, <2>1, <2>2, GetEndTypes DEF GetFails
<1>7. QED
  BY <1>2, <1>3, <1>4, <1>5, <1>6 DEF Browse

\* Every step keeps the types.
LEMMA TypeStep == Types /\ [Next]_vars => Types'
<1> SUFFICES ASSUME Types, [Next]_vars PROVE Types'
  OBVIOUS
<1>1. RunFits /\ CountFits /\ ServerFits /\ ViewFits /\ GetFits /\ Waits
  BY DEF Types
<1>2. CASE JobStep
  <2>1. ServerFits'
    BY <1>1, <1>2, RowFields DEF JobStep, ServerFits, JobStatus
  <2>2. CountFits'
    BY <1>1, <1>2 DEF JobStep, CountFits, client
  <2>3. RunFits' /\ ViewFits' /\ GetFits' /\ Waits'
    BY <1>1, <1>2 DEF JobStep, RunFits, ViewFits, GetFits, Waits, client
  <2>4. QED
    BY <2>1, <2>2, <2>3 DEF Types
<1>3. CASE Reset
  <2>1. ServerFits'
    BY <1>1, <1>3 DEF Reset, ServerFits, Row, ApprovalStatus, Status, JobStatus
  <2>2. CountFits'
    BY <1>1, <1>3 DEF Reset, CountFits, client
  <2>3. RunFits' /\ ViewFits' /\ GetFits' /\ Waits'
    BY <1>1, <1>3 DEF Reset, RunFits, ViewFits, GetFits, Waits, client
  <2>4. QED
    BY <2>1, <2>2, <2>3 DEF Types
<1>4. CASE UNCHANGED vars
  BY <1>1, <1>4 DEF vars, Types, RunFits, ServerFits, ViewFits, GetFits, Waits, CountFits
<1>5. QED
  BY <1>2, <1>3, <1>4, ActTypes, ServeTypes, HandlerTypes, PageTypes DEF Next

LEMMA TypesAlways == Spec => []Types
<1>1. QED
  BY TypeInit, TypeStep, PTL DEF Spec

\* Every variable keeps its type: what a handler's call carries, for one, fits
\* the endpoint it goes to.
THEOREM TypeCorrect == Spec => [](TypeOK /\ CallsFit)
<1>1. QED
  BY TypesAlways, TypesMean, PTL

-----------------------------------------------------------------------------
(* Sign-off.                                                                 *)

\* What a sign-off may do to the row.
Accepts(h) == /\ run[h].call = "approvals" /\ run[h].at = "sent" /\ run'[h].at = "served"
              /\ run[h].body \in [Roles -> ApprovalStatus]
              /\ RoleOf[UserOf[h]] \in Roles /\ run[h].body[RoleOf[UserOf[h]]] = "approved"
              /\ MayApprove(UserOf[h], run[h].body)
              /\ row'.approvals = run[h].body
              /\ granted' = granted \cup {RoleOf[UserOf[h]]}

\* Of all steps a sign-off that is accepted and a reset touch the approvals.
LEMMA SignOffKinds ==
    ASSUME Types, [Next]_vars
    PROVE  \/ row'.approvals = row.approvals /\ granted' = granted
           \/ \E h \in Handlers : Accepts(h)
           \/ /\ row'.approvals = [r \in Roles |-> "absent"] /\ granted' = {}
              /\ used'.resets > used.resets
<1>1. RunFits /\ ServerFits /\ CountFits
  BY DEF Types
<1>2. row \in Row
  BY <1>1 DEF ServerFits
<1>3. ASSUME NEW h \in Handlers, ServeApprovals(h), ~Refuse(h) PROVE Accepts(h)
  <2> DEFINE a == run[h].body
             st == IF row.status = "blocked" THEN "blocked" ELSE Derived(a)
             p == [row EXCEPT !.approvals = a, !.status = st]
  <2>1. Fits(h, run[h]) /\ run[h].call = "approvals" /\ run[h].at = "sent"
    BY <1>1, <1>3 DEF RunFits, ServeApprovals
  <2>2. /\ MayApprove(UserOf[h], a) /\ row' = p
        /\ granted' = granted \cup {RoleOf[UserOf[h]]} /\ Answer(h, Shown(p))
    BY <1>3 DEF ServeApprovals
  <2>3. row'.approvals = a
    BY <1>2, <2>2 DEF Row
  <2>4. run'[h].at = "served"
    BY <1>1, <2>1, <2>2 DEF Answer, RunFits, Fits
  <2>5. QED
    BY <2>1, <2>2, <2>3, <2>4 DEF Accepts, Fits
<1>4. ASSUME NEW h \in Handlers, Serve(h), ~ServeApprovals(h)
      PROVE  row'.approvals = row.approvals /\ granted' = granted
  <2>1. Fits(h, run[h])
    BY <1>1 DEF RunFits
  <2>0. Refuse(h) => row' = row /\ granted' = granted
    BY DEF Refuse, server
  <2>2. ASSUME ServeStatus(h) PROVE row'.approvals = row.approvals /\ granted' = granted
    <3>1. run[h].body \in Status
      BY <2>1, <2>2 DEF ServeStatus, Fits
    <3>2. (IF row.status = "blocked" THEN Derived(row.approvals) ELSE run[h].body) \in Status
      BY <3>1 DEF Derived, Status
    <3> DEFINE st == IF row.status = "blocked" THEN Derived(row.approvals) ELSE run[h].body
    <3>3. \/ row' = [row EXCEPT !.status = st] /\ granted' = granted
          \/ Refuse(h)
      BY <2>2 DEF ServeStatus
    <3>4. st \in Status
      BY <3>2
    <3> HIDE DEF st
    <3>5. QED
      BY <1>2, <2>0, <3>3 DEF Row
  <2>3. ASSUME ServeSection(h) PROVE row'.approvals = row.approvals /\ granted' = granted
    BY <1>2, <2>1, <2>3, RowFields DEF ServeSection, Fits
  <2>4. ASSUME ServeConfig(h) PROVE row'.approvals = row.approvals /\ granted' = granted
    BY <2>4 DEF ServeConfig, server
  <2>5. ASSUME ServeBlock(h) PROVE row'.approvals = row.approvals /\ granted' = granted
    BY <1>2, <2>5, RowFields DEF ServeBlock, Status
  <2>6. ASSUME ServeJob(h) PROVE row'.approvals = row.approvals /\ granted' = granted
    BY <1>2, <2>6, RowFields DEF ServeJob, JobStatus
  <2>7. ASSUME ServeRetry(h) PROVE row'.approvals = row.approvals /\ granted' = granted
    <3>1. \/ row' = [row EXCEPT !.job = "pending"] /\ granted' = granted
          \/ Refuse(h)
      BY <2>7 DEF ServeRetry
    <3>2. QED
      BY <1>2, <2>0, <3>1 DEF Row
  <2>8. QED
    BY <1>4, <2>2, <2>3, <2>4, <2>5, <2>6, <2>7 DEF Serve
<1>5. ASSUME JobStep PROVE row'.approvals = row.approvals /\ granted' = granted
  <2>1. task' \in JobStatus
    BY <1>5 DEF JobStep, JobStatus
  <2>2. QED
    BY <1>2, <1>5, <2>1, RowFields DEF JobStep
<1>6. ASSUME Reset
      PROVE  /\ row'.approvals = [r \in Roles |-> "absent"] /\ granted' = {}
             /\ used'.resets > used.resets
  BY <1>1, <1>6 DEF Reset, CountFits
<1>7. ASSUME NEW h \in Handlers, Act(h) \/ Lose(h) \/ Reply(h) \/ Rollback(h)
             \/ (ServeApprovals(h) /\ Refuse(h))
      PROVE  UNCHANGED server
  BY <1>7 DEF Act, SaveSection, MarkComplete, Confirm, Block, Unblock, RetryJob, Lose, Reply,
              Rollback, Refuse
<1>8. ASSUME NEW u \in Users, Browse(u) \/ ServeGet(u) \/ GetReply(u) \/ GetFails(u) \/ Poll(u)
      PROVE  UNCHANGED server
  BY <1>8 DEF Browse, Open, OpenModal, CloseModal, Configure, ServeGet, GetReply, GetFails, Poll
<1>9. UNCHANGED server => row'.approvals = row.approvals /\ granted' = granted
  BY DEF server
<1>10. UNCHANGED vars => UNCHANGED server
  BY DEF vars, server
<1>11. QED
  BY <1>3, <1>4, <1>5, <1>6, <1>7, <1>8, <1>9, <1>10 DEF Next

\* Both invariants of the stored approvals.
SignOff == SequenceHolds /\ ApprovedByHolder

LEMMA SignOffInit == Init => SignOff
<1> SUFFICES ASSUME Init PROVE SignOff
  OBVIOUS
<1>1. PICK n \in 0 .. Len(Sequence) - 1 :
          /\ row = [approvals |-> Signed(n), status |-> "in-progress",
                    section |-> {}, job |-> "none"]
          /\ granted = {Sequence[i] : i \in 1 .. n}
  BY DEF Init
<1>2. /\ Len(Sequence) = 3 /\ Sequence[1] = "technical_lead"
      /\ Sequence[2] = GbiRole /\ Sequence[3] = Lead
  BY DEF Sequence, Lead
<1>3. ASSUME NEW r \in Roles, Signed(n)[r] = "approved"
      PROVE  \E i \in 1 .. n : Sequence[i] = r
  BY <1>3 DEF Signed
<1>4. ASSUME NEW r \in Roles, NEW i \in 1 .. n, Sequence[i] = r
      PROVE  Signed(n)[r] = "approved"
  <2>1. r # Sequence[n + 1]
    BY <1>1, <1>2, <1>4, SequenceParts
  <2>2. QED
    BY <1>4, <2>1 DEF Signed
<1>5. ApprovedByHolder
  BY <1>1, <1>3 DEF ApprovedByHolder
<1>6. n \in 0 .. 2
  BY <1>1, <1>2
<1>7. InOrder(Signed(n))
  <2>1. Signed(n)[GbiRole] = "approved" => n >= 2
    BY <1>2, <1>3, <1>6, SequenceParts
  <2>2. Signed(n)[Lead] # "approved"
    BY <1>2, <1>3, <1>6, SequenceParts
  <2>3. n >= 2 => Signed(n)["technical_lead"] = "approved"
    BY <1>2, <1>4, <1>6, SequenceParts
  <2>4. QED
    BY <2>1, <2>2, <2>3, OrderMeans
<1>8. QED
  BY <1>1, <1>5, <1>7 DEF SignOff, SequenceHolds

LEMMA SignOffStep == Types /\ SignOff /\ [Next]_vars => SignOff'
<1> SUFFICES ASSUME Types, SignOff, [Next]_vars PROVE SignOff'
  OBVIOUS
<1>1. CASE row'.approvals = row.approvals /\ granted' = granted
  BY <1>1 DEF SignOff, SequenceHolds, ApprovedByHolder, InOrder
<1>2. ASSUME NEW h \in Handlers, Accepts(h) PROVE SignOff'
  <2>1. InOrder(row'.approvals)
    BY <1>2 DEF Accepts, MayApprove
  <2>2. ASSUME NEW r \in Roles, row'.approvals[r] = "approved" PROVE r \in granted'
    BY <1>2, <2>2 DEF Accepts, MayApprove, SignOff, ApprovedByHolder
  <2>3. QED
    BY <2>1, <2>2 DEF SignOff, SequenceHolds, ApprovedByHolder
<1>3. CASE row'.approvals = [r \in Roles |-> "absent"]
  <2>1. \A r \in Roles : row'.approvals[r] # "approved"
    BY <1>3
  <2>2. QED
    BY <2>1 DEF SignOff, SequenceHolds, ApprovedByHolder, InOrder
<1>4. QED
  BY <1>1, <1>2, <1>3, SignOffKinds

LEMMA SignOffAlways == Spec => []SignOff
<1> QED BY TypesAlways, SignOffInit, SignOffStep, PTL DEF Spec

\* However stale the pages are that approvals are sent from, the stored ones
\* follow the sequence (_replace_approvals).
THEOREM SequenceKept == Spec => []SequenceHolds
<1>1. SignOff => SequenceHolds
  BY DEF SignOff
<1>2. QED
  BY <1>1, SignOffAlways, PTL

\* Each stored approval was given by a holder of its role since the last reset,
\* though a save sends the approvals of all roles (_check_approval_authority).
THEOREM HoldersApprove == Spec => []ApprovedByHolder
<1>1. SignOff => ApprovedByHolder
  BY DEF SignOff
<1>2. QED
  BY <1>1, SignOffAlways, PTL

\* An approval is taken back by a reset, or by someone whose own approval is
\* already stored: a first approval, from whatever page, undoes none.
THEOREM ApprovalsStay == Spec => UndoneOnlyByRepeat
<1> DEFINE Undone ==
        \A r \in Roles : row.approvals[r] = "approved" /\ row'.approvals[r] # "approved" =>
          \/ used'.resets > used.resets
          \/ \E h \in Handlers : /\ run[h].call = "approvals"
                                 /\ run'[h].at = "served" /\ run[h].at = "sent"
                                 /\ row.approvals[RoleOf[UserOf[h]]] = "approved"
<1>1. ASSUME Types, SignOff, [Next]_vars PROVE Undone
  <2> SUFFICES ASSUME NEW r \in Roles, row.approvals[r] = "approved",
                      row'.approvals[r] # "approved", NEW h \in Handlers, Accepts(h)
               PROVE  row.approvals[RoleOf[UserOf[h]]] = "approved"
    BY <1>1, SignOffKinds DEF Accepts
  <2> DEFINE mine == RoleOf[UserOf[h]]  a == run[h].body  b == row.approvals
  <2>1. a[mine] = "approved" /\ mine \in Roles /\ a[r] # "approved" /\ b[r] = "approved"
    BY DEF Accepts
  <2>2. InOrder(a) /\ InOrder(b)
    BY <1>1 DEF Accepts, MayApprove, SignOff, SequenceHolds
  <2> HIDE DEF a, b, mine
  <2>3. /\ a[GbiRole] = "approved" => a["technical_lead"] = "approved"
        /\ a[Lead] = "approved" => a["technical_lead"] = "approved" /\ a[GbiRole] = "approved"
        /\ b[GbiRole] = "approved" => b["technical_lead"] = "approved"
        /\ b[Lead] = "approved" => b["technical_lead"] = "approved" /\ b[GbiRole] = "approved"
    BY <2>2, OrderMeans
  <2>4. b[mine] = "approved"
    BY <2>1, <2>3, SequenceParts
  <2>5. QED
    BY <2>4 DEF b, mine
<1>2. Types /\ SignOff /\ [Next]_vars => [Undone]_vars
  BY <1>1
<1>3. QED
  BY <1>2, TypesAlways, SignOffInit, SignOffStep, PTL DEF Spec, UndoneOnlyByRepeat

-----------------------------------------------------------------------------
(* Edits that were never stored.                                             *)

Phantoms == ViewsStored /\ NoPhantomEdit

LEMMA PhantomsInit == Init => Phantoms
<1> SUFFICES ASSUME Init PROVE Phantoms
  OBVIOUS
<1>1. row.section = {}
  BY DEF Init
<1>2. \A h \in Handlers : ~Saving(h)
  BY DEF Init, Saving, Saves, Idle
<1>3. \A u \in Users : get[u].at = "none" /\ view[u] = Nothing
  BY DEF Init, NoGet
<1>4. QED
  BY <1>1, <1>2, <1>3 DEF Phantoms, ViewsStored, NoPhantomEdit, Stored

\* A step that moves handlers without changing who saves, from which snapshot.
LEMMA SavesKept ==
    ASSUME Phantoms, everSaved \subseteq everSaved', row'.section \subseteq everSaved',
           UNCHANGED <<view, mixed>>,
           \A u \in Users : get'[u].at = "served" =>
              \/ get'[u].data.section \subseteq everSaved'
              \/ get[u].at = "served" /\ get'[u].data = get[u].data,
           \A h \in Handlers : Saving(h)' =>
              /\ run'[h].at = "served" =>
                    \/ run'[h].answer.section \subseteq everSaved'
                    \/ run[h].at = "served" /\ run'[h].answer = run[h].answer
              /\ run'[h].base = run[h].base,
           \A h \in Handlers : Saving(h)' <=> Saving(h)
    PROVE  Phantoms'
<1>1. /\ Stored(row)'
      /\ \A u \in Users : get'[u].at = "served" => Stored(get[u].data)'
      /\ \A h \in Handlers : Saving(h)' /\ run'[h].at = "served" => Stored(run[h].answer)'
      /\ \A h \in Handlers : Saving(h)' /\ UserOf[h] \notin mixed' => Stored(run[h].base)'
  BY DEF Phantoms, ViewsStored, Stored
<1>2. \A g, h \in Handlers : Saving(g)' /\ Saving(h)' /\ UserOf[g] = UserOf[h]
                               /\ UserOf[h] \notin mixed' => g = h
  BY DEF Phantoms, ViewsStored
<1>3. ViewsStored'
  BY <1>1, <1>2 DEF ViewsStored
<1>4. ASSUME NEW u \in Users, view'[u] # Nothing, u \notin mixed', \A h \in Mine(u) : ~Saving(h)'
      PROVE  view'[u].section \subseteq everSaved'
  BY <1>4 DEF Phantoms, NoPhantomEdit, Mine
<1>5. NoPhantomEdit'
  BY <1>4 DEF NoPhantomEdit, Mine
<1>6. QED
  BY <1>3, <1>5 DEF Phantoms

\* A step of one handler that is about no save afterwards, and shows w.
LEMMA RestsAt ==
    ASSUME Phantoms, NEW h \in Handlers, UserOf[h] \in Users, UNCHANGED server,
           NEW w, ViewFits, view' = [view EXCEPT ![UserOf[h]] = w],
           Saving(h) /\ UserOf[h] \notin mixed => w = Nothing \/ Stored(w),
           ~Saving(h) => w = view[UserOf[h]],
           ~Saving(h)', \A g \in Handlers \ {h} : run'[g] = run[g],
           mixed \subseteq mixed',
           \A u \in Users : get'[u].at = "served" =>
              get[u].at = "served" /\ get'[u].data = get[u].data
    PROVE  Phantoms'
<1>1. everSaved' = everSaved /\ row' = row
  BY DEF server
<1>2. ViewsStored'
  <2>1. /\ Stored(row)'
        /\ \A u \in Users : get'[u].at = "served" => Stored(get[u].data)'
        /\ \A g \in Handlers : Saving(g)' /\ run'[g].at = "served" => Stored(run[g].answer)'
        /\ \A g \in Handlers : Saving(g)' /\ UserOf[g] \notin mixed' => Stored(run[g].base)'
    BY <1>1 DEF Phantoms, ViewsStored, Stored, Saving
  <2>2. \A f, g \in Handlers : Saving(f)' /\ Saving(g)' /\ UserOf[f] = UserOf[g]
                               /\ UserOf[g] \notin mixed' => f = g
    BY DEF Phantoms, ViewsStored, Saving
  <2>3. QED
    BY <2>1, <2>2 DEF ViewsStored
<1>3. ASSUME NEW u \in Users, view'[u] # Nothing, u \notin mixed', \A g \in Mine(u) : ~Saving(g)'
      PROVE  view'[u].section \subseteq everSaved'
  <2>1. CASE u # UserOf[h]
    <3>1. \A g \in Mine(u) : ~Saving(g)
      BY <1>3, <2>1 DEF Mine, Saving
    <3>2. view'[u] = view[u]
      BY <2>1 DEF ViewFits
    <3>3. QED
      BY <1>1, <1>3, <3>1, <3>2 DEF Phantoms, NoPhantomEdit
  <2>2. CASE u = UserOf[h] /\ Saving(h)
    BY <1>1, <1>3, <2>2 DEF ViewFits, Stored
  <2>3. CASE u = UserOf[h] /\ ~Saving(h)
    <3>1. \A g \in Mine(u) : ~Saving(g)
      BY <1>3, <2>3 DEF Mine, Saving
    <3>2. view'[u] = view[u]
      BY <2>3 DEF ViewFits
    <3>3. QED
      BY <1>1, <1>3, <3>1, <3>2 DEF Phantoms, NoPhantomEdit
  <2>4. QED
    BY <2>1, <2>2, <2>3
<1>4. NoPhantomEdit'
  BY <1>3 DEF NoPhantomEdit, Mine
<1>5. QED
  BY <1>2, <1>4 DEF Phantoms

\* A step after which a handler saves, from the snapshot b.
LEMMA SavesFrom ==
    ASSUME Phantoms, NEW h \in Handlers, UserOf[h] \in Users, UNCHANGED server,
           NEW w, ViewFits, view' = [view EXCEPT ![UserOf[h]] = w],
           Saving(h)', run'[h].at = "sent", mixed \subseteq mixed',
           UserOf[h] \notin mixed' => Stored(run'[h].base),
           UserOf[h] \notin mixed' =>
              \A g \in Handlers \ {h} : UserOf[g] = UserOf[h] => ~Saving(g),
           \A g \in Handlers \ {h} : run'[g] = run[g],
           \A u \in Users : get'[u] = get[u]
    PROVE  Phantoms'
<1>1. everSaved' = everSaved /\ row' = row
  BY DEF server
<1>2. ViewsStored'
  <2>1. /\ Stored(row)'
        /\ \A u \in Users : get'[u].at = "served" => Stored(get[u].data)'
        /\ \A g \in Handlers : Saving(g)' /\ run'[g].at = "served" => Stored(run[g].answer)'
        /\ \A g \in Handlers : Saving(g)' /\ UserOf[g] \notin mixed' => Stored(run[g].base)'
    BY <1>1 DEF Phantoms, ViewsStored, Stored, Saving
  <2>2. \A f, g \in Handlers : Saving(f)' /\ Saving(g)' /\ UserOf[f] = UserOf[g]
                               /\ UserOf[g] \notin mixed' => f = g
    BY DEF Phantoms, ViewsStored, Saving
  <2>3. QED
    BY <2>1, <2>2 DEF ViewsStored
<1>3. ASSUME NEW u \in Users, view'[u] # Nothing, u \notin mixed', \A g \in Mine(u) : ~Saving(g)'
      PROVE  view'[u].section \subseteq everSaved'
  <2>1. u # UserOf[h]
    BY <1>3 DEF Mine
  <2>2. \A g \in Mine(u) : ~Saving(g)
    BY <1>3, <2>1 DEF Mine, Saving
  <2>3. view'[u] = view[u]
    BY <2>1 DEF ViewFits
  <2>4. QED
    BY <1>1, <1>3, <2>2, <2>3 DEF Phantoms, NoPhantomEdit
<1>4. NoPhantomEdit'
  BY <1>3 DEF NoPhantomEdit, Mine
<1>5. QED
  BY <1>2, <1>4 DEF Phantoms

\* The handler goes on: with its next call, or to its end.
LEMMA ContinuePhantoms ==
    ASSUME Types, Phantoms, NEW h \in Handlers, NEW w \in Row \cup {Nothing}, Continue(h, w),
           run[h].call # "refresh", UNCHANGED server,
           Saving(h) => w # Nothing,
           Saving(h) /\ UserOf[h] \notin mixed => Stored(w),
           ~Saving(h) => w = view[UserOf[h]]
    PROVE  Phantoms'
<1> DEFINE u == UserOf[h]  call == NextCall(h)  c == run[h]
<1>1. u \in Users
  BY ProjectPageAssumption
<1>2. RunFits /\ ViewFits /\ GetFits
  BY DEF Types
<1>3. Fits(h, c)
  BY <1>2 DEF RunFits
<1>4. c.base \in Row \cup {Nothing} /\ c.op \in Operations \cup {Nothing}
      /\ (Saving(h) => c.base # Nothing)
  BY <1>3 DEF Fits, Saving
<1>5. Overlap(h) => mixed \subseteq mixed'
  BY DEF Overlap
<1>6. ASSUME Saving(h), u \notin mixed
      PROVE  /\ Stored(c.base)
             /\ \A g \in Handlers \ {h} : UserOf[g] = u => ~Saving(g)
  BY <1>6 DEF Phantoms, ViewsStored
<1>7. CASE /\ call = "none"
           /\ view' = [view EXCEPT ![u] = w]
           /\ run' = [run EXCEPT ![h] = Idle]
           /\ UNCHANGED <<get, mixed>>
  <2>1. run'[h] = Idle /\ \A g \in Handlers \ {h} : run'[g] = run[g]
    BY <1>2, <1>7, IdleFits, RunPart
  <2>2. ~Saving(h)'
    BY <2>1 DEF Saving, Saves, Idle
  <2>3. QED
    BY <1>1, <1>2, <1>7, <2>1, <2>2, RestsAt
<1>8. CASE /\ call = "status"
           /\ view' = [view EXCEPT ![u] = Optimistic(w, "status", "signed-off")]
           /\ Send(h, c.op, "status", c.base, "signed-off")
           /\ Overlap(h)
           /\ UNCHANGED get
  <2>1. Saving(h)
    BY <1>8, NextCallParts DEF Saving, Saves
  <2>2. /\ run'[h] = [op |-> c.op, call |-> "status", at |-> "sent",
                      base |-> c.base, body |-> "signed-off", answer |-> Nothing]
        /\ \A g \in Handlers \ {h} : run'[g] = run[g]
    <3> HIDE DEF call, c
    <3>1. "status" \in Calls /\ "signed-off" \in Status
      BY DEF Calls, Status
    <3>2. QED
      BY <1>2, <1>4, <1>8, <2>1, <3>1, SendPart
  <2>3. Saving(h)' /\ run'[h].at = "sent" /\ run'[h].base = c.base
    BY <2>2 DEF Saving, Saves
  <2>4. u \notin mixed' => Stored(run'[h].base)
    BY <1>5, <1>6, <1>8, <2>1, <2>3
  <2>5. u \notin mixed' => \A g \in Handlers \ {h} : UserOf[g] = u => ~Saving(g)
    BY <1>5, <1>6, <1>8, <2>1
  <2> DEFINE v == Optimistic(w, "status", "signed-off")
  <2>6. view' = [view EXCEPT ![u] = v]
    BY <1>8
  <2> HIDE DEF v, call, c
  <2>7. QED
    BY <1>1, <1>2, <1>5, <1>8, <2>2, <2>3, <2>4, <2>5, <2>6, SavesFrom
<1>9. CASE /\ call \in {"config", "job"}
           /\ view' = [view EXCEPT ![u] = w]
           /\ Send(h, c.op, call, c.base, Nothing)
           /\ Overlap(h)
           /\ UNCHANGED get
  <2>1. call = "config" => Saving(h)
    BY <1>9, NextCallParts DEF Saving, Saves
  <2>2. /\ run'[h] = [op |-> c.op, call |-> call, at |-> "sent",
                      base |-> c.base, body |-> Nothing, answer |-> Nothing]
        /\ \A g \in Handlers \ {h} : run'[g] = run[g]
    <3>1. call \in Saves => c.base # Nothing
      BY <1>4, <1>9, <2>1 DEF Saves
    <3>2. call \in Calls /\ call \notin {"section", "status", "approvals"}
      BY <1>9 DEF Calls
    <3> HIDE DEF call, c
    <3>3. QED
      BY <1>2, <1>4, <1>9, <3>1, <3>2, SendPart
  <2>3. CASE call = "config"
    <3>1. Saving(h)' /\ run'[h].at = "sent" /\ run'[h].base = c.base
      BY <2>2, <2>3 DEF Saving, Saves
    <3>2. u \notin mixed' => Stored(run'[h].base)
      BY <1>5, <1>6, <1>9, <2>1, <2>3, <3>1
    <3>3. u \notin mixed' => \A g \in Handlers \ {h} : UserOf[g] = u => ~Saving(g)
      BY <1>5, <1>6, <1>9, <2>1, <2>3
    <3> HIDE DEF call, c
    <3>4. QED
      BY <1>1, <1>2, <1>5, <1>9, <2>2, <3>1, <3>2, <3>3, SavesFrom
  <2>4. CASE call = "job"
    <3>1. ~Saving(h)'
      BY <2>2, <2>4 DEF Saving, Saves
    <3> HIDE DEF call, c
    <3>2. QED
      BY <1>1, <1>2, <1>5, <1>9, <2>2, <3>1, RestsAt
  <2>5. QED
    BY <1>9, <2>3, <2>4
<1>10. CASE /\ call = "refresh"
            /\ view' = [view EXCEPT ![u] = w]
            /\ Send(h, c.op, "refresh", c.base, Nothing)
            /\ JoinGet(u, h)
            /\ UNCHANGED mixed
  <2>1. /\ run'[h] = [op |-> c.op, call |-> "refresh", at |-> "sent",
                      base |-> c.base, body |-> Nothing, answer |-> Nothing]
        /\ \A g \in Handlers \ {h} : run'[g] = run[g]
    <3> HIDE DEF call, c
    <3>1. "refresh" \in Calls /\ "refresh" \notin Saves
      BY DEF Calls, Saves
    <3>2. QED
      BY <1>2, <1>4, <1>10, <3>1, SendPart
  <2>2. ~Saving(h)'
    BY <2>1 DEF Saving, Saves
  <2>3. \A v \in Users : get'[v].at = "served" =>
            get[v].at = "served" /\ get'[v].data = get[v].data
    BY <1>1, <1>2, <1>10, JoinPart
  <2> HIDE DEF call, c
  <2>4. QED
    BY <1>1, <1>2, <1>10, <2>1, <2>2, <2>3, RestsAt
<1>11. QED
  BY <1>7, <1>8, <1>9, <1>10 DEF Continue

\* A click: what the handler rolls back to is what the page showed.
LEMMA ActPhantoms ==
    ASSUME Types, Phantoms, NEW h \in Handlers, Act(h)
    PROVE  Phantoms'
<1> DEFINE u == UserOf[h]
<1>1. u \in Users
  BY ProjectPageAssumption
<1>2. RunFits /\ ViewFits /\ GetFits
  BY DEF Types
<1>3. ASSUME NEW op, CanStart(h, op) PROVE view[u] \in Row /\ view[u] # Nothing /\ ~Saving(h)
  BY <1>1, <1>2, <1>3 DEF CanStart, ViewFits, Busy, Saving, Saves, Idle
<1>4. ASSUME NEW op \in Operations, NEW call \in Saves, NEW w, NEW body, CanStart(h, op),
             view' = [view EXCEPT ![u] = w], Send(h, op, call, view[u], body), Overlap(h),
             UNCHANGED <<server, get>>,
             call = "section" => body \in SUBSET Edits,
             call = "status" => body \in Status,
             call = "approvals" => /\ body \in [Roles -> ApprovalStatus]
                                   /\ RoleOf[u] \in Roles
                                   /\ body[RoleOf[u]] = "approved"
      PROVE  Phantoms'
  <2>1. view[u] \in Row /\ view[u] # Nothing /\ ~Saving(h) /\ call \in Calls
    BY <1>3, <1>4 DEF Saves, Calls
  <2> DEFINE b == view[u]
  <2>2. b \in Row /\ b \in Row \cup {Nothing} /\ b # Nothing /\ Send(h, op, call, b, body)
    BY <1>4, <2>1
  <2> HIDE DEF b
  <2>3. /\ run'[h] = [op |-> op, call |-> call, at |-> "sent",
                      base |-> b, body |-> body, answer |-> Nothing]
        /\ \A g \in Handlers \ {h} : run'[g] = run[g]
    BY <1>2, <1>4, <2>1, <2>2, SendPart
  <2>4. Saving(h)' /\ run'[h].at = "sent" /\ run'[h].base = b
    BY <2>3 DEF Saving
  <2>5. mixed \subseteq mixed'
    BY <1>4 DEF Overlap
  <2>6. ASSUME u \notin mixed', NEW g \in Handlers \ {h}, UserOf[g] = u PROVE ~Saving(g)
    BY <1>1, <1>4, <2>6 DEF Overlap, Mine
  <2>7. u \notin mixed' => Stored(run'[h].base)
    <3> SUFFICES ASSUME u \notin mixed' PROVE Stored(view[u])
      BY <2>4 DEF b
    <3>1. \A g \in Mine(u) : ~Saving(g)
      BY <2>1, <2>6 DEF Mine
    <3>2. QED
      BY <1>1, <2>1, <2>5, <3>1 DEF Phantoms, NoPhantomEdit, Stored
  <2>8. QED
    BY <1>1, <1>2, <1>4, <2>3, <2>4, <2>5, <2>6, <2>7, SavesFrom
<1>5. ASSUME NEW e \in Edits, NEW op \in {"save", "complete"}, CanStart(h, op),
             view' = [view EXCEPT ![u] = Optimistic(@, "section", view[u].section \cup {e})],
             Send(h, op, "section", view[u], view[u].section \cup {e}), Overlap(h),
             UNCHANGED <<server, get>>
      PROVE  Phantoms'
  <2> DEFINE body == view[u].section \cup {e}
             w == Optimistic(view[u], "section", body)
  <2>1. body \in SUBSET Edits
    BY <1>3, <1>5, RowFields
  <2>2. view' = [view EXCEPT ![u] = w] /\ Send(h, op, "section", view[u], body)
    BY <1>5
  <2>3. op \in Operations /\ "section" \in Saves
    BY <1>5 DEF Operations, Saves
  <2> HIDE DEF body, w
  <2>4. QED
    BY <1>4, <1>5, <2>1, <2>2, <2>3
<1>6. CASE \E e \in Edits : SaveSection(h, e) \/ MarkComplete(h, e)
  BY <1>5, <1>6 DEF SaveSection, MarkComplete
<1>7. CASE Confirm(h)
  <2> DEFINE body == WithApproval(view[u].approvals, RoleOf[u])
             w == Optimistic(view[u], "approvals", body)
  <2>1. CanStart(h, "approve") /\ modal[u] # "closed"
    BY <1>7 DEF Confirm
  <2>2. RoleOf[u] \in Roles
    BY <1>1, <1>2, <2>1 DEF ViewFits
  <2>3. body \in [Roles -> ApprovalStatus] /\ body[RoleOf[u]] = "approved"
    BY <1>3, <2>1, <2>2, ApprovalType, RowFields
  <2>4. /\ view' = [view EXCEPT ![u] = w] /\ Send(h, "approve", "approvals", view[u], body)
        /\ Overlap(h) /\ UNCHANGED <<server, get>>
    BY <1>7 DEF Confirm
  <2>5. "approve" \in Operations /\ "approvals" \in Saves
    BY DEF Operations, Saves
  <2> HIDE DEF body, w
  <2>6. QED
    BY <1>4, <2>1, <2>2, <2>3, <2>4, <2>5
<1>8. CASE Unblock(h)
  <2> DEFINE w == Optimistic(view[u], "status", "in-progress")
  <2>1. /\ CanStart(h, "unblock") /\ view' = [view EXCEPT ![u] = w]
        /\ Send(h, "unblock", "status", view[u], "in-progress")
        /\ Overlap(h) /\ UNCHANGED <<server, get>>
    BY <1>8 DEF Unblock
  <2>2. "unblock" \in Operations /\ "status" \in Saves /\ "in-progress" \in Status
    BY DEF Operations, Saves, Status
  <2> HIDE DEF w
  <2>3. QED
    BY <1>4, <2>1, <2>2
<1>9. ASSUME NEW op \in {"block", "retry"}, CanStart(h, op),
             Send(h, op, op, view[u], Nothing),
             UNCHANGED <<server, view, get, mixed>>
      PROVE  Phantoms'
  <2>1. view[u] \in Row \cup {Nothing} /\ ~Saving(h)
    BY <1>3, <1>9
  <2>2. op \in Operations /\ op \in Calls /\ op \notin Saves
    BY <1>9 DEF Operations, Calls, Saves
  <2> DEFINE b == view[u]
  <2>3. /\ run'[h] = [op |-> op, call |-> op, at |-> "sent",
                      base |-> b, body |-> Nothing, answer |-> Nothing]
        /\ \A g \in Handlers \ {h} : run'[g] = run[g]
    <3>1. b \in Row \cup {Nothing} /\ Send(h, op, op, b, Nothing)
      BY <1>9, <2>1
    <3>2. op \notin {"section", "status", "approvals"}
      BY <1>9
    <3> HIDE DEF b
    <3>3. QED
      BY <1>2, <2>2, <3>1, <3>2, SendPart
  <2>4. ~Saving(h)'
    BY <2>2, <2>3 DEF Saving
  <2>5. view' = [view EXCEPT ![u] = b]
    BY <1>2, <1>9 DEF ViewFits
  <2>6. QED
    BY <1>1, <1>2, <1>9, <2>1, <2>3, <2>4, <2>5, RestsAt
<1>10. CASE Block(h) \/ RetryJob(h)
  BY <1>9, <1>10 DEF Block, RetryJob
<1>11. QED
  BY <1>6, <1>7, <1>8, <1>10 DEF Act

\* A served save stores what it answers with, or leaves the section alone.
LEMMA ServePhantoms ==
    ASSUME Types, Phantoms, NEW h \in Handlers, Serve(h)
    PROVE  Phantoms'
<1>1. RunFits /\ ServerFits /\ row \in Row /\ Fits(h, run[h])
  BY DEF Types, ServerFits, RunFits
<1>2. row.section \subseteq everSaved
  BY DEF Phantoms, ViewsStored, Stored
<1>3. UNCHANGED <<view, get, mixed>>
  BY DEF Serve, ServeApprovals, ServeStatus, ServeSection, ServeConfig, ServeBlock, ServeJob,
         ServeRetry
<1>4. ASSUME NEW reply \in Row \cup {Nothing}, Answer(h, reply), run[h].call # "refresh",
             Saving(h) => reply # Nothing /\ reply.section \subseteq everSaved',
             everSaved \subseteq everSaved', row'.section \subseteq everSaved'
      PROVE  Phantoms'
  <2>1. /\ run'[h].at = "served" /\ run'[h].answer = reply
        /\ run'[h].call = run[h].call /\ run'[h].base = run[h].base
        /\ \A g \in Handlers \ {h} : run'[g] = run[g]
    BY <1>1, <1>4, AnswerPart
  <2>2. \A g \in Handlers : Saving(g)' <=> Saving(g)
    BY <2>1 DEF Saving
  <2>3. \A g \in Handlers : Saving(g)' =>
              /\ run'[g].at = "served" =>
                    \/ run'[g].answer.section \subseteq everSaved'
                    \/ run[g].at = "served" /\ run'[g].answer = run[g].answer
              /\ run'[g].base = run[g].base
    BY <1>4, <2>1, <2>2
  <2>4. QED
    BY <1>3, <1>4, <2>2, <2>3, SavesKept
<1>5. ASSUME Refuse(h), run[h].call # "refresh" PROVE Phantoms'
  <2>1. /\ run'[h].at = "refused"
        /\ run'[h].call = run[h].call /\ run'[h].base = run[h].base
        /\ \A g \in Handlers \ {h} : run'[g] = run[g]
    BY <1>1, <1>5, RefusePart DEF Refuse
  <2>2. \A g \in Handlers : Saving(g)' <=> Saving(g)
    BY <2>1 DEF Saving
  <2>3. everSaved' = everSaved /\ row' = row
    BY <1>5 DEF Refuse, server
  <2>4. QED
    BY <1>2, <1>3, <2>1, <2>2, <2>3, SavesKept
<1>6. CASE ServeApprovals(h)
  <2> DEFINE a == run[h].body
             st == IF row.status = "blocked" THEN "blocked" ELSE Derived(a)
             p == [row EXCEPT !.approvals = a, !.status = st]
  <2>1. a \in [Roles -> ApprovalStatus] /\ run[h].call # "refresh"
    BY <1>1, <1>6 DEF ServeApprovals, Fits
  <2>2. st \in Status
    BY DEF Derived, Status
  <2>3. p \in Row /\ p.section = row.section
    BY <1>1, <2>1, <2>2 DEF Row
  <2>4. \/ row' = p /\ Answer(h, Shown(p)) /\ everSaved' = everSaved
        \/ Refuse(h)
    BY <1>6 DEF ServeApprovals
  <2> HIDE DEF p
  <2>5. Shown(p) \in Row /\ Shown(p) # Nothing /\ Shown(p).section = row.section
    BY <2>3, ShownType
  <2>6. QED
    BY <1>2, <1>4, <1>5, <2>1, <2>3, <2>4, <2>5
<1>7. CASE ServeStatus(h)
  <2> DEFINE st == IF row.status = "blocked" THEN Derived(row.approvals) ELSE run[h].body
             p == [row EXCEPT !.status = st]
  <2>1. st \in Status /\ run[h].call # "refresh"
    BY <1>1, <1>7 DEF ServeStatus, Fits, Derived, Status
  <2>2. p \in Row /\ p.section = row.section
    BY <1>1, <2>1 DEF Row
  <2>3. \/ row' = p /\ Answer(h, Shown(p)) /\ everSaved' = everSaved
        \/ Refuse(h)
    BY <1>7 DEF ServeStatus
  <2> HIDE DEF p
  <2>4. Shown(p) \in Row /\ Shown(p) # Nothing /\ Shown(p).section = row.section
    BY <2>2, ShownType
  <2>5. QED
    BY <1>2, <1>4, <1>5, <2>1, <2>2, <2>3, <2>4
<1>8. CASE ServeSection(h)
  <2> DEFINE p == [row EXCEPT !.section = run[h].body]
  <2>1. run[h].body \in SUBSET Edits /\ run[h].call # "refresh"
    BY <1>1, <1>8 DEF ServeSection, Fits
  <2>2. p \in Row /\ p.section = run[h].body
    BY <1>1, <2>1 DEF Row
  <2>3. row' = p /\ Answer(h, Shown(p)) /\ everSaved' = everSaved \cup run[h].body
    BY <1>8 DEF ServeSection
  <2> HIDE DEF p
  <2>4. Shown(p) \in Row /\ Shown(p) # Nothing /\ Shown(p).section = run[h].body
    BY <2>2, ShownType
  <2>5. QED
    BY <1>4, <2>1, <2>2, <2>3, <2>4
<1>9. CASE ServeConfig(h)
  <2>1. Shown(row) \in Row /\ Shown(row) # Nothing /\ Shown(row).section = row.section
    BY <1>1, ShownType
  <2>2. Answer(h, Shown(row)) /\ row' = row /\ everSaved' = everSaved /\ run[h].call # "refresh"
    BY <1>9 DEF ServeConfig, server
  <2>3. QED
    BY <1>2, <1>4, <2>1, <2>2
<1>10. ASSUME Answer(h, Nothing), everSaved' = everSaved, run[h].call \in {"block", "job", "retry"},
              \/ row' = [row EXCEPT !.status = "blocked"]
              \/ row' = [row EXCEPT !.job = "pending"]
       PROVE  Phantoms'
  <2>1. row'.section = row.section
    BY <1>1, <1>10 DEF Row
  <2>2. ~Saving(h) /\ run[h].call # "refresh"
    BY <1>10 DEF Saving, Saves
  <2>3. QED
    BY <1>2, <1>4, <1>10, <2>1, <2>2
<1>11. CASE ServeBlock(h) \/ ServeJob(h)
  BY <1>10, <1>11 DEF ServeBlock, ServeJob
<1>12. CASE ServeRetry(h)
  <2>1. run[h].call = "retry"
    BY <1>12 DEF ServeRetry
  <2>2. \/ Answer(h, Nothing) /\ everSaved' = everSaved /\ row' = [row EXCEPT !.job = "pending"]
        \/ Refuse(h)
    BY <1>12 DEF ServeRetry
  <2>3. QED
    BY <1>5, <1>10, <2>1, <2>2
<1>13. QED
  BY <1>6, <1>7, <1>8, <1>9, <1>11, <1>12 DEF Serve

\* A lost call, a good answer, a rollback.
LEMMA HandlerPhantoms ==
    ASSUME Types, Phantoms, NEW h \in Handlers, Lose(h) \/ Reply(h) \/ Rollback(h)
    PROVE  Phantoms'
<1> DEFINE u == UserOf[h]
<1>1. RunFits /\ ViewFits /\ Fits(h, run[h])
  BY DEF Types, RunFits
<1>2. u \in Users /\ view[u] \in Row \cup {Nothing}
  BY <1>1, ProjectPageAssumption DEF ViewFits
<1>3. Stored(row) /\ UNCHANGED server
  BY DEF Phantoms, ViewsStored, Lose, Reply, Rollback
<1>4. CASE Lose(h)
  <2>1. run' = [run EXCEPT ![h].at = "refused"] /\ run[h].call # "refresh"
        /\ UNCHANGED <<view, get, mixed>>
    BY <1>4 DEF Lose
  <2>2. /\ run'[h].at = "refused"
        /\ run'[h].call = run[h].call /\ run'[h].base = run[h].base
        /\ \A g \in Handlers \ {h} : run'[g] = run[g]
    BY <1>1, <2>1, RefusePart
  <2>3. \A g \in Handlers : Saving(g)' <=> Saving(g)
    BY <2>2 DEF Saving
  <2>4. everSaved' = everSaved /\ row' = row
    BY <1>3 DEF server
  <2>5. QED
    BY <1>3, <2>1, <2>2, <2>3, <2>4, SavesKept DEF Stored
<1>5. CASE Reply(h)
  <2> DEFINE w == IF Saving(h) THEN run[h].answer ELSE view[u]
  <2>1. /\ w \in Row \cup {Nothing} /\ run[h].call # "refresh"
        /\ Saving(h) => w # Nothing /\ Stored(w)
        /\ ~Saving(h) => w = view[u]
    BY <1>1, <1>2, <1>5 DEF Fits, Saving, Reply, Phantoms, ViewsStored
  <2>2. Continue(h, w)
    BY <1>5 DEF Reply
  <2> HIDE DEF w
  <2>3. QED
    BY <1>3, <2>1, <2>2, ContinuePhantoms
<1>6. CASE Rollback(h)
  <2> DEFINE w == IF Saving(h) THEN run[h].base ELSE view[u]
  <2>1. /\ w \in Row \cup {Nothing} /\ run[h].call # "refresh"
        /\ Saving(h) => w # Nothing
        /\ Saving(h) /\ u \notin mixed => Stored(w)
        /\ ~Saving(h) => w = view[u]
    BY <1>1, <1>2, <1>6 DEF Fits, Saving, Rollback, Phantoms, ViewsStored
  <2>2. \/ Continue(h, w)
        \/ /\ view' = [view EXCEPT ![u] = w]
           /\ run' = [run EXCEPT ![h] = Idle]
           /\ UNCHANGED <<get, mixed>>
    BY <1>6 DEF Rollback
  <2> HIDE DEF w
  <2>3. CASE Continue(h, w)
    BY <1>3, <2>1, <2>3, ContinuePhantoms
  <2>4. CASE /\ view' = [view EXCEPT ![u] = w]
             /\ run' = [run EXCEPT ![h] = Idle]
             /\ UNCHANGED <<get, mixed>>
    <3>1. run'[h] = Idle /\ \A g \in Handlers \ {h} : run'[g] = run[g]
      BY <1>1, <2>4, IdleFits, RunPart
    <3>2. ~Saving(h)'
      BY <3>1 DEF Saving, Saves, Idle
    <3>3. QED
      BY <1>1, <1>2, <1>3, <2>1, <2>4, <3>1, <3>2, RestsAt
  <2>5. QED
    BY <2>2, <2>3, <2>4
<1>7. QED
  BY <1>4, <1>5, <1>6

\* The steps of a page that no handler takes.
LEMMA PagePhantoms ==
    ASSUME Types, Phantoms, NEW u \in Users,
           Browse(u) \/ ServeGet(u) \/ GetReply(u) \/ GetFails(u) \/ Poll(u)
    PROVE  Phantoms'
<1>1. RunFits /\ ServerFits /\ ViewFits /\ GetFits /\ Waits
  BY DEF Types
<1>2. row \in Row /\ row.section \subseteq everSaved
  BY <1>1 DEF ServerFits, Phantoms, ViewsStored, Stored
<1>3. everSaved' = everSaved /\ row' = row /\ mixed' = mixed
  BY DEF Browse, Open, OpenModal, CloseModal, Configure, ServeGet, GetReply, GetFails, Poll, server
<1>4. ASSUME UNCHANGED <<view, run>>,
             \A v \in Users : get'[v].at = "served" =>
                \/ get'[v].data.section \subseteq everSaved
                \/ get[v].at = "served" /\ get'[v].data = get[v].data
      PROVE  Phantoms'
  <2>1. \A h \in Handlers : Saving(h)' <=> Saving(h)
    BY <1>4 DEF Saving
  <2>2. QED
    BY <1>2, <1>3, <1>4, <2>1, SavesKept
<1>5. CASE Open(u) \/ Poll(u)
  <2>1. PICK who \in {"load", "poll"} : JoinGet(u, who) /\ UNCHANGED <<view, run>>
    BY <1>5 DEF Open, Poll
  <2>2. \A v \in Users : get'[v].at = "served" =>
            get[v].at = "served" /\ get'[v].data = get[v].data
    BY <1>1, <2>1, JoinPart
  <2>3. QED
    BY <1>4, <2>1, <2>2
<1>6. CASE OpenModal(u) \/ CloseModal(u) \/ Configure(u)
  BY <1>4, <1>6 DEF OpenModal, CloseModal, Configure
<1>7. CASE ServeGet(u)
  <2> DEFINE reply == Shown(row)
  <2>1. reply.section \subseteq everSaved
    BY <1>2, ShownType
  <2>2. get' = [get EXCEPT ![u].at = "served", ![u].data = reply] /\ UNCHANGED <<view, run>>
    BY <1>7 DEF ServeGet
  <2> HIDE DEF reply
  <2>3. \A v \in Users : get'[v].at = "served" =>
            \/ get'[v].data.section \subseteq everSaved
            \/ get[v].at = "served" /\ get'[v].data = get[v].data
    BY <1>1, <2>1, <2>2 DEF GetFits
  <2>4. QED
    BY <1>4, <2>2, <2>3
<1>8. CASE GetReply(u) \/ GetFails(u)
  <2>1. /\ get' = [get EXCEPT ![u] = NoGet]
        /\ run' = [h \in Handlers |-> IF h \in get[u].for THEN Idle ELSE run[h]]
    BY <1>8 DEF GetReply, GetFails
  <2>2. \A h \in Handlers : run'[h] = IF h \in get[u].for THEN Idle ELSE run[h]
    BY <1>1, <2>1, RunIdles
  <2>3. \A h \in Handlers \cap get[u].for : ~Saving(h)
    BY <1>1 DEF Waits, Saving, Saves
  <2>4. \A h \in Handlers : Saving(h)' <=> Saving(h)
    BY <2>2, <2>3 DEF Saving, Saves, Idle
  <2>5. \A h \in Handlers : Saving(h)' => run'[h] = run[h]
    BY <2>2, <2>3, <2>4
  <2>6. \A v \in Users : get'[v].at = "served" =>
            get[v].at = "served" /\ get'[v].data = get[v].data
    BY <1>1, <2>1 DEF GetFits, NoGet
  <2>7. CASE GetFails(u)
    <3>1. UNCHANGED view
      BY <2>7 DEF GetFails
    <3>2. QED
      BY <1>2, <1>3, <2>4, <2>5, <2>6, <3>1, SavesKept
  <2>8. CASE GetReply(u)
    <3>1. /\ view' = [view EXCEPT ![u] = get[u].data] /\ get[u].at = "served"
      BY <2>8 DEF GetReply
    <3>2. Stored(get[u].data)
      BY <3>1 DEF Phantoms, ViewsStored
    <3>3. ViewsStored'
      <4>1. /\ Stored(row)'
            /\ \A v \in Users : get'[v].at = "served" => Stored(get[v].data)'
            /\ \A h \in Handlers : Saving(h)' /\ run'[h].at = "served" => Stored(run[h].answer)'
            /\ \A h \in Handlers : Saving(h)' /\ UserOf[h] \notin mixed' => Stored(run[h].base)'
        BY <1>2, <1>3, <2>4, <2>5, <2>6 DEF Phantoms, ViewsStored, Stored
      <4>2. \A f, g \in Handlers : Saving(f)' /\ Saving(g)' /\ UserOf[f] = UserOf[g]
                                   /\ UserOf[g] \notin mixed' => f = g
        BY <1>3, <2>4 DEF Phantoms, ViewsStored
      <4>3. QED
        BY <4>1, <4>2 DEF ViewsStored
    <3>4. ASSUME NEW v \in Users, view'[v] # Nothing, v \notin mixed',
                 \A h \in Mine(v) : ~Saving(h)'
          PROVE  view'[v].section \subseteq everSaved'
      <4>1. CASE v = u
        BY <1>1, <1>3, <3>1, <3>2, <4>1 DEF ViewFits, Stored
      <4>2. CASE v # u
        <5>1. view'[v] = view[v]
          BY <1>1, <3>1, <4>2 DEF ViewFits
        <5>2. \A h \in Mine(v) : ~Saving(h)
          BY <2>4, <3>4 DEF Mine
        <5>3. QED
          BY <1>3, <3>4, <5>1, <5>2 DEF Phantoms, NoPhantomEdit
      <4>3. QED
        BY <4>1, <4>2
    <3>5. NoPhantomEdit'
      BY <3>4 DEF NoPhantomEdit, Mine
    <3>6. QED
      BY <3>3, <3>5 DEF Phantoms
  <2>9. QED
    BY <1>8, <2>7, <2>8
<1>9. QED
  BY <1>5, <1>6, <1>7, <1>8 DEF Browse

\* Every step keeps the pages free of phantoms.
LEMMA PhantomsStep == Types /\ Phantoms /\ [Next]_vars => Phantoms'
<1> SUFFICES ASSUME Types, Phantoms, [Next]_vars PROVE Phantoms'
  OBVIOUS
<1>1. row \in Row /\ row.section \subseteq everSaved
  BY DEF Types, ServerFits, Phantoms, ViewsStored, Stored
<1>2. ASSUME UNCHANGED client, everSaved' = everSaved, row'.section \subseteq everSaved
      PROVE  Phantoms'
  <2>1. UNCHANGED <<view, get, run, mixed>>
    BY <1>2 DEF client
  <2>2. \A h \in Handlers : Saving(h)' <=> Saving(h)
    BY <2>1 DEF Saving
  <2>3. QED
    BY <1>2, <2>1, <2>2, SavesKept
<1>3. CASE JobStep
  <2>1. row'.section = row.section
    BY <1>1, <1>3 DEF JobStep, Row
  <2>2. QED
    BY <1>1, <1>2, <1>3, <2>1 DEF JobStep
<1>4. CASE Reset
  BY <1>2, <1>4 DEF Reset
<1>5. CASE UNCHANGED vars
  BY <1>1, <1>2, <1>5 DEF vars, client
<1>6. QED
  BY <1>3, <1>4, <1>5, ActPhantoms, ServePhantoms, HandlerPhantoms, PagePhantoms DEF Next

\* A page at rest shows only what the database has held: whatever answers are
\* lost, rollbacks happen and polls arrive, unless two saves of that page have
\* overlapped (the rollback of saveSection).
THEOREM NoPhantoms == Spec => []NoPhantomEdit
<1>1. Phantoms => NoPhantomEdit
  BY DEF Phantoms
<1>2. QED
  BY <1>1, TypesAlways, PhantomsInit, PhantomsStep, PTL DEF Spec
=============================================================================
