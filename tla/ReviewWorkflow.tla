---------------------------- MODULE ReviewWorkflow ----------------------------
(***************************************************************************)
(* Officers at work: claiming, skipping and submitting review tasks        *)
(* (backend.domain.review_workflow, api.review_tasks), the corrections     *)
(* they make and their confirmation by a second officer (correction), the  *)
(* officers' sessions (review_session), and rescan tasks (rescan).         *)
(*                                                                         *)
(* Every request is a transaction in two steps: it reads and decides, and  *)
(* it commits.  Only claim_next locks the row it has read.                 *)
(***************************************************************************)
EXTENDS Naturals, FiniteSets

CONSTANTS
    NumTasks,       (* review tasks, one per extraction, in opened_at order *)
    Checked,        (* those whose field is in MAKER_CHECKER_FIELD_CLASSES  *)
    Sampled,        (* those with an AuditSample                            *)
    Officer,
    Rescan,         (* rescan tasks                                         *)
    Request,        (* requests that can be under way                       *)
    MaxClock        (* bound: how far time goes                             *)

ASSUME ReviewAssumption ==
    /\ NumTasks \in Nat \ {0} /\ MaxClock \in Nat
    /\ Checked \subseteq 1..NumTasks /\ Sampled \subseteq 1..NumTasks
    /\ "nobody" \notin Officer

Task == 1..NumTasks
Nobody == "nobody"
NoSession == 0
SessionGap == 1             (* REVIEW_SESSION_GAP, and the unit of time     *)

VARIABLES
    assignee, closed,   (* review_task                                     *)
    hour,               (* its hour_into_session                           *)
    sessions,           (* review_session rows                             *)
    pendings,           (* pending_correction rows                         *)
    corrections,        (* correction rows                                 *)
    verdict,            (* audit_sample.officer_verdict                    *)
    state, owner, closed_at,    (* rescan_task                             *)
    clock,
    req,                (* what each request is about to commit            *)
    overlapped          (* rows and officers two requests worked on at once *)

tasks == <<assignee, closed, hour, sessions>>
edits == <<pendings, corrections, verdict>>
rescans == <<state, owner, closed_at>>
vars == <<tasks, edits, rescans, clock, req, overlapped>>

Idle == [op |-> "idle"]

\* A request on row (or for officer) x is under way.
On(x) == {r \in Request : req[r] # Idle /\ x \in req[r].on}
Start(r, x) ==
    /\ req[r] = Idle
    /\ req' = [req EXCEPT ![r] = x]
    /\ overlapped' = overlapped \cup {y \in x.on : On(y) # {}}
End(r) == req' = [req EXCEPT ![r] = Idle]

------------------------------------------------------------------------------
(* Claiming.                                                                 *)

Locked(t) == \E r \in Request : req[r].op = "claim" /\ req[r].task = t

\* Faulty variant: a plain SELECT, which sees a row another claim has in hand.
UnlockedCandidates == {t \in Task : assignee[t] = Nobody /\ ~closed[t]}

\* FOR UPDATE SKIP LOCKED: what another claim has locked is passed over.
Candidates == {t \in Task : assignee[t] = Nobody /\ ~closed[t] /\ ~Locked(t)}

OpenSessions(o) == {s \in sessions : s.of = o /\ s.open}
\* The latest of the officer's open sessions, any of those that started together.
Current(o) ==
    IF OpenSessions(o) = {} THEN {NoSession}
    ELSE {s.id : s \in {u \in OpenSessions(o) : \A v \in OpenSessions(o) : v.start <= u.start}}

\* claim_next and the read of touch_session.
Claim(r, o) ==
    \E t \in Candidates, c \in Current(o) :
        /\ \A u \in Candidates : t <= u
        /\ Start(r, [op |-> "claim", by |-> o, task |-> t, session |-> c, at |-> clock,
                     on |-> {<<"officer", o>>}])
        /\ UNCHANGED <<tasks, edits, rescans, clock>>

\* Faulty variant: a stale session is left open.
TouchedLeavingOpen(o, c, at) ==
    LET new == [of |-> o, id |-> Cardinality(sessions) + 1, start |-> at, last |-> at, open |-> TRUE]
    IN  IF \E s \in sessions : s.id = c /\ at - s.last <= SessionGap
        THEN {IF s.id = c THEN [s EXCEPT !.last = at] ELSE s : s \in sessions}
        ELSE sessions \cup {new}

\* touch_session: the current session goes on, or it was idle too long and is
\* ended, and one begins.
Touched(o, c, at) ==
    LET new == [of |-> o, id |-> Cardinality(sessions) + 1, start |-> at, last |-> at, open |-> TRUE]
    IN  IF \E s \in sessions : s.id = c /\ at - s.last <= SessionGap
        THEN {IF s.id = c THEN [s EXCEPT !.last = at] ELSE s : s \in sessions}
        ELSE {IF s.id = c THEN [s EXCEPT !.open = FALSE] ELSE s : s \in sessions} \cup {new}

CommitClaim(r) ==
    /\ req[r].op = "claim"
    /\ LET q == req[r]
           going == {s \in sessions : s.id = q.session /\ q.at - s.last <= SessionGap}
       IN  /\ assignee' = [assignee EXCEPT ![q.task] = q.by]
           /\ sessions' = Touched(q.by, q.session, q.at)
           /\ hour' = [hour EXCEPT ![q.task] =
                         IF going = {} THEN 0 ELSE q.at - (CHOOSE s \in going : TRUE).start]
    /\ End(r)
    /\ UNCHANGED <<closed, edits, rescans, clock, overlapped>>

------------------------------------------------------------------------------
(* Submitting and skipping: the task is read, its row is not locked.         *)

\* Faulty variant: whether the task is closed is not asked.
HeldByClosedOrNot(o, t) == assignee[t] = o

HeldBy(o, t) == ~closed[t] /\ assignee[t] = o

\* A correction is far from the prediction (edit distance above the
\* threshold) or not; a verdict is given or not.
BeginSubmit(r, o, t, far, v) ==
    /\ HeldBy(o, t)
    /\ Start(r, [op |-> "submit", by |-> o, task |-> t, far |-> far, verdict |-> v,
                 on |-> {<<"task", t>>}])
    /\ UNCHANGED <<tasks, edits, rescans, clock>>

NeedsChecker(t, far) == t \in Checked /\ far

\* submit_correction, record_officer_verdict and the task's closed_at.  The
\* update of the task waits for a claim that has it locked.
CommitSubmit(r) ==
    /\ req[r].op = "submit" /\ ~Locked(req[r].task)
    /\ LET q == req[r]
       IN  /\ IF NeedsChecker(q.task, q.far)
              THEN /\ pendings' = pendings \cup
                        {[id |-> Cardinality(pendings) + 1, task |-> q.task, maker |-> q.by,
                          checker |-> Nobody]}
                   /\ UNCHANGED corrections
              ELSE /\ corrections' = corrections \cup
                        {[id |-> Cardinality(corrections) + 1, task |-> q.task, actor |-> q.by,
                          far |-> q.far, from |-> 0]}
                   /\ UNCHANGED pendings
           /\ verdict' = IF q.task \in Sampled /\ q.verdict # "pending"
                         THEN [verdict EXCEPT ![q.task] = q.verdict] ELSE verdict
           /\ closed' = [closed EXCEPT ![q.task] = TRUE]
    /\ End(r)
    /\ UNCHANGED <<assignee, hour, sessions, rescans, clock, overlapped>>

BeginSkip(r, o, t) ==
    /\ HeldBy(o, t)
    /\ Start(r, [op |-> "skip", by |-> o, task |-> t, on |-> {<<"task", t>>}])
    /\ UNCHANGED <<tasks, edits, rescans, clock>>

CommitSkip(r) ==
    /\ req[r].op = "skip" /\ ~Locked(req[r].task)
    /\ assignee' = [assignee EXCEPT ![req[r].task] = Nobody]
    /\ End(r)
    /\ UNCHANGED <<closed, hour, sessions, edits, rescans, clock, overlapped>>

------------------------------------------------------------------------------
(* The second officer.                                                       *)

\* Faulty variant: the maker may confirm once the task is out of their hands.
MayConfirmUnlessHolder(o, p) == o # assignee[p.task]

\* Neither the maker nor whoever holds the task.
MayConfirm(o, p) == o # p.maker /\ o # assignee[p.task]

\* Faulty variant: a confirmed correction can be confirmed again.
BeginConfirmAgain(r, o, p) ==
    /\ MayConfirm(o, p)
    /\ Start(r, [op |-> "confirm", by |-> o, pending |-> p.id, on |-> {<<"pending", p.id>>}])
    /\ UNCHANGED <<tasks, edits, rescans, clock>>

\* confirm_pending_correction; a refusal commits an audit entry only.
BeginConfirm(r, o, p) ==
    /\ p.checker = Nobody /\ MayConfirm(o, p)
    /\ Start(r, [op |-> "confirm", by |-> o, pending |-> p.id, on |-> {<<"pending", p.id>>}])
    /\ UNCHANGED <<tasks, edits, rescans, clock>>

CommitConfirm(r) ==
    /\ req[r].op = "confirm"
    /\ LET q == req[r]
           p == CHOOSE x \in pendings : x.id = q.pending
       IN  /\ corrections' = corrections \cup
                {[id |-> Cardinality(corrections) + 1, task |-> p.task, actor |-> q.by,
                  far |-> TRUE, from |-> p.id]}
           /\ pendings' = (pendings \ {p}) \cup {[p EXCEPT !.checker = q.by]}
    /\ End(r)
    /\ UNCHANGED <<tasks, verdict, rescans, clock, overlapped>>

------------------------------------------------------------------------------
(* Rescan tasks.                                                             *)

OpenRescan(x) ==
    /\ state[x] = "none"
    /\ state' = [state EXCEPT ![x] = "open"]
    /\ UNCHANGED <<tasks, edits, owner, closed_at, clock, req, overlapped>>

\* Faulty variant: any task that is there can be assigned.
BeginAssignAny(r, x, o) ==
    /\ state[x] # "none"
    /\ Start(r, [op |-> "assign", by |-> o, rescan |-> x, on |-> {<<"rescan", x>>}])
    /\ UNCHANGED <<tasks, edits, rescans, clock>>

BeginAssign(r, x, o) ==
    /\ state[x] = "open"
    /\ Start(r, [op |-> "assign", by |-> o, rescan |-> x, on |-> {<<"rescan", x>>}])
    /\ UNCHANGED <<tasks, edits, rescans, clock>>

BeginCloseRescan(r, x) ==
    /\ state[x] \in {"open", "assigned"}
    /\ Start(r, [op |-> "close", rescan |-> x, on |-> {<<"rescan", x>>}])
    /\ UNCHANGED <<tasks, edits, rescans, clock>>

CommitRescan(r) ==
    /\ req[r].op \in {"assign", "close"}
    /\ LET x == req[r].rescan
       IN  IF req[r].op = "assign"
           THEN /\ state' = [state EXCEPT ![x] = "assigned"]
                /\ owner' = [owner EXCEPT ![x] = req[r].by]
                /\ UNCHANGED closed_at
           ELSE /\ state' = [state EXCEPT ![x] = "closed"]
                /\ closed_at' = [closed_at EXCEPT ![x] = TRUE]
                /\ UNCHANGED owner
    /\ End(r)
    /\ UNCHANGED <<tasks, edits, clock, overlapped>>

------------------------------------------------------------------------------
\* A statement fails or the connection breaks: nothing is committed.
Abort(r) ==
    /\ req[r] # Idle
    /\ End(r)
    /\ UNCHANGED <<tasks, edits, rescans, clock, overlapped>>

Tick ==
    /\ clock < MaxClock
    /\ clock' = clock + 1
    /\ UNCHANGED <<tasks, edits, rescans, req, overlapped>>

Init ==
    /\ assignee = [t \in Task |-> Nobody] /\ closed = [t \in Task |-> FALSE]
    /\ hour = [t \in Task |-> 0] /\ sessions = {}
    /\ pendings = {} /\ corrections = {} /\ verdict = [t \in Sampled |-> "pending"]
    /\ state = [x \in Rescan |-> "none"] /\ owner = [x \in Rescan |-> Nobody]
    /\ closed_at = [x \in Rescan |-> FALSE]
    /\ clock = 0 /\ req = [r \in Request |-> Idle] /\ overlapped = {}

Review(r) ==
    \/ \E o \in Officer : Claim(r, o)
    \/ \E o \in Officer, t \in Task, far \in BOOLEAN, v \in {"agree", "disagree", "pending"} :
          BeginSubmit(r, o, t, far, v)
    \/ \E o \in Officer, t \in Task : BeginSkip(r, o, t)
    \/ \E o \in Officer, p \in pendings : BeginConfirm(r, o, p)
    \/ CommitClaim(r) \/ CommitSubmit(r) \/ CommitSkip(r) \/ CommitConfirm(r)

Rescanning(r) ==
    \/ \E x \in Rescan, o \in Officer : BeginAssign(r, x, o)
    \/ \E x \in Rescan : BeginCloseRescan(r, x)
    \/ CommitRescan(r)

Next ==
    \/ \E r \in Request : Review(r) \/ Rescanning(r) \/ Abort(r)
    \/ \E x \in Rescan : OpenRescan(x)
    \/ Tick

Spec == Init /\ [][Next]_vars

------------------------------------------------------------------------------
(* Properties.                                                               *)

Submissions(t) ==
    {p \in pendings : p.task = t} \cup {c \in corrections : c.task = t /\ c.from = 0}

TypeOK ==
    /\ assignee \in [Task -> Officer \cup {Nobody}] /\ closed \in [Task -> BOOLEAN]
    /\ hour \in [Task -> 0..MaxClock]
    /\ \A s \in sessions : s.of \in Officer /\ s.start <= s.last /\ s.last <= clock
    /\ \A p \in pendings : p.task \in Checked /\ p.maker \in Officer
    /\ \A c \in corrections : c.actor \in Officer /\ c.from \in {0} \cup {p.id : p \in pendings}
    /\ verdict \in [Sampled -> {"agree", "disagree", "pending"}]
    /\ state \in [Rescan -> {"none", "open", "assigned", "closed"}]
    /\ \A x \in Rescan : state[x] = "assigned" => owner[x] # Nobody
    /\ clock \in 0..MaxClock

\* A task yields one correction, or one held for a checker; a second one needs
\* two requests that both read the task before either had closed it (submit).
OneSubmissionUnlessOverlapped ==
    \A t \in Task : Cardinality(Submissions(t)) > 1 => <<"task", t>> \in overlapped

\* A held correction takes effect once, unless two officers confirmed it at
\* the same time: confirm_pending_correction locks nothing.
ConfirmedOnceUnlessOverlapped ==
    \A p \in pendings :
        Cardinality({c \in corrections : c.from = p.id}) > 1 => <<"pending", p.id>> \in overlapped

\* FR-REV-12, however claims, skips, submits and confirmations overlap: what
\* needs a checker is no correction before another officer than the maker has
\* confirmed it, and nobody confirms who still holds the task.
TwoPairsOfEyes ==
    \A c \in corrections :
        /\ c.from = 0 => ~(c.task \in Checked /\ c.far)
        /\ c.from # 0 => \E p \in pendings : p.id = c.from /\ p.checker # Nobody /\ c.actor # p.maker
                                            /\ c.actor # assignee[c.task]

\* A task goes from one officer to another by way of the pool only, and nobody
\* is given a closed one (claim_next, skip).
ThroughThePool ==
    [][\A t \in Task :
          assignee'[t] \notin {Nobody, assignee[t]} => assignee[t] = Nobody /\ ~closed[t]]_vars

\* An officer has one open session, unless two of their claims overlapped
\* (touch_session).
OneOpenSessionUnlessOverlapped ==
    \A o \in Officer :
        Cardinality(OpenSessions(o)) > 1 => <<"officer", o>> \in overlapped

\* A closed rescan task is open again only if it was being assigned while it
\* was closed (rescan.assign, rescan.close).
RescanClosedUnlessOverlapped ==
    \A x \in Rescan : closed_at[x] /\ state[x] # "closed" => <<"rescan", x>> \in overlapped

\* The desk does each thing once: nothing in its transactions locks or rechecks
\* what they read, and still a double of any kind has two overlapping requests
\* behind it (submit, confirm_pending_correction, touch_session, close).
OnceUnlessOverlapped ==
    /\ OneSubmissionUnlessOverlapped /\ ConfirmedOnceUnlessOverlapped
    /\ OneOpenSessionUnlessOverlapped /\ RescanClosedUnlessOverlapped
=============================================================================
