------------------------- MODULE ReviewWorkflowProofs --------------------------
(***************************************************************************)
(* Proofs about ReviewWorkflow, for any tasks, officers, rescan tasks and  *)
(* requests, and any stretch of time.                                      *)
(***************************************************************************)
EXTENDS ReviewWorkflow, FiniteSetTheorems, TLAPS

(* The requests.                                                             *)

Busy(r) == req[r] # Idle

ReqOK(q) ==
    \/ q = Idle
    \/ /\ q.op = "claim" /\ q.by \in Officer /\ q.task \in Task /\ q.session \in Nat
       /\ q.at \in 0..clock /\ q.on = {<<"officer", q.by>>}
    \/ /\ q.op = "submit" /\ q.by \in Officer /\ q.task \in Task /\ q.far \in BOOLEAN
       /\ q.verdict \in {"agree", "disagree", "pending"} /\ q.on = {<<"task", q.task>>}
    \/ q.op = "skip" /\ q.task \in Task /\ q.on = {<<"task", q.task>>}
    \/ q.op = "confirm" /\ q.by \in Officer /\ q.on = {<<"pending", q.pending>>}
    \/ q.op = "assign" /\ q.by \in Officer /\ q.rescan \in Rescan /\ q.on = {<<"rescan", q.rescan>>}
    \/ q.op = "close" /\ q.rescan \in Rescan /\ q.on = {<<"rescan", q.rescan>>}

\* Two requests on one row or officer have overlapped.
Alone ==
    \A r, s \in Request : Busy(r) /\ Busy(s) /\ r # s => \A x \in req[r].on \cap req[s].on : x \in overlapped

ReqInv ==
    /\ DOMAIN req = Request /\ clock \in 0..MaxClock
    /\ \A r \in Request : ReqOK(req[r])
    /\ Alone

(* The tasks: what a claim has locked nobody holds.                          *)

TaskInv ==
    /\ assignee \in [Task -> Officer \cup {Nobody}] /\ closed \in [Task -> BOOLEAN]
    /\ \A r \in Request : req[r].op = "claim" =>
          /\ assignee[req[r].task] = Nobody /\ ~closed[req[r].task]
          /\ \A s \in Request : req[s].op = "claim" /\ req[s].task = req[r].task => s = r

(* The sessions: a claim knows its officer's open session.                   *)

Session(s) ==
    /\ s = [of |-> s.of, id |-> s.id, start |-> s.start, last |-> s.last, open |-> s.open]
    /\ s.of \in Officer /\ s.id \in Nat \ {0} /\ s.id <= Cardinality(sessions)
    /\ s.start \in Nat /\ s.last \in Nat /\ s.start <= s.last /\ s.last <= clock
    /\ s.open \in BOOLEAN

SessionRows ==
    /\ IsFiniteSet(sessions) /\ \A s \in sessions : Session(s)
    /\ \A s, u \in sessions : s.id = u.id => s = u

ClaimKnows(q) ==
    /\ q.session <= Cardinality(sessions)
    /\ \A s \in sessions : s.id = q.session => s.of = q.by /\ s.start <= q.at
    /\ <<"officer", q.by>> \notin overlapped => \A s \in OpenSessions(q.by) : s.id = q.session

OneOpen ==
    \A o \in Officer : <<"officer", o>> \notin overlapped => \A s, u \in OpenSessions(o) : s = u

SessionInv ==
    /\ SessionRows /\ OneOpen /\ hour \in [Task -> 0..MaxClock]
    /\ \A r \in Request : req[r].op = "claim" => ClaimKnows(req[r])

(* The corrections.                                                          *)

Pending(p) ==
    /\ p = [id |-> p.id, task |-> p.task, maker |-> p.maker, checker |-> p.checker]
    /\ p.id \in Nat \ {0} /\ p.id <= Cardinality(pendings) /\ p.task \in Checked
    /\ p.maker \in Officer /\ p.checker \in Officer \cup {Nobody}

Correction(c) ==
    /\ "from" \in DOMAIN c /\ c.task \in Task /\ c.actor \in Officer
    /\ c.from = 0 \/ \E p \in pendings : p.id = c.from

EditRows ==
    /\ IsFiniteSet(pendings) /\ \A p \in pendings : Pending(p)
    /\ \A p, q \in pendings : p.id = q.id => p = q
    /\ \A c \in corrections : Correction(c)
    /\ verdict \in [Sampled -> {"agree", "disagree", "pending"}]

\* What was submitted is closed; and it was submitted once.
SubmitInv ==
    /\ \A p \in pendings : closed[p.task]
    /\ \A c \in corrections : closed[c.task]
    /\ \A t \in Task : <<"task", t>> \notin overlapped => \A a, b \in Submissions(t) : a = b
    /\ \A r \in Request : req[r].op = "submit" /\ <<"task", req[r].task>> \notin overlapped =>
          Submissions(req[r].task) = {}

\* Who confirms is not the maker and does not hold the task.
EyesInv ==
    /\ TwoPairsOfEyes
    /\ \A r \in Request : req[r].op = "confirm" =>
          \E p \in pendings :
             p.id = req[r].pending /\ req[r].by # p.maker /\ req[r].by # assignee[p.task]

Confirmations(i) == {c \in corrections : c.from = i}

\* What has no checker yet has no effect yet.
ConfirmInv ==
    /\ \A p \in pendings : p.checker = Nobody => Confirmations(p.id) = {}
    /\ \A p \in pendings : <<"pending", p.id>> \notin overlapped => \A a, b \in Confirmations(p.id) : a = b
    /\ \A r \in Request : req[r].op = "confirm" /\ <<"pending", req[r].pending>> \notin overlapped =>
          \A p \in pendings : p.id = req[r].pending => p.checker = Nobody

(* The rescan tasks.                                                         *)

RescanInv ==
    /\ state \in [Rescan -> {"none", "open", "assigned", "closed"}]
    /\ owner \in [Rescan -> Officer \cup {Nobody}] /\ closed_at \in [Rescan -> BOOLEAN]
    /\ \A x \in Rescan : state[x] = "assigned" => owner[x] # Nobody
    /\ \A x \in Rescan : <<"rescan", x>> \notin overlapped => (closed_at[x] => state[x] = "closed")
    /\ \A r \in Request : req[r].op = "assign" /\ <<"rescan", req[r].rescan>> \notin overlapped =>
          ~closed_at[req[r].rescan]

IInv == ReqInv /\ TaskInv /\ SessionInv /\ EditRows /\ SubmitInv /\ EyesInv /\ ConfirmInv /\ RescanInv

------------------------------------------------------------------------------
(* A request begins.                                                         *)

Begins(r, q) ==
    /\ Start(r, q) /\ ReqOK(q) /\ q # Idle
    /\ UNCHANGED <<tasks, edits, rescans, clock>>
    /\ q.op = "claim" => q.task \in Candidates /\ q.session \in Current(q.by) /\ q.at = clock
    /\ q.op = "submit" => ~closed[q.task]
    /\ q.op = "confirm" => \E p \in pendings : p.id = q.pending /\ p.checker = Nobody /\ MayConfirm(q.by, p)
    /\ q.op = "assign" => state[q.rescan] = "open"

LEMMA BeginsFrame ==
    ASSUME ReqInv, NEW r \in Request, NEW q, Begins(r, q)
    PROVE  /\ UNCHANGED <<assignee, closed, hour, sessions, pendings, corrections, verdict>>
           /\ UNCHANGED <<state, owner, closed_at, clock>>
           /\ req[r] = Idle /\ DOMAIN req' = Request /\ req'[r] = q
           /\ \A s \in Request \ {r} : req'[s] = req[s]
           /\ overlapped \subseteq overlapped'
           /\ \A x \in q.on : x \notin overlapped' =>
                 \A s \in Request : Busy(s) => x \notin req[s].on
  <1>1. /\ UNCHANGED <<assignee, closed, hour, sessions, pendings, corrections, verdict>>
        /\ UNCHANGED <<state, owner, closed_at, clock>>
    BY DEF Begins, tasks, edits, rescans
  <1>2. /\ req[r] = Idle /\ req' = [req EXCEPT ![r] = q]
        /\ overlapped' = overlapped \cup {x \in q.on : On(x) # {}}
    BY DEF Begins, Start
  <1>3. DOMAIN req = Request
    BY DEF ReqInv
  <1>4. \A x \in q.on : x \notin overlapped' => \A s \in Request : Busy(s) => x \notin req[s].on
    BY <1>2 DEF On, Busy
  <1> QED
    BY <1>1, <1>2, <1>3, <1>4

LEMMA BeginsReq ==
    ASSUME ReqInv, NEW r \in Request, NEW q, Begins(r, q)
    PROVE  ReqInv'
  <1>1. \A s \in Request : ReqOK(req[s])'
    BY BeginsFrame DEF ReqInv, ReqOK, Begins
  <1>2. Alone'
    <2> SUFFICES ASSUME NEW s \in Request, NEW u \in Request, Busy(s)', Busy(u)', s # u,
                        NEW x \in req'[s].on \cap req'[u].on
                 PROVE  x \in overlapped'
      BY DEF Alone
    <2>1. CASE s # r /\ u # r
      BY <2>1, BeginsFrame DEF ReqInv, Alone, Busy
    <2>2. CASE s = r \/ u = r
      BY <2>2, BeginsFrame DEF Busy
    <2> QED
      BY <2>1, <2>2
  <1> QED
    BY <1>1, <1>2, BeginsFrame DEF ReqInv

LEMMA BeginsTask ==
    ASSUME ReqInv, TaskInv, NEW r \in Request, NEW q, Begins(r, q)
    PROVE  TaskInv'
  <1>1. /\ UNCHANGED <<assignee, closed>> /\ req'[r] = q /\ req[r] = Idle
        /\ \A s \in Request \ {r} : req'[s] = req[s]
    BY BeginsFrame
  <1>2. q.op = "claim" => /\ assignee[q.task] = Nobody /\ ~closed[q.task]
                          /\ \A s \in Request : ~(req[s].op = "claim" /\ req[s].task = q.task)
    BY DEF Begins, Candidates, Locked
  <1> QED
    BY <1>1, <1>2 DEF TaskInv

LEMMA BeginsSession ==
    ASSUME ReqInv, SessionInv, NEW r \in Request, NEW q, Begins(r, q)
    PROVE  SessionInv'
  <1>1. /\ UNCHANGED <<hour, sessions, clock>> /\ req'[r] = q /\ overlapped \subseteq overlapped'
        /\ \A s \in Request \ {r} : req'[s] = req[s]
    BY BeginsFrame
  <1>2. SessionRows' /\ OneOpen'
    BY <1>1 DEF SessionInv, SessionRows, Session, OneOpen, OpenSessions
  <1>3. ASSUME NEW s \in Request \ {r}, req[s].op = "claim" PROVE ClaimKnows(req[s])'
    BY <1>1, <1>3 DEF SessionInv, ClaimKnows, OpenSessions
  <1>4. ASSUME q.op = "claim" PROVE ClaimKnows(q)'
    <2>1. q.session \in Current(q.by) /\ q.at = clock /\ q.by \in Officer
      BY <1>4 DEF Begins, ReqOK
    <2>2. \A s \in sessions : Session(s)
      BY DEF SessionInv, SessionRows
    <2>3. CASE OpenSessions(q.by) = {}
      <3>1. q.session = 0 /\ Cardinality(sessions) \in Nat
        BY <2>1, <2>3, FS_CardinalityType DEF Current, NoSession, SessionInv, SessionRows
      <3> QED
        BY <1>1, <2>2, <2>3, <3>1 DEF ClaimKnows, Session, OpenSessions
    <2>4. CASE OpenSessions(q.by) # {}
      <3>1. PICK u \in OpenSessions(q.by) : q.session = u.id
        BY <2>1, <2>4 DEF Current
      <3>2. u \in sessions /\ u.of = q.by /\ Session(u) /\ \A s \in sessions : s.id = u.id => s = u
        BY <2>2, <3>1 DEF OpenSessions, SessionInv, SessionRows
      <3>3. u.start <= q.at /\ u.id <= Cardinality(sessions)
        BY <2>1, <3>2 DEF Session, ReqInv
      <3>4. <<"officer", q.by>> \notin overlapped' => \A s \in OpenSessions(q.by) : s = u
        BY <1>1, <2>1, <3>1 DEF SessionInv, OneOpen
      <3> QED
        BY <1>1, <3>1, <3>2, <3>3, <3>4 DEF ClaimKnows, OpenSessions
    <2> QED
      BY <2>3, <2>4
  <1> QED
    BY <1>1, <1>2, <1>3, <1>4 DEF SessionInv

LEMMA BeginsEdits ==
    ASSUME ReqInv, EditRows, SubmitInv, EyesInv, ConfirmInv, NEW r \in Request, NEW q, Begins(r, q)
    PROVE  EditRows' /\ SubmitInv' /\ EyesInv' /\ ConfirmInv'
  <1>1. /\ UNCHANGED <<assignee, closed, pendings, corrections, verdict>> /\ req'[r] = q
        /\ overlapped \subseteq overlapped' /\ \A s \in Request \ {r} : req'[s] = req[s]
    BY BeginsFrame
  <1>2. EditRows'
    BY <1>1 DEF EditRows, Pending, Correction
  <1>3. SubmitInv'
    <2>1. q.op = "submit" => Submissions(q.task) = {}
      BY DEF Begins, SubmitInv, Submissions
    <2> QED
      BY <1>1, <2>1 DEF SubmitInv, Submissions
  <1>4. EyesInv'
    <2>1. q.op = "confirm" =>
             \E p \in pendings : p.id = q.pending /\ q.by # p.maker /\ q.by # assignee[p.task]
      BY DEF Begins, MayConfirm
    <2> QED
      BY <1>1, <2>1 DEF EyesInv, TwoPairsOfEyes
  <1>5. ConfirmInv'
    <2>1. q.op = "confirm" => \A p \in pendings : p.id = q.pending => p.checker = Nobody
      BY DEF Begins, EditRows
    <2> QED
      BY <1>1, <2>1 DEF ConfirmInv, Confirmations
  <1> QED
    BY <1>2, <1>3, <1>4, <1>5

LEMMA BeginsRescan ==
    ASSUME ReqInv, RescanInv, NEW r \in Request, NEW q, Begins(r, q)
    PROVE  RescanInv'
  <1>1. /\ UNCHANGED <<state, owner, closed_at>> /\ req'[r] = q
        /\ overlapped \subseteq overlapped' /\ \A s \in Request \ {r} : req'[s] = req[s]
    BY BeginsFrame
  <1>2. q.op = "assign" => q.rescan \in Rescan /\ state[q.rescan] = "open"
    BY DEF Begins, ReqOK, Idle
  <1> QED
    BY <1>1, <1>2 DEF RescanInv

LEMMA BeginsStep ==
    ASSUME IInv, NEW r \in Request, NEW q, Begins(r, q)
    PROVE  IInv'
  BY BeginsReq, BeginsTask, BeginsSession, BeginsEdits, BeginsRescan DEF IInv

LEMMA Begin ==
    ASSUME IInv, NEW r \in Request,
           \/ \E o \in Officer : Claim(r, o)
           \/ \E o \in Officer, t \in Task, far \in BOOLEAN, v \in {"agree", "disagree", "pending"} :
                 BeginSubmit(r, o, t, far, v)
           \/ \E o \in Officer, t \in Task : BeginSkip(r, o, t)
           \/ \E o \in Officer, p \in pendings : BeginConfirm(r, o, p)
           \/ \E x \in Rescan, o \in Officer : BeginAssign(r, x, o)
           \/ \E x \in Rescan : BeginCloseRescan(r, x)
    PROVE  IInv'
  <1>1. clock \in Nat /\ clock \in 0..clock
    BY ReviewAssumption DEF IInv, ReqInv
  <1>2. ASSUME NEW o \in Officer, Claim(r, o) PROVE IInv'
    <2>1. PICK t \in Candidates, c \in Current(o) :
             Start(r, [op |-> "claim", by |-> o, task |-> t, session |-> c, at |-> clock,
                       on |-> {<<"officer", o>>}])
      BY <1>2 DEF Claim
    <2>2. PICK q : q = [op |-> "claim", by |-> o, task |-> t, session |-> c, at |-> clock,
                        on |-> {<<"officer", o>>}]
      OBVIOUS
    <2>3. t \in Task
      BY DEF Candidates
    <2>4. c \in Nat
      BY DEF Current, NoSession, OpenSessions, IInv, SessionInv, SessionRows, Session
    <2>5. ReqOK(q) /\ q # Idle
      BY <1>1, <2>2, <2>3, <2>4 DEF ReqOK, Idle
    <2>6. Begins(r, q)
      BY <1>2, <2>1, <2>2, <2>5 DEF Begins, Claim
    <2> QED
      BY <2>6, BeginsStep
  <1>3. ASSUME NEW o \in Officer, NEW t \in Task, NEW far \in BOOLEAN,
               NEW v \in {"agree", "disagree", "pending"}, BeginSubmit(r, o, t, far, v)
        PROVE  IInv'
    <2>1. PICK q : q = [op |-> "submit", by |-> o, task |-> t, far |-> far, verdict |-> v, on |-> {<<"task", t>>}]
      OBVIOUS
    <2>2. ReqOK(q) /\ q # Idle
      BY <2>1 DEF ReqOK, Idle
    <2>3. Begins(r, q)
      BY <1>3, <2>1, <2>2 DEF Begins, BeginSubmit, HeldBy
    <2> QED
      BY <2>3, BeginsStep
  <1>4. ASSUME NEW o \in Officer, NEW t \in Task, BeginSkip(r, o, t) PROVE IInv'
    <2>1. PICK q : q = [op |-> "skip", by |-> o, task |-> t, on |-> {<<"task", t>>}]
      OBVIOUS
    <2>2. ReqOK(q) /\ q # Idle
      BY <2>1 DEF ReqOK, Idle
    <2>3. Begins(r, q)
      BY <1>4, <2>1, <2>2 DEF Begins, BeginSkip
    <2> QED
      BY <2>3, BeginsStep
  <1>5. ASSUME NEW o \in Officer, NEW p \in pendings, BeginConfirm(r, o, p) PROVE IInv'
    <2>1. PICK q : q = [op |-> "confirm", by |-> o, pending |-> p.id, on |-> {<<"pending", p.id>>}]
      OBVIOUS
    <2>2. ReqOK(q) /\ q # Idle
      BY <2>1 DEF ReqOK, Idle
    <2>3. Begins(r, q)
      BY <1>5, <2>1, <2>2 DEF Begins, BeginConfirm
    <2> QED
      BY <2>3, BeginsStep
  <1>6. ASSUME NEW o \in Officer, NEW x \in Rescan, BeginAssign(r, x, o) PROVE IInv'
    <2>1. PICK q : q = [op |-> "assign", by |-> o, rescan |-> x, on |-> {<<"rescan", x>>}]
      OBVIOUS
    <2>2. ReqOK(q) /\ q # Idle
      BY <2>1 DEF ReqOK, Idle
    <2>3. Begins(r, q)
      BY <1>6, <2>1, <2>2 DEF Begins, BeginAssign
    <2> QED
      BY <2>3, BeginsStep
  <1>7. ASSUME NEW x \in Rescan, BeginCloseRescan(r, x) PROVE IInv'
    <2>1. PICK q : q = [op |-> "close", rescan |-> x, on |-> {<<"rescan", x>>}]
      OBVIOUS
    <2>2. ReqOK(q) /\ q # Idle
      BY <2>1 DEF ReqOK, Idle
    <2>3. Begins(r, q)
      BY <1>7, <2>1, <2>2 DEF Begins, BeginCloseRescan
    <2> QED
      BY <2>3, BeginsStep
  <1> QED
    BY <1>2, <1>3, <1>4, <1>5, <1>6, <1>7

------------------------------------------------------------------------------
(* A request ends; nothing begins.                                           *)

Fewer == DOMAIN req' = Request /\ \A s \in Request : req'[s] = req[s] \/ req'[s] = Idle

LEMMA Ends ==
    ASSUME ReqInv, NEW r \in Request, End(r)
    PROVE  Fewer /\ req'[r] = Idle /\ \A s \in Request \ {r} : req'[s] = req[s]
  BY DEF ReqInv, End, Fewer

LEMMA FewerReq ==
    ASSUME ReqInv, Fewer, UNCHANGED overlapped, clock' \in clock..MaxClock
    PROVE  ReqInv'
  <1>1. clock \in Nat /\ clock' \in 0..MaxClock /\ clock <= clock'
    BY ReviewAssumption DEF ReqInv
  <1>2. \A s \in Request : ReqOK(req[s])'
    BY <1>1 DEF ReqInv, ReqOK, Fewer
  <1>3. Alone'
    BY DEF ReqInv, Alone, Busy, Fewer
  <1> QED
    BY <1>1, <1>2, <1>3 DEF ReqInv, Fewer

LEMMA FewerTask ==
    ASSUME TaskInv, Fewer, UNCHANGED <<assignee, closed>>
    PROVE  TaskInv'
  BY DEF TaskInv, Fewer, Idle

LEMMA FewerSession ==
    ASSUME ReqInv, SessionInv, Fewer, UNCHANGED <<hour, sessions, overlapped>>, clock' \in clock..MaxClock
    PROVE  SessionInv'
  <1>1. clock \in Nat /\ clock' \in Nat /\ clock <= clock'
    BY ReviewAssumption DEF ReqInv
  <1>2. SessionRows'
    BY <1>1 DEF SessionInv, SessionRows, Session
  <1>3. OneOpen'
    BY DEF SessionInv, OneOpen, OpenSessions
  <1>4. ASSUME NEW s \in Request, req'[s].op = "claim" PROVE ClaimKnows(req[s])'
    <2>1. req'[s] = req[s]
      BY <1>4 DEF Fewer, Idle
    <2> QED
      BY <1>4, <2>1 DEF SessionInv, ClaimKnows, OpenSessions
  <1> QED
    BY <1>2, <1>3, <1>4 DEF SessionInv

EditInv == EditRows /\ SubmitInv /\ EyesInv /\ ConfirmInv

LEMMA FewerEdits ==
    ASSUME EditInv, Fewer, UNCHANGED <<assignee, closed, pendings, corrections, verdict, overlapped>>
    PROVE  EditInv'
  <1>1. EditRows'
    BY DEF EditInv, EditRows, Pending, Correction
  <1>2. SubmitInv'
    BY DEF EditInv, SubmitInv, Submissions, Fewer, Idle
  <1>3. EyesInv'
    BY DEF EditInv, EyesInv, TwoPairsOfEyes, Fewer, Idle
  <1>4. ConfirmInv'
    BY DEF EditInv, ConfirmInv, Confirmations, Fewer, Idle
  <1> QED
    BY <1>1, <1>2, <1>3, <1>4 DEF EditInv

LEMMA FewerRescan ==
    ASSUME RescanInv, Fewer, UNCHANGED <<state, owner, closed_at, overlapped>>
    PROVE  RescanInv'
  BY DEF RescanInv, Fewer, Idle

LEMMA QuietStep ==
    ASSUME IInv, Fewer, UNCHANGED <<tasks, edits, rescans, overlapped>>, clock' \in clock..MaxClock
    PROVE  IInv'
  <1>1. /\ UNCHANGED <<assignee, closed, hour, sessions, pendings, corrections, verdict>>
        /\ UNCHANGED <<state, owner, closed_at, overlapped>>
    BY DEF tasks, edits, rescans
  <1>2. ReqInv' /\ TaskInv' /\ SessionInv' /\ EditInv' /\ RescanInv'
    BY <1>1, FewerReq, FewerTask, FewerSession, FewerEdits, FewerRescan DEF IInv, EditInv
  <1> QED
    BY <1>2 DEF IInv, EditInv

------------------------------------------------------------------------------
(* Claims.                                                                   *)

\* One session is replaced by another state of itself.
Replaced(u, v) == (sessions \ {u}) \cup {v}

LEMMA Replacing ==
    ASSUME SessionRows, NEW u \in sessions, NEW v, v.id = u.id
    PROVE  /\ IsFiniteSet(Replaced(u, v)) /\ Cardinality(Replaced(u, v)) = Cardinality(sessions)
           /\ \A s, t \in Replaced(u, v) : s.id = t.id => s = t
  <1>1. IsFiniteSet(sessions \ {u}) /\ Cardinality(sessions \ {u}) = Cardinality(sessions) - 1
    BY FS_RemoveElement DEF SessionRows
  <1>2. v \notin sessions \ {u} /\ Cardinality(sessions) \in Nat
    BY FS_CardinalityType DEF SessionRows
  <1>3. IsFiniteSet(Replaced(u, v)) /\ Cardinality(Replaced(u, v)) = Cardinality(sessions)
    <2>1. PICK rest : rest = sessions \ {u}
      OBVIOUS
    <2>2. IsFiniteSet(rest) /\ Cardinality(rest) = Cardinality(sessions) - 1 /\ v \notin rest
      BY <1>1, <1>2, <2>1
    <2>3. IsFiniteSet(rest \cup {v}) /\ Cardinality(rest \cup {v}) = Cardinality(rest) + 1
      BY <2>2, FS_AddElement
    <2>4. Replaced(u, v) = rest \cup {v}
      BY <2>1 DEF Replaced
    <2> QED
      BY <1>2, <2>2, <2>3, <2>4
  <1> QED
    BY <1>3 DEF Replaced, SessionRows

\* What a claim makes of the sessions: its officer's session goes on, or it is
\* ended and another one begins.
Derived(s, u) == u.id = s.id /\ u.of = s.of /\ u.start = s.start /\ (s.open => u.open)

LEMMA SessionChanges ==
    ASSUME NEW i, NEW j, NEW k, NEW l, NEW m, NEW t, NEW u,
           u = [of |-> i, id |-> j, start |-> k, last |-> l, open |-> m]
    PROVE  /\ [u EXCEPT !.last = t] = [of |-> i, id |-> j, start |-> k, last |-> t, open |-> m]
           /\ [u EXCEPT !.open = FALSE] = [of |-> i, id |-> j, start |-> k, last |-> l, open |-> FALSE]
  <1>1. [u EXCEPT !.last = t] = [of |-> i, id |-> j, start |-> k, last |-> t, open |-> m]
    OBVIOUS
  <1>2. [u EXCEPT !.open = FALSE] = [of |-> i, id |-> j, start |-> k, last |-> l, open |-> FALSE]
    <2>1. ASSUME NEW b PROVE [u EXCEPT !.open = b] = [of |-> i, id |-> j, start |-> k, last |-> l, open |-> b]
      OBVIOUS
    <2> QED
      BY <2>1, Zenon
  <1> QED
    BY <1>1, <1>2

LEMMA Touching ==
    ASSUME ReqInv, SessionInv, NEW o \in Officer, NEW c, NEW at \in 0..clock,
           \A s \in sessions : s.id = c => s.of = o /\ s.start <= at,
           sessions' = Touched(o, c, at), UNCHANGED clock
    PROVE  /\ SessionRows' /\ Cardinality(sessions) <= Cardinality(sessions')
           /\ \A s \in sessions' :
                 \/ \E u \in sessions : Derived(s, u)
                 \/ s.id = Cardinality(sessions) + 1 /\ s.of = o
           /\ \/ \A s \in sessions' : s.id <= Cardinality(sessions)
              \/ \A s \in sessions' : s.open /\ s.id <= Cardinality(sessions) => s.id # c
  <1> DEFINE n == Cardinality(sessions)
             new == [of |-> o, id |-> n + 1, start |-> at, last |-> at, open |-> TRUE]
             goes(s) == s.id = c /\ at - s.last <= SessionGap
  <1>1. SessionRows /\ n \in Nat /\ clock \in Nat /\ at \in Nat /\ at <= clock
    BY FS_CardinalityType, ReviewAssumption DEF ReqInv, SessionInv, SessionRows
  <1>2. ASSUME NEW u \in sessions, u.id = c
        PROVE  /\ [u EXCEPT !.last = at] = [of |-> u.of, id |-> u.id, start |-> u.start, last |-> at, open |-> u.open]
               /\ [u EXCEPT !.open = FALSE] = [of |-> u.of, id |-> u.id, start |-> u.start, last |-> u.last, open |-> FALSE]
               /\ \A s \in sessions : s.id = c => s = u
    <2>1. PICK i, j, k, l, m : u = [of |-> i, id |-> j, start |-> k, last |-> l, open |-> m]
      BY <1>1 DEF SessionRows, Session
    <2>2. /\ [u EXCEPT !.last = at] = [of |-> i, id |-> j, start |-> k, last |-> at, open |-> m]
          /\ [u EXCEPT !.open = FALSE] = [of |-> i, id |-> j, start |-> k, last |-> l, open |-> FALSE]
      BY <2>1, SessionChanges
    <2>3. u.of = i /\ u.id = j /\ u.start = k /\ u.last = l /\ u.open = m
      BY <2>1
    <2>4. \A s \in sessions : s.id = c => s = u
      BY <1>1, <1>2 DEF SessionRows
    <2> QED
      BY <2>2, <2>3, <2>4
  <1>3. CASE \E s \in sessions : goes(s)
    <2>1. PICK u \in sessions : goes(u)
      BY <1>3
    <2>2. PICK v : v = [u EXCEPT !.last = at]
      OBVIOUS
    <2>3. /\ v = [of |-> u.of, id |-> u.id, start |-> u.start, last |-> at, open |-> u.open]
          /\ \A s \in sessions : s.id = c <=> s = u
      BY <1>2, <2>1, <2>2
    <2>4. sessions' = Replaced(u, v)
      <3>1. sessions' = {IF s.id = c THEN [s EXCEPT !.last = at] ELSE s : s \in sessions}
        BY <2>1 DEF Touched
      <3> QED
        BY <2>2, <2>3, <3>1 DEF Replaced
    <2>5. /\ IsFiniteSet(sessions') /\ Cardinality(sessions') = n
          /\ \A s, t \in sessions' : s.id = t.id => s = t
      <3>1. v.id = u.id
        BY <2>3
      <3> QED
        BY <1>1, <2>4, <3>1, Replacing
    <2>6. Session(u) /\ u.start <= at
      BY <1>1, <2>1 DEF SessionRows
    <2>7. /\ Session(v)'
          /\ Derived(v, u) /\ v.id <= n
      BY <1>1, <2>3, <2>5, <2>6 DEF Session, Derived
    <2>8. \A s \in sessions : Session(s)' /\ Derived(s, s) /\ s.id <= n
      BY <1>1, <2>5 DEF SessionRows, Session, Derived
    <2>9. \A s \in sessions' : /\ Session(s)' /\ s.id <= n
                               /\ \E t \in sessions : Derived(s, t)
      BY <2>4, <2>7, <2>8 DEF Replaced
    <2>10. SessionRows'
      BY <2>5, <2>9 DEF SessionRows
    <2> QED
      BY <1>1, <2>5, <2>9, <2>10
  <1>4. CASE ~\E s \in sessions : goes(s)
    <2>1. PICK ended : ended = {IF s.id = c THEN [s EXCEPT !.open = FALSE] ELSE s : s \in sessions}
      OBVIOUS
    <2>2. sessions' = ended \cup {new}
      BY <1>4, <2>1 DEF Touched
    <2>3. /\ IsFiniteSet(ended) /\ Cardinality(ended) = n
          /\ \A s, t \in ended : s.id = t.id => s = t
          /\ \A s \in ended : \E u \in sessions : /\ Derived(s, u) /\ s.last = u.last /\ s.open \in BOOLEAN
                                                  /\ s = [of |-> s.of, id |-> s.id, start |-> s.start,
                                                          last |-> s.last, open |-> s.open]
          /\ \A s \in ended : s.open => s.id # c
      <3>1. CASE \E u \in sessions : u.id = c
        <4>1. PICK u \in sessions : u.id = c
          BY <3>1
        <4>2. PICK v : v = [u EXCEPT !.open = FALSE]
          OBVIOUS
        <4>3. /\ v = [of |-> u.of, id |-> u.id, start |-> u.start, last |-> u.last, open |-> FALSE]
              /\ \A s \in sessions : s.id = c <=> s = u
          BY <1>2, <4>1, <4>2
        <4>4. ended = Replaced(u, v)
          BY <2>1, <4>2, <4>3 DEF Replaced
        <4>5. v.id = u.id /\ ~v.open /\ Derived(v, u) /\ v.last = u.last /\ v.open \in BOOLEAN
              /\ v = [of |-> v.of, id |-> v.id, start |-> v.start, last |-> v.last, open |-> v.open]
          BY <4>3 DEF Derived
        <4>6. /\ IsFiniteSet(ended) /\ Cardinality(ended) = n
              /\ \A s, t \in ended : s.id = t.id => s = t
          BY <1>1, <4>4, <4>5, Replacing
        <4>7. \A s \in sessions : /\ Derived(s, s) /\ s.open \in BOOLEAN
                                  /\ s = [of |-> s.of, id |-> s.id, start |-> s.start, last |-> s.last,
                                          open |-> s.open]
          BY <1>1 DEF SessionRows, Session, Derived
        <4>8. \A s \in ended : s = v \/ (s \in sessions /\ s # u)
          BY <4>4 DEF Replaced
        <4> QED
          BY <4>3, <4>5, <4>6, <4>7, <4>8
      <3>2. CASE ~\E u \in sessions : u.id = c
        <4>1. ended = sessions
          BY <2>1, <3>2
        <4>2. \A s \in sessions : /\ Derived(s, s) /\ s.open \in BOOLEAN
                                  /\ s = [of |-> s.of, id |-> s.id, start |-> s.start, last |-> s.last,
                                          open |-> s.open]
          BY <1>1 DEF SessionRows, Session, Derived
        <4> QED
          BY <1>1, <3>2, <4>1, <4>2 DEF SessionRows
      <3> QED
        BY <3>1, <3>2
    <2>4. \A u \in sessions : Session(u)
      BY <1>1 DEF SessionRows
    <2>5. \A s \in ended : s.id \in Nat /\ s.id <= n
      BY <2>3, <2>4 DEF Derived, Session
    <2>6. new.id = n + 1 /\ new \notin ended
      BY <1>1, <2>5
    <2>7. IsFiniteSet(sessions') /\ Cardinality(sessions') = n + 1
      <3>1. PICK x : x = new
        OBVIOUS
      <3>2. IsFiniteSet(ended \cup {x}) /\ Cardinality(ended \cup {x}) = Cardinality(ended) + 1
        BY <2>3, <2>6, <3>1, FS_AddElement
      <3> QED
        BY <2>2, <2>3, <3>1, <3>2
    <2>8. PICK x : x = new /\ Session(x)'
      <3>1. PICK x : x = new
        OBVIOUS
      <3>2. PICK m : m = n + 1
        OBVIOUS
      <3>3. x = [of |-> o, id |-> m, start |-> at, last |-> at, open |-> TRUE] /\ m \in Nat \ {0}
        BY <1>1, <3>1, <3>2
      <3>4. x.of = o /\ x.id = m /\ x.start = at /\ x.last = at /\ x.open = TRUE
        BY <3>3
      <3>5. m <= Cardinality(sessions')
        BY <1>1, <2>7, <3>2
      <3>6. Session(x)'
        BY <1>1, <3>3, <3>4, <3>5 DEF Session
      <3> QED
        BY <3>1, <3>6
    <2>9. \A s \in ended : Session(s)'
      <3> SUFFICES ASSUME NEW s \in ended PROVE Session(s)'
        OBVIOUS
      <3>1. PICK u \in sessions : Derived(s, u) /\ s.last = u.last
        BY <2>3
      <3>2. s.open \in BOOLEAN
            /\ s = [of |-> s.of, id |-> s.id, start |-> s.start, last |-> s.last, open |-> s.open]
        BY <2>3
      <3>3. Session(u)
        BY <2>4
      <3> QED
        BY <1>1, <2>7, <3>1, <3>2, <3>3 DEF Session, Derived
    <2> HIDE DEF new
    <2>10. SessionRows'
      <3>1. sessions' = ended \cup {x} /\ x.id = n + 1
        BY <2>2, <2>6, <2>8
      <3>2. \A s \in ended : s.id # x.id
        BY <1>1, <2>5, <3>1
      <3>3. \A s, t \in sessions' : s.id = t.id => s = t
        BY <2>3, <3>1, <3>2
      <3>4. \A s \in sessions' : Session(s)'
        BY <2>8, <2>9, <3>1
      <3> QED
        BY <2>7, <3>3, <3>4 DEF SessionRows
    <2>11. new.of = o
      BY DEF new
    <2> QED
      BY <1>1, <2>2, <2>3, <2>6, <2>7, <2>10, <2>11
  <1> QED
    BY <1>3, <1>4

LEMMA CommitClaimStep ==
    ASSUME IInv, NEW r \in Request, CommitClaim(r)
    PROVE  IInv'
  <1>1. PICK q : q = req[r]
    OBVIOUS
  <1>2. /\ q.op = "claim" /\ assignee' = [assignee EXCEPT ![q.task] = q.by]
        /\ sessions' = Touched(q.by, q.session, q.at) /\ End(r)
        /\ UNCHANGED <<closed, pendings, corrections, verdict, state, owner, closed_at, clock, overlapped>>
    BY <1>1 DEF CommitClaim, edits, rescans
  <1>3. /\ q.by \in Officer /\ q.task \in Task /\ q.at \in 0..clock /\ q.on = {<<"officer", q.by>>}
        /\ clock \in 0..MaxClock /\ clock \in Nat /\ MaxClock \in Nat
    BY <1>1, <1>2, ReviewAssumption DEF IInv, ReqInv, ReqOK, Idle
  <1>4. Fewer /\ req'[r] = Idle /\ \A s \in Request \ {r} : req'[s] = req[s]
    BY <1>2, Ends DEF IInv
  <1>5. ReqInv'
    BY <1>2, <1>3, <1>4, FewerReq DEF IInv
  <1>6. TaskInv'
    BY <1>1, <1>2, <1>3, <1>4 DEF IInv, TaskInv, Idle
  <1>7. EditInv'
    <2>1. ~closed[q.task] /\ assignee'[q.task] = q.by /\ \A t \in Task \ {q.task} : assignee'[t] = assignee[t]
      BY <1>1, <1>2, <1>3 DEF IInv, TaskInv
    <2>2. \A p \in pendings : p.task \in Task /\ p.task # q.task
      BY <2>1, ReviewAssumption DEF IInv, SubmitInv, EditRows, Pending, Task
    <2>3. \A d \in corrections : d.task \in Task /\ d.task # q.task
      BY <2>1 DEF IInv, SubmitInv, EditRows, Correction
    <2>4. EditRows'
      BY <1>2 DEF IInv, EditRows, Pending, Correction
    <2>5. SubmitInv'
      BY <1>2, <1>4 DEF IInv, SubmitInv, Submissions, Fewer, Idle
    <2>6. EyesInv'
      BY <1>2, <1>4, <2>1, <2>2, <2>3 DEF IInv, EyesInv, TwoPairsOfEyes, Fewer, Idle
    <2>7. ConfirmInv'
      BY <1>2, <1>4 DEF IInv, ConfirmInv, Confirmations, Fewer, Idle
    <2> QED
      BY <2>4, <2>5, <2>6, <2>7 DEF EditInv
  <1>8. RescanInv'
    BY <1>2, <1>4, FewerRescan DEF IInv
  <1>9. SessionInv'
    <2> DEFINE n == Cardinality(sessions)
    <2>1. SessionRows /\ n \in Nat /\ ClaimKnows(q)
      BY <1>1, <1>2, FS_CardinalityType DEF IInv, SessionInv, SessionRows
    <2>2. /\ SessionRows' /\ n <= Cardinality(sessions')
          /\ \A s \in sessions' : (\E u \in sessions : Derived(s, u)) \/ (s.id = n + 1 /\ s.of = q.by)
          /\ \/ \A s \in sessions' : s.id <= n
             \/ \A s \in sessions' : s.open /\ s.id <= n => s.id # q.session
      BY <1>2, <1>3, <2>1, Touching DEF IInv, ClaimKnows
    <2>3. IsFiniteSet(sessions') /\ \A s, t \in sessions' : s.id = t.id => s = t
      BY <2>2 DEF SessionRows
    <2>4. Cardinality(sessions') \in Nat
      BY <2>3, FS_CardinalityType
    <2>5. \A u \in sessions : u.id \in Nat /\ u.id <= n
      BY <2>1 DEF SessionRows, Session
    <2>6. OneOpen'
      <3> SUFFICES ASSUME NEW o \in Officer, <<"officer", o>> \notin overlapped,
                          NEW a \in sessions', NEW b \in sessions', a.of = o, a.open, b.of = o, b.open
                   PROVE  a.id = b.id
        BY <1>2, <2>3 DEF OneOpen, OpenSessions
      <3>1. OneOpen
        BY DEF IInv, SessionInv
      <3>2. CASE o # q.by
        BY <2>2, <3>1, <3>2 DEF OneOpen, OpenSessions, Derived
      <3>3. CASE o = q.by
        <4>1. \A u \in sessions : u.of = o /\ u.open => u.id = q.session
          BY <2>1, <3>3 DEF ClaimKnows, OpenSessions
        <4>2. ASSUME NEW s \in sessions', s.of = o, s.open
              PROVE  (s.id = q.session /\ s.id <= n) \/ s.id = n + 1
          BY <2>2, <2>5, <4>1, <4>2 DEF Derived
        <4> QED
          BY <2>1, <2>2, <4>2
      <3> QED
        BY <3>2, <3>3
    <2>7. ASSUME NEW s \in Request, req'[s].op = "claim" PROVE ClaimKnows(req[s])'
      <3>1. s # r /\ req'[s] = req[s]
        BY <1>4, <2>7 DEF Idle
      <3>2. PICK p : p = req[s]
        OBVIOUS
      <3>3. ClaimKnows(p) /\ p.session \in Nat /\ p.on = {<<"officer", p.by>>} /\ p.by \in Officer
        BY <2>7, <3>1, <3>2 DEF IInv, SessionInv, ReqInv, ReqOK, Idle
      <3>4. p.session <= Cardinality(sessions')
        BY <2>1, <2>2, <2>4, <3>3 DEF ClaimKnows
      <3>5. \A u \in sessions' : u.id = p.session => u.of = p.by /\ u.start <= p.at
        BY <2>1, <2>2, <3>3 DEF ClaimKnows, Derived
      <3>6. ASSUME <<"officer", p.by>> \notin overlapped, NEW u \in sessions', u.of = p.by, u.open
            PROVE  u.id = p.session
        <4>1. p.by # q.by
          BY <1>1, <1>2, <1>3, <2>7, <3>1, <3>2, <3>3, <3>6 DEF IInv, ReqInv, Alone, Busy, Idle
        <4> QED
          BY <2>2, <3>3, <3>6, <4>1 DEF ClaimKnows, Derived, OpenSessions
      <3>7. ClaimKnows(p)'
        BY <1>2, <3>4, <3>5, <3>6 DEF ClaimKnows, OpenSessions
      <3> QED
        BY <3>1, <3>2, <3>7 DEF ClaimKnows, OpenSessions
    <2>8. hour' \in [Task -> 0..MaxClock]
      <3> DEFINE going == {s \in sessions : s.id = q.session /\ q.at - s.last <= SessionGap}
                 h == IF going = {} THEN 0 ELSE q.at - (CHOOSE s \in going : TRUE).start
      <3>1. hour' = [hour EXCEPT ![q.task] = h]
        BY <1>1 DEF CommitClaim
      <3>2. h \in 0..MaxClock
        <4>1. CASE going = {}
          BY <1>3, <4>1
        <4>2. CASE going # {}
          <5>1. PICK s \in sessions : s = (CHOOSE x \in going : TRUE) /\ s.id = q.session
            BY <4>2
          <5>2. s.start \in Nat /\ s.start <= q.at
            BY <2>1, <5>1 DEF ClaimKnows, SessionRows, Session
          <5> QED
            BY <1>3, <4>2, <5>1, <5>2
        <4> QED
          BY <4>1, <4>2
      <3>3. hour \in [Task -> 0..MaxClock]
        BY DEF IInv, SessionInv
      <3> HIDE DEF h
      <3> QED
        BY <3>1, <3>2, <3>3
    <2> QED
      BY <2>2, <2>6, <2>7, <2>8 DEF SessionInv
  <1> QED
    BY <1>5, <1>6, <1>7, <1>8, <1>9 DEF IInv, EditInv

------------------------------------------------------------------------------
(* Submissions and skips.                                                    *)

LEMMA Held ==
    ASSUME EditInv, NEW r \in Request, NEW q, q = req[r], q.op = "submit", q.by \in Officer,
           q.task \in Checked, NEW x,
           x = [id |-> Cardinality(pendings) + 1, task |-> q.task, maker |-> q.by, checker |-> Nobody],
           pendings' = pendings \cup {x}, UNCHANGED corrections,
           verdict' \in [Sampled -> {"agree", "disagree", "pending"}]
    PROVE  /\ EditRows'
           /\ x.id # 0 /\ x.task = q.task /\ x.checker = Nobody /\ Confirmations(x.id) = {}
  <1> DEFINE n == Cardinality(pendings)
  <1>1. n \in Nat /\ IsFiniteSet(pendings) /\ \A p \in pendings : Pending(p)
    BY FS_CardinalityType DEF EditInv, EditRows
  <1>2. PICK m : m = n + 1
    OBVIOUS
  <1>3. x = [id |-> m, task |-> q.task, maker |-> q.by, checker |-> Nobody]
    BY <1>2
  <1>4. x.id = m /\ x.task = q.task /\ x.maker = q.by /\ x.checker = Nobody /\ m \in Nat \ {0}
    BY <1>1, <1>2, <1>3
  <1>5. \A p \in pendings : p.id \in Nat \ {0} /\ p.id <= n /\ p.id # m
    BY <1>1, <1>2 DEF Pending
  <1>6. IsFiniteSet(pendings') /\ Cardinality(pendings') = m
    <2>1. x \notin pendings
      BY <1>4, <1>5
    <2> QED
      BY <1>1, <1>2, <2>1, FS_AddElement
  <1>7. Pending(x)'
    BY <1>1, <1>2, <1>3, <1>4, <1>6 DEF Pending
  <1>8. \A p \in pendings : Pending(p)'
    BY <1>1, <1>2, <1>6 DEF Pending
  <1>9. \A p \in pendings' : Pending(p)'
    BY <1>7, <1>8
  <1>10. \A p, y \in pendings' : p.id = y.id => p = y
    BY <1>4, <1>5 DEF EditInv, EditRows
  <1>11. \A c \in corrections' : Correction(c)'
    BY DEF EditInv, EditRows, Correction
  <1>12. EditRows'
    BY <1>6, <1>9, <1>10, <1>11 DEF EditRows
  <1>13. Confirmations(m) = {}
    BY <1>4, <1>5 DEF EditInv, EditRows, Correction, Confirmations
  <1> QED
    BY <1>4, <1>12, <1>13

LEMMA CommitSubmitStep ==
    ASSUME IInv, NEW r \in Request, CommitSubmit(r)
    PROVE  IInv'
  <1>1. PICK q : q = req[r]
    OBVIOUS
  <1>2. /\ q.op = "submit" /\ ~Locked(q.task) /\ closed' = [closed EXCEPT ![q.task] = TRUE] /\ End(r)
        /\ UNCHANGED <<assignee, hour, sessions, state, owner, closed_at, clock, overlapped>>
    BY <1>1 DEF CommitSubmit, rescans
  <1>3. /\ q.by \in Officer /\ q.task \in Task /\ q.far \in BOOLEAN /\ q.on = {<<"task", q.task>>}
        /\ q.verdict \in {"agree", "disagree", "pending"} /\ clock' \in clock..MaxClock
    BY <1>1, <1>2, ReviewAssumption DEF IInv, ReqInv, ReqOK, Idle
  <1>4. Fewer /\ req'[r] = Idle /\ \A s \in Request \ {r} : req'[s] = req[s]
    BY <1>2, Ends DEF IInv
  <1>5. ReqInv' /\ SessionInv' /\ RescanInv'
    BY <1>2, <1>3, <1>4, FewerReq, FewerSession, FewerRescan DEF IInv
  <1>6. TaskInv'
    <2>1. \A s \in Request : req[s].op = "claim" => req[s].task # q.task
      BY <1>2 DEF Locked
    <2> QED
      BY <1>2, <1>3, <1>4, <2>1 DEF IInv, TaskInv, Idle
  <1>7. EditInv'
    <2>1. EditInv
      BY DEF IInv, EditInv
    <2>2. verdict' \in [Sampled -> {"agree", "disagree", "pending"}]
      <3>1. verdict' = IF q.task \in Sampled /\ q.verdict # "pending"
                       THEN [verdict EXCEPT ![q.task] = q.verdict] ELSE verdict
        BY <1>1 DEF CommitSubmit
      <3> QED
        BY <1>3, <2>1, <3>1 DEF EditInv, EditRows
    <2>3. closed'[q.task] /\ \A t \in Task : closed[t] => closed'[t]
      BY <1>2, <1>3 DEF IInv, TaskInv
    <2>4. <<"task", q.task>> \notin overlapped => Submissions(q.task) = {}
      BY <1>1, <1>2, <2>1 DEF EditInv, SubmitInv
    <2>5. ASSUME NEW s \in Request, req'[s].op = "submit", req'[s].task = q.task
          PROVE  <<"task", q.task>> \in overlapped
      <3>1. s # r /\ req'[s] = req[s]
        BY <1>4, <2>5 DEF Idle
      <3>2. req[s].on = {<<"task", q.task>>} /\ Busy(s) /\ Busy(r)
        BY <1>1, <1>2, <2>5, <3>1 DEF IInv, ReqInv, ReqOK, Busy, Idle
      <3> QED
        BY <1>1, <1>3, <3>1, <3>2 DEF IInv, ReqInv, Alone
    <2>6. ASSUME NEW x, EditRows', EyesInv', ConfirmInv', x.task = q.task,
                 \A t \in Task : Submissions(t)' = Submissions(t) \cup (IF t = q.task THEN {x} ELSE {}),
                 \A p \in pendings' : p \in pendings \/ p = x,
                 \A c \in corrections' : c \in corrections \/ c = x
          PROVE  EditInv'
      <3>1. \A p \in pendings' : closed'[p.task]
        BY <2>1, <2>3, <2>6, ReviewAssumption DEF EditInv, SubmitInv, EditRows, Pending, Task
      <3>2. \A c \in corrections' : closed'[c.task]
        BY <2>1, <2>3, <2>6 DEF EditInv, SubmitInv, EditRows, Correction
      <3>3. ASSUME NEW t \in Task, <<"task", t>> \notin overlapped', NEW a \in Submissions(t)', NEW b \in Submissions(t)'
            PROVE  a = b
        BY <1>2, <2>1, <2>4, <2>6, <3>3 DEF EditInv, SubmitInv
      <3>4. ASSUME NEW s \in Request, req'[s].op = "submit", NEW t, t = req'[s].task, <<"task", t>> \notin overlapped'
            PROVE  Submissions(t)' = {}
        <4>1. t # q.task
          BY <1>2, <2>5, <3>4
        <4>2. req'[s] = req[s] /\ t \in Task
          BY <1>4, <3>4 DEF Fewer, Idle, IInv, ReqInv, ReqOK
        <4>3. Submissions(t) = {}
          BY <1>2, <2>1, <3>4, <4>2 DEF EditInv, SubmitInv
        <4> QED
          BY <2>6, <4>1, <4>2, <4>3
      <3>5. SubmitInv'
        BY <3>1, <3>2, <3>3, <3>4 DEF SubmitInv, Submissions
      <3> QED
        BY <2>6, <3>5 DEF EditInv
    <2>7. CASE NeedsChecker(q.task, q.far)
      <3>1. PICK x : x = [id |-> Cardinality(pendings) + 1, task |-> q.task, maker |-> q.by, checker |-> Nobody]
        OBVIOUS
      <3>2. pendings' = pendings \cup {x} /\ UNCHANGED corrections
        BY <1>1, <2>7, <3>1 DEF CommitSubmit
      <3>3. /\ EditRows'
            /\ x.id # 0 /\ x.task = q.task /\ x.checker = Nobody /\ Confirmations(x.id) = {}
        BY <1>1, <1>2, <1>3, <2>1, <2>2, <2>7, <3>1, <3>2, Held DEF NeedsChecker
      <3>4. EyesInv'
        BY <1>2, <1>4, <2>1, <3>2 DEF EditInv, EyesInv, TwoPairsOfEyes, Fewer, Idle
      <3>5. ConfirmInv'
        BY <1>2, <1>4, <2>1, <3>2, <3>3 DEF EditInv, ConfirmInv, Confirmations, Fewer, Idle
      <3>6. \A t \in Task : Submissions(t)' = Submissions(t) \cup (IF t = q.task THEN {x} ELSE {})
        BY <3>2, <3>3 DEF Submissions
      <3> QED
        BY <2>6, <3>2, <3>3, <3>4, <3>5, <3>6
    <2>8. CASE ~NeedsChecker(q.task, q.far)
      <3>1. PICK x : x = [id |-> Cardinality(corrections) + 1, task |-> q.task, actor |-> q.by,
                          far |-> q.far, from |-> 0]
        OBVIOUS
      <3>2. corrections' = corrections \cup {x} /\ UNCHANGED pendings
        BY <1>1, <2>8, <3>1 DEF CommitSubmit
      <3>3. x.task = q.task /\ x.actor = q.by /\ x.far = q.far /\ x.from = 0 /\ "from" \in DOMAIN x
        BY <3>1
      <3>4. EditRows'
        <4>1. \A p \in pendings' : Pending(p)'
          BY <2>1, <3>2 DEF EditInv, EditRows, Pending
        <4>2. \A c \in corrections' : Correction(c)'
          BY <1>3, <2>1, <3>2, <3>3 DEF EditInv, EditRows, Correction
        <4> QED
          BY <2>1, <2>2, <3>2, <4>1, <4>2 DEF EditInv, EditRows
      <3>5. EyesInv'
        BY <1>2, <1>4, <2>1, <2>8, <3>2, <3>3 DEF EditInv, EyesInv, TwoPairsOfEyes, Fewer, Idle, NeedsChecker
      <3>6. ConfirmInv'
        <4>1. \A p \in pendings : Confirmations(p.id)' = Confirmations(p.id)
          BY <2>1, <3>2, <3>3 DEF EditInv, EditRows, Pending, Confirmations
        <4> QED
          BY <1>2, <1>4, <2>1, <3>2, <4>1 DEF EditInv, ConfirmInv, Fewer, Idle
      <3>7. \A t \in Task : Submissions(t)' = Submissions(t) \cup (IF t = q.task THEN {x} ELSE {})
        BY <3>2, <3>3 DEF Submissions
      <3> QED
        BY <2>6, <3>2, <3>3, <3>4, <3>5, <3>6, <3>7
    <2> QED
      BY <2>7, <2>8
  <1> QED
    BY <1>5, <1>6, <1>7 DEF IInv, EditInv

LEMMA CommitSkipStep ==
    ASSUME IInv, NEW r \in Request, CommitSkip(r)
    PROVE  IInv'
  <1>1. PICK q : q = req[r]
    OBVIOUS
  <1>2. /\ q.op = "skip" /\ ~Locked(q.task) /\ assignee' = [assignee EXCEPT ![q.task] = Nobody] /\ End(r)
        /\ UNCHANGED <<closed, hour, sessions, pendings, corrections, verdict, state, owner, closed_at>>
        /\ UNCHANGED <<clock, overlapped>>
    BY <1>1 DEF CommitSkip, rescans, edits
  <1>3. q.task \in Task /\ clock' \in clock..MaxClock
    BY <1>1, <1>2, ReviewAssumption DEF IInv, ReqInv, ReqOK, Idle
  <1>4. Fewer /\ req'[r] = Idle /\ \A s \in Request \ {r} : req'[s] = req[s]
    BY <1>2, Ends DEF IInv
  <1>5. ReqInv' /\ SessionInv' /\ RescanInv'
    BY <1>2, <1>3, <1>4, FewerReq, FewerSession, FewerRescan DEF IInv
  <1>6. assignee' \in [Task -> Officer \cup {Nobody}]
        /\ \A t \in Task : assignee'[t] = assignee[t] \/ assignee'[t] = Nobody
    BY <1>2, <1>3 DEF IInv, TaskInv
  <1>7. TaskInv'
    BY <1>2, <1>4, <1>6 DEF IInv, TaskInv, Fewer, Idle, ReqInv, ReqOK
  <1>8. EditInv'
    <2>1. EditRows'
      BY <1>2 DEF IInv, EditRows, Pending, Correction
    <2>2. SubmitInv'
      BY <1>2, <1>4 DEF IInv, SubmitInv, Submissions, Fewer, Idle
    <2>3. TwoPairsOfEyes'
      <3>1. \A c \in corrections : c.task \in Task /\ c.actor # Nobody
        BY ReviewAssumption DEF IInv, EditRows, Correction, Nobody
      <3> QED
        BY <1>2, <1>6, <3>1 DEF IInv, EyesInv, TwoPairsOfEyes
    <2>4. EyesInv'
      <3>1. \A p \in pendings : p.task \in Task
        BY ReviewAssumption DEF IInv, EditRows, Pending, Task
      <3>2. \A s \in Request : req[s].op = "confirm" => req[s].by # Nobody
        BY ReviewAssumption DEF IInv, ReqInv, ReqOK, Nobody, Idle
      <3> QED
        BY <1>2, <1>4, <1>6, <2>3, <3>1, <3>2 DEF IInv, EyesInv, Fewer, Idle
    <2>5. ConfirmInv'
      BY <1>2, <1>4 DEF IInv, ConfirmInv, Confirmations, Fewer, Idle
    <2> QED
      BY <2>1, <2>2, <2>4, <2>5 DEF EditInv
  <1> QED
    BY <1>5, <1>7, <1>8 DEF IInv, EditInv

------------------------------------------------------------------------------
(* Confirmations.                                                            *)

\* A pending correction gets its checker, and its correction x is recorded.
Confirmed(p, w, x, o) ==
    /\ w = [id |-> p.id, task |-> p.task, maker |-> p.maker, checker |-> o]
    /\ pendings' = (pendings \ {p}) \cup {w}
    /\ "from" \in DOMAIN x /\ x.task = p.task /\ x.actor = o /\ x.from = p.id
    /\ corrections' = corrections \cup {x}
    /\ UNCHANGED <<assignee, closed, verdict, overlapped>>

LEMMA ConfirmedRows ==
    ASSUME EditInv, NEW p \in pendings, NEW w, NEW x, NEW o \in Officer, Confirmed(p, w, x, o)
    PROVE  /\ EditRows'
           /\ w.id = p.id /\ w.task = p.task /\ w.maker = p.maker /\ w.checker = o
           /\ \A u \in pendings : u.id = p.id => u = p
  <1>1. /\ IsFiniteSet(pendings) /\ \A u \in pendings : Pending(u)
        /\ \A u, v \in pendings : u.id = v.id => u = v
    BY DEF EditInv, EditRows
  <1>2. w.id = p.id /\ w.task = p.task /\ w.maker = p.maker /\ w.checker = o
    BY DEF Confirmed
  <1>3. IsFiniteSet(pendings') /\ Cardinality(pendings') = Cardinality(pendings)
    <2>1. PICK rest : rest = pendings \ {p}
      OBVIOUS
    <2>2. IsFiniteSet(rest) /\ Cardinality(rest) = Cardinality(pendings) - 1 /\ Cardinality(pendings) \in Nat
      BY <1>1, <2>1, FS_RemoveElement, FS_CardinalityType
    <2>3. w \notin rest
      BY <1>1, <1>2, <2>1
    <2>4. IsFiniteSet(rest \cup {w}) /\ Cardinality(rest \cup {w}) = Cardinality(rest) + 1
      BY <2>2, <2>3, FS_AddElement
    <2>5. pendings' = rest \cup {w}
      BY <2>1 DEF Confirmed
    <2> QED
      BY <2>2, <2>4, <2>5
  <1>4. \A u \in pendings : Pending(u)'
    BY <1>1, <1>3 DEF Pending
  <1>5. Pending(w)'
    <2>1. w = [id |-> w.id, task |-> w.task, maker |-> w.maker, checker |-> w.checker]
      BY <1>2 DEF Confirmed
    <2>2. Pending(p)
      BY <1>1
    <2> QED
      BY <1>2, <1>3, <2>1, <2>2 DEF Pending
  <1>6. \A u \in pendings' : Pending(u)'
    BY <1>4, <1>5 DEF Confirmed
  <1>7. \A u, v \in pendings' : u.id = v.id => u = v
    BY <1>1, <1>2 DEF Confirmed
  <1>8. \A c \in corrections' : Correction(c)'
    <2>1. \A u \in pendings : \E v \in pendings' : v.id = u.id
      BY <1>2 DEF Confirmed
    <2>2. Correction(x)'
      <3>1. p.task \in Task
        BY <1>1, ReviewAssumption DEF Pending, Task
      <3> QED
        BY <2>1, <3>1 DEF Confirmed, Correction
    <2>3. \A c \in corrections : Correction(c)'
      BY <2>1 DEF EditInv, EditRows, Correction
    <2> QED
      BY <2>2, <2>3 DEF Confirmed
  <1>9. EditRows'
    BY <1>3, <1>6, <1>7, <1>8 DEF EditRows, EditInv, Confirmed
  <1> QED
    BY <1>1, <1>2, <1>9

LEMMA ConfirmedSubmissions ==
    ASSUME EditInv, Fewer, NEW p \in pendings, NEW w, NEW x, NEW o \in Officer, Confirmed(p, w, x, o)
    PROVE  SubmitInv'
  <1>1. w.task = p.task /\ x.task = p.task /\ x.from # 0
    BY ConfirmedRows DEF Confirmed, EditInv, EditRows, Pending
  <1>2. \A t : \A a \in Submissions(t)' : (a = w /\ p \in Submissions(t)) \/ (a # p /\ a \in Submissions(t))
    <2>1. p \notin corrections
      BY DEF EditInv, EditRows, Pending, Correction
    <2> QED
      BY <1>1, <2>1 DEF Submissions, Confirmed
  <1>3. \A u \in pendings' : closed'[u.task]
    BY <1>1 DEF EditInv, SubmitInv, Confirmed
  <1>4. \A c \in corrections' : closed'[c.task]
    BY <1>1 DEF EditInv, SubmitInv, Confirmed
  <1>5. ASSUME NEW t \in Task, <<"task", t>> \notin overlapped', NEW a \in Submissions(t)', NEW b \in Submissions(t)'
        PROVE  a = b
    <2>1. \A y, z \in Submissions(t) : y = z
      BY <1>5 DEF EditInv, SubmitInv, Confirmed
    <2> QED
      BY <1>2, <1>5, <2>1
  <1>6. ASSUME NEW s \in Request, req'[s].op = "submit", NEW t, t = req'[s].task, <<"task", t>> \notin overlapped'
        PROVE  Submissions(t)' = {}
    <2>1. Submissions(t) = {}
      BY <1>6 DEF EditInv, SubmitInv, Fewer, Idle, Confirmed
    <2> QED
      BY <1>2, <2>1
  <1> QED
    BY <1>3, <1>4, <1>5, <1>6 DEF SubmitInv, Submissions

LEMMA CommitConfirmStep ==
    ASSUME IInv, NEW r \in Request, CommitConfirm(r)
    PROVE  IInv'
  <1>1. PICK q : q = req[r]
    OBVIOUS
  <1>2. /\ q.op = "confirm" /\ End(r)
        /\ UNCHANGED <<assignee, closed, hour, sessions, verdict, state, owner, closed_at, clock, overlapped>>
    BY <1>1 DEF CommitConfirm, tasks, rescans
  <1>3. /\ q.by \in Officer /\ q.on = {<<"pending", q.pending>>} /\ clock' \in clock..MaxClock
    BY <1>1, <1>2, ReviewAssumption DEF IInv, ReqInv, ReqOK, Idle
  <1>4. Fewer /\ req'[r] = Idle /\ \A s \in Request \ {r} : req'[s] = req[s]
    BY <1>2, Ends DEF IInv
  <1>5. ReqInv' /\ SessionInv' /\ RescanInv' /\ TaskInv'
    BY <1>2, <1>3, <1>4, FewerReq, FewerSession, FewerRescan, FewerTask DEF IInv
  <1>6. EditInv'
    <2>1. EditInv
      BY DEF IInv, EditInv
    <2>2. PICK p \in pendings : p.id = q.pending /\ q.by # p.maker /\ q.by # assignee[p.task]
      BY <1>1, <1>2, <2>1 DEF EditInv, EyesInv
    <2>3. p = CHOOSE u \in pendings : u.id = q.pending
      BY <2>1, <2>2 DEF EditInv, EditRows
    <2>4. PICK w, x :
             /\ w = [p EXCEPT !.checker = q.by]
             /\ x = [id |-> Cardinality(corrections) + 1, task |-> p.task, actor |-> q.by,
                     far |-> TRUE, from |-> p.id]
      OBVIOUS
    <2>5. /\ corrections' = corrections \cup {x}
          /\ pendings' = (pendings \ {p}) \cup {w}
      BY <1>1, <2>3, <2>4 DEF CommitConfirm
    <2>6. w = [id |-> p.id, task |-> p.task, maker |-> p.maker, checker |-> q.by]
      <3>1. PICK i, j, k, l : p = [id |-> i, task |-> j, maker |-> k, checker |-> l]
        BY <2>1 DEF EditInv, EditRows, Pending
      <3>2. w = [id |-> i, task |-> j, maker |-> k, checker |-> q.by]
        BY <2>4, <3>1
      <3> QED
        BY <3>1, <3>2
    <2>7. /\ "from" \in DOMAIN x /\ x.task = p.task /\ x.actor = q.by /\ x.from = p.id
      BY <2>4
    <2>8. Confirmed(p, w, x, q.by)
      BY <1>2, <2>5, <2>6, <2>7 DEF Confirmed
    <2>9. /\ EditRows'
          /\ w.id = p.id /\ w.task = p.task /\ w.maker = p.maker /\ w.checker = q.by
          /\ \A u \in pendings : u.id = p.id => u = p
      BY <1>3, <2>1, <2>8, ConfirmedRows
    <2>10. SubmitInv'
      BY <1>3, <1>4, <2>1, <2>8, ConfirmedSubmissions
    <2>11. q.by # Nobody /\ p.id # 0 /\ x.from # 0
      BY <1>3, <2>1, <2>7, ReviewAssumption DEF Nobody, EditInv, EditRows, Pending
    <2>12. \A u \in pendings : \E v \in pendings' :
              /\ v.id = u.id /\ v.maker = u.maker /\ v.task = u.task
              /\ u.checker # Nobody => v.checker # Nobody
      BY <2>5, <2>9, <2>11
    <2>13. EyesInv'
      <3>1. TwoPairsOfEyes'
        <4>1. ASSUME NEW c \in corrections, c.from # 0
              PROVE  \E v \in pendings' : v.id = c.from /\ v.checker # Nobody /\ c.actor # v.maker
                                          /\ c.actor # assignee'[c.task]
          BY <1>2, <2>1, <2>12, <4>1 DEF EditInv, EyesInv, TwoPairsOfEyes
        <4>2. w \in pendings' /\ w.id = x.from /\ w.checker # Nobody /\ x.actor # w.maker
              /\ x.actor # assignee'[x.task]
          BY <1>2, <2>2, <2>5, <2>7, <2>9, <2>11
        <4> QED
          BY <2>1, <2>5, <2>11, <4>1, <4>2 DEF EditInv, EyesInv, TwoPairsOfEyes
      <3>2. ASSUME NEW s \in Request, req'[s].op = "confirm"
            PROVE  \E v \in pendings' : v.id = req'[s].pending /\ req'[s].by # v.maker
                                        /\ req'[s].by # assignee'[v.task]
        <4>1. req'[s] = req[s]
          BY <1>4, <3>2 DEF Fewer, Idle
        <4> QED
          BY <1>2, <2>1, <2>12, <3>2, <4>1 DEF EditInv, EyesInv
      <3> QED
        BY <3>1, <3>2 DEF EyesInv
    <2>14. ConfirmInv'
      <3>1. \A u \in pendings' : u = w \/ (u \in pendings /\ u.id # p.id)
        BY <2>5, <2>9
      <3>2. \A i : i # p.id => Confirmations(i)' = Confirmations(i)
        BY <2>5, <2>7 DEF Confirmations
      <3>3. Confirmations(p.id)' = Confirmations(p.id) \cup {x}
        BY <2>5, <2>7 DEF Confirmations
      <3>4. <<"pending", p.id>> \notin overlapped => Confirmations(p.id) = {}
        BY <1>1, <1>2, <2>1, <2>2 DEF EditInv, ConfirmInv
      <3>5. \A u \in pendings' : u.checker = Nobody => Confirmations(u.id)' = {}
        BY <2>1, <2>9, <2>11, <3>1, <3>2 DEF EditInv, ConfirmInv
      <3>6. ASSUME NEW u \in pendings', <<"pending", u.id>> \notin overlapped'
            PROVE  \A a, b \in Confirmations(u.id)' : a = b
        <4>1. CASE u = w
          BY <1>2, <2>9, <3>3, <3>4, <3>6, <4>1
        <4>2. CASE u \in pendings /\ u.id # p.id
          BY <1>2, <2>1, <3>2, <3>6, <4>2 DEF EditInv, ConfirmInv
        <4> QED
          BY <3>1, <4>1, <4>2
      <3>7. ASSUME NEW s \in Request, req'[s].op = "confirm", <<"pending", req'[s].pending>> \notin overlapped',
                   NEW u \in pendings', u.id = req'[s].pending
            PROVE  u.checker = Nobody
        <4>1. s # r /\ req'[s] = req[s]
          BY <1>4, <3>7 DEF Fewer, Idle
        <4>2. req[s].on = {<<"pending", req[s].pending>>} /\ Busy(s) /\ Busy(r)
          BY <1>1, <1>2, <3>7, <4>1 DEF IInv, ReqInv, ReqOK, Busy, Idle
        <4>3. req[s].pending # q.pending
          BY <1>1, <1>2, <1>3, <3>7, <4>1, <4>2 DEF IInv, ReqInv, Alone
        <4>4. u \in pendings
          BY <2>2, <2>9, <3>1, <3>7, <4>1, <4>3
        <4> QED
          BY <1>2, <2>1, <3>7, <4>1, <4>4 DEF EditInv, ConfirmInv
      <3> QED
        BY <3>5, <3>6, <3>7 DEF ConfirmInv, Confirmations
    <2> QED
      BY <2>9, <2>10, <2>13, <2>14 DEF EditInv
  <1> QED
    BY <1>5, <1>6 DEF IInv, EditInv

------------------------------------------------------------------------------
(* Rescan tasks.                                                             *)

LEMMA CommitRescanStep ==
    ASSUME IInv, NEW r \in Request, CommitRescan(r)
    PROVE  IInv'
  <1>1. PICK q, x : q = req[r] /\ x = q.rescan
    OBVIOUS
  <1>2. /\ q.op \in {"assign", "close"} /\ End(r)
        /\ UNCHANGED <<assignee, closed, hour, sessions, pendings, corrections, verdict, clock, overlapped>>
    BY <1>1 DEF CommitRescan, tasks, edits
  <1>3. /\ x \in Rescan /\ (q.op = "assign" => q.by \in Officer)
        /\ clock' \in clock..MaxClock /\ q.on = {<<"rescan", x>>}
    BY <1>1, <1>2, ReviewAssumption DEF IInv, ReqInv, ReqOK, Idle
  <1>4. Fewer /\ req'[r] = Idle /\ \A s \in Request \ {r} : req'[s] = req[s]
    BY <1>2, Ends DEF IInv
  <1>5. ReqInv' /\ TaskInv' /\ SessionInv' /\ EditInv'
    BY <1>2, <1>3, <1>4, FewerReq, FewerTask, FewerSession, FewerEdits DEF IInv, EditInv
  <1>6. ASSUME NEW s \in Request, req'[s].op = "assign"
        PROVE  /\ s # r /\ req'[s] = req[s] /\ req[s].rescan \in Rescan
               /\ req[s].rescan = x => <<"rescan", x>> \in overlapped
    <2>1. s # r /\ req'[s] = req[s]
      BY <1>4, <1>6 DEF Idle
    <2>2. req[s].rescan \in Rescan /\ req[s].on = {<<"rescan", req[s].rescan>>} /\ Busy(s) /\ Busy(r)
      BY <1>1, <1>2, <1>6, <2>1 DEF IInv, ReqInv, ReqOK, Busy, Idle
    <2> QED
      BY <1>1, <1>3, <2>1, <2>2 DEF IInv, ReqInv, Alone
  <1>7. RescanInv
    BY DEF IInv
  <1>8. CASE q.op = "assign"
    <2>1. /\ state' = [state EXCEPT ![x] = "assigned"] /\ owner' = [owner EXCEPT ![x] = q.by]
          /\ UNCHANGED closed_at
      BY <1>1, <1>8 DEF CommitRescan
    <2>2. q.by \in Officer /\ q.by # Nobody
      BY <1>3, <1>8, ReviewAssumption DEF Nobody
    <2>3. <<"rescan", x>> \notin overlapped => ~closed_at[x]
      BY <1>1, <1>7, <1>8 DEF RescanInv
    <2>4. RescanInv'
      BY <1>2, <1>3, <1>6, <1>7, <2>1, <2>2, <2>3 DEF RescanInv
    <2> QED
      BY <1>5, <2>4 DEF IInv, EditInv
  <1>9. CASE q.op = "close"
    <2>1. /\ state' = [state EXCEPT ![x] = "closed"] /\ closed_at' = [closed_at EXCEPT ![x] = TRUE]
          /\ UNCHANGED owner
      BY <1>1, <1>9 DEF CommitRescan
    <2>2. RescanInv'
      BY <1>2, <1>3, <1>6, <1>7, <2>1 DEF RescanInv
    <2> QED
      BY <1>5, <2>2 DEF IInv, EditInv
  <1> QED
    BY <1>2, <1>8, <1>9

LEMMA OpenRescanStep ==
    ASSUME IInv, NEW x \in Rescan, OpenRescan(x)
    PROVE  IInv'
  <1>1. /\ state[x] = "none" /\ state' = [state EXCEPT ![x] = "open"]
        /\ UNCHANGED <<assignee, closed, hour, sessions, pendings, corrections, verdict, clock, overlapped>>
        /\ UNCHANGED <<owner, closed_at, req>>
    BY DEF OpenRescan, tasks, edits
  <1>2. Fewer /\ clock' \in clock..MaxClock
    BY <1>1, ReviewAssumption DEF IInv, ReqInv, Fewer
  <1>3. ReqInv' /\ TaskInv' /\ SessionInv' /\ EditInv'
    BY <1>1, <1>2, FewerReq, FewerTask, FewerSession, FewerEdits DEF IInv, EditInv
  <1>4. RescanInv'
    BY <1>1 DEF IInv, RescanInv
  <1> QED
    BY <1>3, <1>4 DEF IInv, EditInv

------------------------------------------------------------------------------
(* The invariant.                                                            *)

LEMMA InitInv == Init => IInv
  <1> SUFFICES ASSUME Init PROVE IInv
    OBVIOUS
  <1>1. clock \in 0..MaxClock /\ 0 \in 0..MaxClock
    BY ReviewAssumption DEF Init
  <1>2. ReqInv
    BY <1>1 DEF Init, ReqInv, ReqOK, Alone, Busy
  <1>3. TaskInv
    BY DEF Init, TaskInv, Idle
  <1>4. SessionInv
    BY <1>1, FS_EmptySet DEF Init, SessionInv, SessionRows, OneOpen, OpenSessions, Idle
  <1>5. EditRows
    BY FS_EmptySet DEF Init, EditRows
  <1>6. SubmitInv /\ EyesInv /\ ConfirmInv
    BY DEF Init, SubmitInv, Submissions, EyesInv, TwoPairsOfEyes, ConfirmInv, Idle
  <1>7. RescanInv
    BY DEF Init, RescanInv, Idle
  <1> QED
    BY <1>2, <1>3, <1>4, <1>5, <1>6, <1>7 DEF IInv

LEMMA NextInv == IInv /\ [Next]_vars => IInv'
  <1> SUFFICES ASSUME IInv, [Next]_vars PROVE IInv'
    OBVIOUS
  <1>1. clock \in clock..MaxClock /\ DOMAIN req = Request /\ clock \in Nat
    BY ReviewAssumption DEF IInv, ReqInv
  <1>2. ASSUME NEW r \in Request, Review(r) PROVE IInv'
    BY <1>2, Begin, CommitClaimStep, CommitSubmitStep, CommitSkipStep, CommitConfirmStep DEF Review
  <1>3. ASSUME NEW r \in Request, Rescanning(r) PROVE IInv'
    BY <1>3, Begin, CommitRescanStep DEF Rescanning
  <1>4. ASSUME NEW r \in Request, Abort(r) PROVE IInv'
    <2>1. Fewer
      BY <1>4, Ends DEF Abort, IInv
    <2> QED
      BY <1>1, <1>4, <2>1, QuietStep DEF Abort
  <1>5. CASE Tick
    <2>1. Fewer /\ clock' \in clock..MaxClock
      BY <1>1, <1>5, ReviewAssumption DEF Tick, Fewer
    <2> QED
      BY <1>5, <2>1, QuietStep DEF Tick
  <1>6. CASE UNCHANGED vars
    BY <1>1, <1>6, QuietStep DEF vars, Fewer
  <1> QED
    BY <1>2, <1>3, <1>4, <1>5, <1>6, OpenRescanStep DEF Next

LEMMA Invariant == Spec => []IInv
  BY InitInv, NextInv, PTL DEF Spec

\* The rows of tasks, sessions, corrections and rescan tasks keep their form
\* and their references, whatever the requests overlap (review_workflow,
\* review_session, correction, rescan).
THEOREM TypeCorrect == Spec => []TypeOK
  <1>1. IInv => TypeOK
    <2> SUFFICES ASSUME IInv PROVE TypeOK
      OBVIOUS
    <2>1. \A c \in corrections : c.actor \in Officer /\ c.from \in {0} \cup {p.id : p \in pendings}
      BY DEF IInv, EditRows, Correction
    <2>2. \A p \in pendings : p.task \in Checked /\ p.maker \in Officer
      BY DEF IInv, EditRows, Pending
    <2>3. \A s \in sessions : s.of \in Officer /\ s.start <= s.last /\ s.last <= clock
      BY DEF IInv, SessionInv, SessionRows, Session
    <2> QED
      BY <2>1, <2>2, <2>3 DEF IInv, TypeOK, TaskInv, ReqInv, SessionInv, EditRows, RescanInv
  <1> QED
    BY <1>1, Invariant, PTL

\* What needs a checker takes effect only through another officer than its
\* maker, and never through the holder of the task, however claims, skips,
\* submits and confirmations overlap (submit_correction,
\* confirm_pending_correction).
THEOREM TwoOfficers == Spec => []TwoPairsOfEyes
  <1>1. IInv => TwoPairsOfEyes
    BY DEF IInv, EyesInv
  <1> QED
    BY <1>1, Invariant, PTL

LEMMA NoneOrOne ==
    ASSUME NEW S, \A a, b \in S : a = b
    PROVE  ~(Cardinality(S) > 1)
  <1>1. CASE S = {}
    BY <1>1, FS_EmptySet
  <1>2. CASE S # {}
    <2>1. PICK a : S = {a}
      BY <1>2
    <2>2. Cardinality(S) = 1
      BY <2>1, FS_Singleton
    <2> QED
      BY <2>2
  <1> QED
    BY <1>1, <1>2

\* A task is submitted once, a held correction confirmed once, an officer has
\* one open session and a closed rescan task stays closed, unless two requests
\* on it overlapped (submit, confirm_pending_correction, touch_session, close).
THEOREM DeskDoesOnce == Spec => []OnceUnlessOverlapped
  <1>1. IInv => OnceUnlessOverlapped
    <2> SUFFICES ASSUME IInv PROVE OnceUnlessOverlapped
      OBVIOUS
    <2>1. OneSubmissionUnlessOverlapped
      BY NoneOrOne DEF IInv, SubmitInv, OneSubmissionUnlessOverlapped
    <2>2. ConfirmedOnceUnlessOverlapped
      BY NoneOrOne DEF IInv, ConfirmInv, Confirmations, ConfirmedOnceUnlessOverlapped
    <2>3. OneOpenSessionUnlessOverlapped
      BY NoneOrOne DEF IInv, SessionInv, OneOpen, OneOpenSessionUnlessOverlapped
    <2>4. RescanClosedUnlessOverlapped
      BY DEF IInv, RescanInv, RescanClosedUnlessOverlapped
    <2> QED
      BY <2>1, <2>2, <2>3, <2>4 DEF OnceUnlessOverlapped
  <1> QED
    BY <1>1, Invariant, PTL

\* A task passes from officer to officer through the pool only, and a closed
\* one is given to nobody (claim_next, skip).
THEOREM PoolOnly == Spec => ThroughThePool
  <1> DEFINE Given == \A t \in Task :
          assignee'[t] \notin {Nobody, assignee[t]} => assignee[t] = Nobody /\ ~closed[t]
  <1>1. IInv /\ [Next]_vars => [Given]_vars
    <2> SUFFICES ASSUME IInv, Next PROVE Given
      OBVIOUS
    <2>1. TaskInv
      BY DEF IInv
    <2>2. ASSUME NEW r \in Request, CommitClaim(r) PROVE Given
      BY <2>1, <2>2 DEF CommitClaim, TaskInv
    <2>3. ASSUME NEW r \in Request, CommitSkip(r) PROVE Given
      BY <2>1, <2>3 DEF CommitSkip, TaskInv
    <2>4. ASSUME UNCHANGED assignee PROVE Given
      BY <2>4
    <2>5. ASSUME NEW r \in Request, Review(r) PROVE Given
      BY <2>2, <2>3, <2>4, <2>5
         DEF Review, tasks, Claim, BeginSubmit, BeginSkip, BeginConfirm, CommitSubmit, CommitConfirm
    <2>6. ASSUME NEW r \in Request, Rescanning(r) PROVE Given
      BY <2>4, <2>6 DEF Rescanning, tasks, BeginAssign, BeginCloseRescan, CommitRescan
    <2> HIDE DEF Given
    <2> QED
      BY <2>4, <2>5, <2>6 DEF Next, tasks, Abort, OpenRescan, Tick
  <1> QED
    BY <1>1, Invariant, PTL DEF Spec, ThroughThePool
==============================================================================
