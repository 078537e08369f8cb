------------------------- MODULE DecisionEngineProofs -------------------------
(***************************************************************************)
(* Proofs about DecisionEngine, for any set of workers, any fields on any  *)
(* pages, any clusters, and any number of deliveries and scorings; and, in *)
(* the last part, about what Model Work lets through to it (Algorithms),   *)
(* for any inputs, evidence, thresholds and scale of the probabilities.    *)
(***************************************************************************)
EXTENDS DecisionEngine, Algorithms, SequenceTheorems, FiniteSetTheorems, TLAPS

(* The parts of the inductive invariant.                                     *)

\* Past the check of route: the worker will decide with a valid outcome.
Deciding == {"find_alert", "update_alert", "record"} \cup AfterRecord

OutcomeIsValid ==
    \A w \in Worker : pc[w] \in Deciding => tx[w].outcome \in ValidOutcome

\* Behind the insert into decision_record: the field is still undecided, and no
\* other worker is behind an insert for it.
InsertIsExclusive ==
    \A w \in Worker : pc[w] \in AfterRecord =>
        /\ decision[tx[w].field] = "none"
        /\ \A v \in Worker \ {w} : pc[v] \in AfterRecord => tx[v].field # tx[w].field

\* A transaction that will append page.processed has seen the last score.
FiresRightly(t) == t.fires => \A x \in FieldsOf(PageOf[t.field]) : routing[x] \in ValidOutcome
FiresWhenScored == \A w \in Worker : pc[w] # "idle" => FiresRightly(tx[w])

\* What a worker will write back to the alert it found: fields of that cluster
\* decided as outside the regime, which are in no other alert.
Belongs(t) ==
    /\ t.alert # 0 => alerts[t.alert].cluster = ClusterOf[t.field]
    /\ \A x \in t.listed :
          /\ t.alert # 0
          /\ IsOutside(decision[x]) /\ ClusterOf[x] = ClusterOf[t.field]
          /\ \A j \in DOMAIN alerts : x \in alerts[j].fields => j = t.alert
ListedBelongs == \A w \in Worker : pc[w] # "idle" => Belongs(tx[w])

\* Two workers that will write one field back write it to one alert.
ListedOnce ==
    \A w, v \in Worker : pc[w] # "idle" /\ pc[v] # "idle" =>
        \A x \in tx[w].listed \cap tx[v].listed : tx[w].alert = tx[v].alert

DecidedFinite == \A p \in Page : IsFiniteSet(Decided(p))

IInv ==
    /\ TypeOK /\ OutcomeIsValid /\ InsertIsExclusive /\ ExactlyOneOutcome
    /\ FiresWhenScored /\ ProcessedImpliesScored /\ DecidedFinite /\ ProcessedPerDecision
    /\ ListedBelongs /\ ListedOnce /\ AlertsListDecided

------------------------------------------------------------------------------
(* The kinds of steps.                                                       *)

\* A step of worker w takes it to a place and leaves it with a transaction.
Moves(w, label, t) ==
    /\ pc' = [pc EXCEPT ![w] = label]
    /\ tx' = [tx EXCEPT ![w] = t]

\* Model Work scores a field.
Scores == \E x \in Field, o \in Outcome : Score(x, o)

\* Nothing is decided and no worker moves.
Idles == UNCHANGED <<routing, decided, worker>>

Enters(w) ==
    \E x \in Field, label \in {"mismatch", "check"} :
        Moves(w, label, [field |-> x, outcome |-> routing[x], alert |-> 0,
                         listed |-> {}, fires |-> FALSE])

Leaves(w) == Moves(w, "idle", NoTx)

\* On to the next statement, with nothing new in the transaction.
Proceeds(w) ==
    \/ /\ pc[w] = "check" /\ tx[w].outcome \in ValidOutcome
       /\ \E label \in {"find_alert", "record"} :
             Moves(w, label, tx[w]) /\ (label = "record" => ~IsOutside(tx[w].outcome))
    \/ pc[w] = "update_alert" /\ Moves(w, "record", tx[w])
    \/ /\ pc[w] = "read_processed"
       /\ \E label \in {"read_outcomes", "commit"} :
             /\ Moves(w, label, tx[w])
             /\ label = "read_outcomes" => processed[PageOf[tx[w].field]] = 0

Finds(w) ==
    /\ pc[w] = "find_alert"
    /\ \E i \in 0..Len(alerts) :
          /\ i # 0 => i \in DOMAIN alerts /\ alerts[i].cluster = ClusterOf[tx[w].field]
          /\ i = 0 => FreshAlerts(ClusterOf[tx[w].field]) = {}
          /\ Moves(w, "update_alert",
                   [tx[w] EXCEPT !.alert = i, !.listed = IF i = 0 THEN {} ELSE alerts[i].fields])

Records(w) ==
    /\ pc[w] = "record" /\ decision[tx[w].field] = "none"
    /\ \A v \in Worker \ {w} : pc[v] \in AfterRecord => tx[v].field # tx[w].field
    /\ Moves(w, "read_processed", tx[w])

Looks(w) ==
    /\ pc[w] = "read_outcomes"
    /\ Moves(w, "commit",
             [tx[w] EXCEPT !.fires = \A x \in FieldsOf(PageOf[tx[w].field]) : routing[x] \in ValidOutcome])

\* The steps of a worker that decide nothing.
Prepares(w) ==
    /\ Enters(w) \/ Leaves(w) \/ Proceeds(w) \/ Finds(w) \/ Records(w) \/ Looks(w)
    /\ UNCHANGED <<routing, decided>>

\* Every step is of one of these kinds.
LEMMA StepKinds ==
    ASSUME TypeOK, [Next]_vars
    PROVE  Scores \/ Idles \/ WindowPasses \/ \E w \in Worker : Prepares(w) \/ Commit(w)
  <1>0. /\ queue \subseteq [field : Field, outcome : Outcome \cup {"none"}]
        /\ tx = [v \in Worker |-> tx[v]]
    BY DEF TypeOK
  <1>1. UNCHANGED vars => Idles
    BY DEF vars, upstream, Idles
  <1>2. Environment => Scores \/ Idles \/ WindowPasses
    BY DEF Environment, Scores, Announce, Idles
  <1> SUFFICES ASSUME NEW w \in Worker, Handle(w) PROVE Prepares(w) \/ Commit(w)
    BY <1>1, <1>2 DEF Next
  <1>3. ASSUME UNCHANGED tx PROVE tx' = [tx EXCEPT ![w] = tx[w]]
    BY <1>0, <1>3
  <1>4. ASSUME NEW m \in queue, Receive(w, m) PROVE Prepares(w)
    <2>1. m.field \in Field
      BY <1>0
    <2>2. UNCHANGED <<routing, decided>>
      BY <1>4 DEF Receive, upstream
    <2>3. PICK label \in PayloadVerdicts(m) : Goto(w, label)
      BY <1>4 DEF Receive
    <2>4. label \in {"mismatch", "check"}
      BY DEF PayloadVerdicts
    <2>5. Moves(w, label, [field |-> m.field, outcome |-> routing[m.field], alert |-> 0,
                           listed |-> {}, fires |-> FALSE])
      BY <1>4, <2>3 DEF Receive, Moves, Goto
    <2> QED
      BY <2>1, <2>2, <2>4, <2>5 DEF Prepares, Enters
  <1>5. ASSUME RejectMismatch(w) \/ Unroutable(w) \/ AlreadyDecided(w) \/ Fail(w) PROVE Prepares(w)
    <2>1. Leave(w) /\ UNCHANGED <<routing, decided>>
      BY <1>5 DEF RejectMismatch, Unroutable, AlreadyDecided, Fail, upstream
    <2> QED
      BY <2>1 DEF Prepares, Leaves, Leave, Moves, Goto
  <1>6. ASSUME Undecided(w) \/ UpdateAlert(w) \/ ReadProcessed(w) PROVE Prepares(w)
    <2>1. UNCHANGED <<routing, decided, tx>>
      BY <1>6 DEF Undecided, UpdateAlert, ReadProcessed, upstream
    <2>2. tx' = [tx EXCEPT ![w] = tx[w]]
      BY <1>3, <2>1
    <2>3. CASE Undecided(w) \/ UpdateAlert(w)
      <3>1. Proceeds(w)
        BY <2>2, <2>3 DEF Undecided, UpdateAlert, Proceeds, Moves, Goto
      <3> QED
        BY <2>1, <3>1 DEF Prepares
    <2>4. CASE ReadProcessed(w)
      <3>1. pc[w] = "read_processed" /\ processed[PageOf[tx[w].field]] \in Nat
        BY <2>4, DecisionAssumption DEF ReadProcessed, TypeOK, Transaction
      <3>2. \A label : Goto(w, label) => Moves(w, label, tx[w])
        BY <2>2 DEF Goto, Moves
      <3>3. CASE processed[PageOf[tx[w].field]] > 0
        <4>1. Goto(w, "commit")
          BY <2>4, <3>3 DEF ReadProcessed
        <4> QED
          BY <2>1, <3>1, <3>2, <4>1 DEF Prepares, Proceeds
      <3>4. CASE processed[PageOf[tx[w].field]] = 0
        <4>1. Goto(w, "read_outcomes")
          BY <2>4, <3>4 DEF ReadProcessed
        <4> QED
          BY <2>1, <3>1, <3>2, <3>4, <4>1 DEF Prepares, Proceeds
      <3> QED
        BY <3>1, <3>3, <3>4
    <2> QED
      BY <1>6, <2>3, <2>4
  <1>7. ASSUME FindAlert(w) PROVE Prepares(w)
    <2>1. UNCHANGED <<routing, decided>>
      BY <1>7 DEF FindAlert, upstream
    <2> DEFINE c == ClusterOf[tx[w].field]
               t(i) == [tx[w] EXCEPT !.alert = i, !.listed = IF i = 0 THEN {} ELSE alerts[i].fields]
    <2>2. PICK i \in 0..Len(alerts) :
             /\ IsLatest(i, FreshAlerts(c))
             /\ tx' = [tx EXCEPT ![w].alert = i,
                                 ![w].listed = IF i = 0 THEN {} ELSE alerts[i].fields]
      BY <1>7 DEF FindAlert
    <2>3. pc[w] = "find_alert" /\ Moves(w, "update_alert", t(i))
      BY <1>0, <1>7, <2>2 DEF FindAlert, Moves, Goto
    <2>4. /\ i # 0 => i \in DOMAIN alerts /\ alerts[i].cluster = c
          /\ i = 0 => FreshAlerts(c) = {}
      <3>1. \A j \in FreshAlerts(c) : j \in DOMAIN alerts /\ alerts[j].cluster = c /\ j # 0
        BY LenProperties DEF TypeOK, FreshAlerts
      <3> QED
        BY <2>2, <3>1 DEF IsLatest
    <2>5. Finds(w)
      BY <2>3, <2>4 DEF Finds
    <2> QED
      BY <2>1, <2>5 DEF Prepares
  <1>8. ASSUME RecordDecision(w) PROVE Prepares(w)
    <2>1. UNCHANGED <<routing, decided>>
      BY <1>8 DEF RecordDecision, upstream
    <2>2. CASE decision[tx[w].field] = "none"
      <3>1. UNCHANGED tx /\ Goto(w, "read_processed") /\ pc[w] = "record"
        BY <1>8, <2>2 DEF RecordDecision
      <3>2. \A v \in Worker \ {w} : pc[v] \in AfterRecord => tx[v].field # tx[w].field
        BY <1>8 DEF RecordDecision, HoldsDecision
      <3> QED
        BY <1>3, <2>1, <2>2, <3>1, <3>2 DEF Prepares, Records, Moves, Goto
    <2>3. CASE decision[tx[w].field] # "none"
      <3>1. Leave(w)
        BY <1>8, <2>3 DEF RecordDecision
      <3> QED
        BY <2>1, <3>1 DEF Prepares, Leaves, Leave, Moves, Goto
    <2> QED
      BY <2>2, <2>3
  <1>9. ASSUME ReadOutcomes(w) PROVE Prepares(w)
    <2>1. UNCHANGED <<routing, decided>>
      BY <1>9 DEF ReadOutcomes, upstream
    <2>2. Looks(w)
      BY <1>0, <1>9 DEF ReadOutcomes, Looks, Moves, Goto
    <2> QED
      BY <2>1, <2>2 DEF Prepares
  <1> QED
    BY <1>4, <1>5, <1>6, <1>7, <1>8, <1>9 DEF Handle

\* Where the workers are after one of them has moved.
LEMMA MovesStep ==
    ASSUME TypeOK, NEW w \in Worker, NEW label, NEW t, Moves(w, label, t)
    PROVE  /\ pc'[w] = label /\ tx'[w] = t
           /\ \A v \in Worker \ {w} : pc'[v] = pc[v] /\ tx'[v] = tx[v]
           /\ tx' = [v \in Worker |-> tx'[v]]
           /\ label \in PC => pc' \in [Worker -> PC]
  BY DEF TypeOK, Moves


------------------------------------------------------------------------------
(* The type invariant.                                                       *)

\* The alerts after a commit: none is lost, and all keep their cluster.
LEMMA CommittedAlerts ==
    ASSUME TypeOK, NEW t \in Transaction
    PROVE  /\ AlertsAfter(t) \in Seq(Alert)
           /\ Len(alerts) <= Len(AlertsAfter(t))
           /\ \A i \in DOMAIN alerts : AlertsAfter(t)[i].cluster = alerts[i].cluster
  <1>1. /\ alerts \in Seq(Alert) /\ Len(alerts) \in Nat /\ DOMAIN alerts = 1..Len(alerts)
        /\ \A i \in DOMAIN alerts : alerts[i] \in Alert
    BY LenProperties, ElementOfSeq DEF TypeOK
  <1>2. t.field \in Field /\ t.alert \in 0..Len(alerts) /\ t.listed \subseteq Field
    BY DEF Transaction
  <1>3. CASE ~IsOutside(t.outcome)
    BY <1>1, <1>3 DEF AlertsAfter
  <1>4. CASE IsOutside(t.outcome) /\ t.alert = 0
    <2> DEFINE a == [cluster |-> ClusterOf[t.field], fields |-> {t.field}, fresh |-> TRUE]
    <2>1. a \in Alert
      BY <1>2 DEF Alert
    <2>2. AlertsAfter(t) = Append(alerts, a)
      BY <1>4 DEF AlertsAfter
    <2> HIDE DEF a
    <2> QED
      BY <1>1, <2>1, <2>2, AppendProperties
  <1>5. CASE IsOutside(t.outcome) /\ t.alert # 0
    <2> DEFINE k == t.alert  b == [alerts[k] EXCEPT !.fields = t.listed \cup {t.field}]
    <2>1. AlertsAfter(t) = [alerts EXCEPT ![k] = b]
      BY <1>5 DEF AlertsAfter
    <2>2. k \in 1..Len(alerts) /\ alerts[k] \in Alert
      BY <1>1, <1>2, <1>5
    <2>3. b \in Alert /\ b.cluster = alerts[k].cluster
      BY <1>2, <2>2 DEF Alert
    <2> HIDE DEF k, b
    <2>4. [alerts EXCEPT ![k] = b] \in Seq(Alert) /\ Len([alerts EXCEPT ![k] = b]) = Len(alerts)
      BY <1>1, <2>2, <2>3, ExceptSeq
    <2>5. \A i \in DOMAIN alerts :
            [alerts EXCEPT ![k] = b][i] = IF i = k THEN b ELSE alerts[i]
      BY <1>1
    <2> QED
      BY <1>1, <2>1, <2>3, <2>4, <2>5
  <1> QED
    BY <1>3, <1>4, <1>5

\* The workers are typed after w has moved, if no alert is lost.
LEMMA MovesType ==
    ASSUME TypeOK, Len(alerts) <= Len(alerts'), Len(alerts') \in Nat,
           NEW w \in Worker, NEW label \in PC, NEW t,
           IF label = "idle" THEN t = NoTx ELSE t \in Transaction,
           Moves(w, label, t)
    PROVE  /\ pc' \in [Worker -> PC] /\ tx' = [v \in Worker |-> tx'[v]]
           /\ \A v \in Worker :
                 IF pc'[v] = "idle" THEN tx'[v] = NoTx ELSE tx'[v] \in Transaction'
  <1>1. /\ pc'[w] = label /\ tx'[w] = t
        /\ \A v \in Worker \ {w} : pc'[v] = pc[v] /\ tx'[v] = tx[v]
        /\ tx' = [v \in Worker |-> tx'[v]]
        /\ pc' \in [Worker -> PC]
    BY MovesStep
  <1>2. Transaction \subseteq Transaction'
    <2>1. Len(alerts) \in Nat
      BY LenProperties DEF TypeOK
    <2>2. 0..Len(alerts) \subseteq 0..Len(alerts')
      BY <2>1
    <2> QED
      BY <2>2 DEF Transaction
  <1>3. \A v \in Worker : IF pc[v] = "idle" THEN tx[v] = NoTx ELSE tx[v] \in Transaction
    BY DEF TypeOK
  <1> QED
    BY <1>1, <1>2, <1>3

\* What a worker that decides nothing has in its transaction.
LEMMA PreparesType ==
    ASSUME TypeOK, NEW w \in Worker, Prepares(w)
    PROVE  /\ pc' \in [Worker -> PC] /\ tx' = [v \in Worker |-> tx'[v]]
           /\ \A v \in Worker :
                 IF pc'[v] = "idle" THEN tx'[v] = NoTx ELSE tx'[v] \in Transaction'
  <1>0. /\ Len(alerts) \in Nat /\ alerts' = alerts
        /\ \A i \in DOMAIN alerts : alerts[i] \in Alert
        /\ routing \in [Field -> Outcome \cup {"none"}]
        /\ pc[w] # "idle" => tx[w] \in Transaction
    BY LenProperties, ElementOfSeq DEF TypeOK, Prepares, decided
  <1>1. CASE Enters(w)
    <2> DEFINE t(x) == [field |-> x, outcome |-> routing[x], alert |-> 0,
                        listed |-> {}, fires |-> FALSE]
    <2>1. PICK x \in Field, label \in {"mismatch", "check"} : Moves(w, label, t(x))
      BY <1>1 DEF Enters
    <2>2. t(x) \in Transaction
      BY <1>0 DEF Transaction
    <2> HIDE DEF t
    <2> QED
      BY <1>0, <2>1, <2>2, MovesType DEF PC
  <1>2. CASE Leaves(w)
    BY <1>0, <1>2, MovesType DEF Leaves, PC
  <1>3. CASE Proceeds(w)
    <2>1. PICK label \in {"find_alert", "record", "read_outcomes", "commit"} : Moves(w, label, tx[w])
      BY <1>3 DEF Proceeds
    <2>2. pc[w] # "idle"
      BY <1>3 DEF Proceeds
    <2> QED
      BY <1>0, <2>1, <2>2, MovesType DEF PC, AfterRecord
  <1>4. CASE Finds(w)
    <2> DEFINE t(i) == [tx[w] EXCEPT !.alert = i,
                                     !.listed = IF i = 0 THEN {} ELSE alerts[i].fields]
    <2>1. PICK i \in 0..Len(alerts) :
              /\ i # 0 => i \in DOMAIN alerts /\ alerts[i].cluster = ClusterOf[tx[w].field]
              /\ Moves(w, "update_alert", t(i))
      BY <1>4 DEF Finds
    <2>2. tx[w] \in Transaction
      BY <1>0, <1>4 DEF Finds
    <2>3. i # 0 => alerts[i].fields \subseteq Field
      BY <1>0, <2>1 DEF Alert
    <2>4. t(i) \in Transaction
      BY <2>1, <2>2, <2>3 DEF Transaction
    <2>5. Len(alerts) <= Len(alerts') /\ Len(alerts') \in Nat
      BY <1>0
    <2>6. "update_alert" \in PC /\ "update_alert" # "idle"
      BY DEF PC
    <2>7. Moves(w, "update_alert", t(i))
      BY <2>1
    <2> HIDE DEF t
    <2> QED
      BY <2>4, <2>5, <2>6, <2>7, MovesType
  <1>5. CASE Records(w)
    BY <1>0, <1>5, MovesType DEF Records, PC, AfterRecord
  <1>6. CASE Looks(w)
    <2> DEFINE b == \A x \in FieldsOf(PageOf[tx[w].field]) : routing[x] \in ValidOutcome
    <2>1. tx[w] \in Transaction /\ Moves(w, "commit", [tx[w] EXCEPT !.fires = b])
      BY <1>0, <1>6 DEF Looks
    <2>2. [tx[w] EXCEPT !.fires = b] \in Transaction
      BY <2>1 DEF Transaction
    <2> QED
      BY <1>0, <2>1, <2>2, MovesType DEF PC, AfterRecord
  <1> QED
    BY <1>1, <1>2, <1>3, <1>4, <1>5, <1>6 DEF Prepares

\* Once the window has passed, the alerts are the same but for being fresh.
LEMMA WindowAlerts ==
    ASSUME TypeOK, WindowPasses
    PROVE  /\ alerts' \in Seq(Alert) /\ Len(alerts') = Len(alerts)
           /\ DOMAIN alerts' = DOMAIN alerts
           /\ \A i \in DOMAIN alerts : /\ alerts'[i].cluster = alerts[i].cluster
                                       /\ alerts'[i].fields = alerts[i].fields
                                       /\ ~alerts'[i].fresh
  <1> DEFINE a == [i \in 1..Len(alerts) |-> [alerts[i] EXCEPT !.fresh = FALSE]]
  <1>1. /\ Len(alerts) \in Nat /\ DOMAIN alerts = 1..Len(alerts)
        /\ \A i \in 1..Len(alerts) : alerts[i] \in Alert
    BY LenProperties, ElementOfSeq DEF TypeOK
  <1>2. alerts' = a
    BY <1>1 DEF WindowPasses
  <1>3. \A i \in 1..Len(alerts) : /\ a[i] \in Alert
                                  /\ a[i].cluster = alerts[i].cluster
                                  /\ a[i].fields = alerts[i].fields
                                  /\ ~a[i].fresh
    BY <1>1 DEF Alert
  <1>4. a \in [1..Len(alerts) -> Alert]
    BY <1>3
  <1>5. a \in Seq(Alert) /\ Len(a) = Len(alerts)
    BY <1>1, <1>4
  <1> QED
    BY <1>1, <1>2, <1>3, <1>5

\* The rows that a commit changes.
LEMMA CommitType ==
    ASSUME TypeOK, NEW w \in Worker, Commit(w)
    PROVE  /\ decision' \in [Field -> Outcome \cup {"none"}]
           /\ made' \in [Field -> [Kind -> Nat]]
           /\ alerts' \in Seq(Alert)
           /\ processed' \in [Page -> Nat]
           /\ pc' \in [Worker -> PC] /\ tx' = [v \in Worker |-> tx'[v]]
           /\ \A v \in Worker :
                 IF pc'[v] = "idle" THEN tx'[v] = NoTx ELSE tx'[v] \in Transaction'
  <1> DEFINE t == tx[w]
  <1>1. t \in Transaction /\ t.field \in Field /\ t.outcome \in Outcome \cup {"none"}
        /\ PageOf[t.field] \in Page
    BY DecisionAssumption DEF TypeOK, Commit, Transaction
  <1>2. decision' \in [Field -> Outcome \cup {"none"}]
    BY <1>1 DEF TypeOK, Commit
  <1>3. made' \in [Field -> [Kind -> Nat]]
    <2> DEFINE row == [k \in Kind |-> made[t.field][k] + (IF k \in Yields(t.outcome) THEN 1 ELSE 0)]
    <2>1. made' = [made EXCEPT ![t.field] = row]
      BY DEF Commit
    <2>2. row \in [Kind -> Nat]
      BY <1>1 DEF TypeOK
    <2> HIDE DEF row
    <2> QED
      BY <2>1, <2>2 DEF TypeOK
  <1>4. processed' \in [Page -> Nat]
    <2> DEFINE one == IF t.fires THEN 1 ELSE 0
    <2>1. one \in Nat
      OBVIOUS
    <2>2. processed' = [processed EXCEPT ![PageOf[t.field]] = @ + one]
      BY DEF Commit
    <2> HIDE DEF one
    <2> QED
      BY <1>1, <2>1, <2>2 DEF TypeOK
  <1>5. alerts' = AlertsAfter(t)
    BY DEF Commit
  <1>6. alerts' \in Seq(Alert) /\ Len(alerts) <= Len(alerts')
    BY <1>1, <1>5, CommittedAlerts
  <1>7. Len(alerts') \in Nat
    BY <1>6, LenProperties
  <1>8. Moves(w, "idle", NoTx) /\ "idle" \in PC
    BY DEF Commit, Leave, Moves, Goto, PC
  <1>9. /\ pc' \in [Worker -> PC] /\ tx' = [v \in Worker |-> tx'[v]]
        /\ \A v \in Worker :
              IF pc'[v] = "idle" THEN tx'[v] = NoTx ELSE tx'[v] \in Transaction'
    BY <1>6, <1>7, <1>8, MovesType
  <1> QED
    BY <1>2, <1>3, <1>4, <1>6, <1>9

\* What the handlers leave to the environment, but for the mismatches.
LEMMA HandleFrame ==
    ASSUME TypeOK, NEW w \in Worker, Handle(w)
    PROVE  UNCHANGED upstream /\ mismatched' \subseteq Field
  <1>1. UNCHANGED upstream
    BY DEF Handle, Receive, RejectMismatch, Unroutable, AlreadyDecided, Undecided, FindAlert,
           UpdateAlert, RecordDecision, ReadProcessed, ReadOutcomes, Commit, Fail
  <1>2. CASE RejectMismatch(w)
    BY <1>1, <1>2 DEF RejectMismatch, TypeOK, Transaction
  <1>3. CASE ~RejectMismatch(w)
    <2>1. UNCHANGED mismatched
      BY <1>3 DEF Handle, Receive, Unroutable, AlreadyDecided, Undecided, FindAlert,
             UpdateAlert, RecordDecision, ReadProcessed, ReadOutcomes, Commit, Fail
    <2> QED
      BY <1>1, <2>1 DEF TypeOK
  <1> QED
    BY <1>2, <1>3

\* Every step keeps every variable in its type.
LEMMA TypeStep ==
    ASSUME TypeOK, [Next]_vars
    PROVE  TypeOK'
  <1> DEFINE UpstreamOK ==
                 /\ routing' \in [Field -> Outcome \cup {"none"}]
                 /\ scores' \in [Field -> 0..MaxScores]
                 /\ queue' \subseteq [field : Field, outcome : Outcome \cup {"none"}]
                 /\ mismatched' \subseteq Field
             DecidedOK ==
                 /\ decision' \in [Field -> Outcome \cup {"none"}]
                 /\ made' \in [Field -> [Kind -> Nat]]
                 /\ alerts' \in Seq(Alert)
                 /\ processed' \in [Page -> Nat]
                 /\ pc' \in [Worker -> PC] /\ tx' = [v \in Worker |-> tx'[v]]
                 /\ \A v \in Worker :
                       IF pc'[v] = "idle" THEN tx'[v] = NoTx ELSE tx'[v] \in Transaction'
  <1>1. UpstreamOK
    <2>1. CASE UNCHANGED vars
      BY <2>1 DEF vars, upstream, TypeOK
    <2>2. ASSUME NEW w \in Worker, Handle(w) PROVE UpstreamOK
      BY <2>2, HandleFrame DEF upstream, TypeOK
    <2>3. ASSUME NEW x \in Field, NEW o \in Outcome, Score(x, o) PROVE UpstreamOK
      BY <2>3, DecisionAssumption DEF Score, TypeOK
    <2>4. ASSUME NEW x \in Field, Announce(x) PROVE UpstreamOK
      BY <2>4 DEF Announce, TypeOK
    <2>5. CASE WindowPasses
      BY <2>5 DEF WindowPasses, upstream, TypeOK
    <2> QED
      BY <2>1, <2>2, <2>3, <2>4, <2>5 DEF Next, Environment
  <1>2. DecidedOK
    <2>1. CASE Scores \/ Idles
      BY <2>1 DEF Scores, Score, Idles, decided, worker, TypeOK, Transaction
    <2>2. CASE WindowPasses
      <3>1. alerts' \in Seq(Alert) /\ Len(alerts') = Len(alerts)
        BY <2>2, WindowAlerts
      <3> QED
        BY <2>2, <3>1 DEF WindowPasses, worker, TypeOK, Transaction
    <2>3. ASSUME NEW w \in Worker, Prepares(w) PROVE DecidedOK
      <3>1. UNCHANGED decided
        BY <2>3 DEF Prepares
      <3> QED
        BY <2>3, <3>1, PreparesType DEF decided, TypeOK
    <2>4. ASSUME NEW w \in Worker, Commit(w) PROVE DecidedOK
      BY <2>4, CommitType
    <2> QED
      BY <2>1, <2>2, <2>3, <2>4, StepKinds
  <1> QED
    BY <1>1, <1>2 DEF TypeOK

\* The initial values are typed.
LEMMA TypeInit == Init => TypeOK
  <1> SUFFICES ASSUME Init PROVE TypeOK
    OBVIOUS
  <1>1. alerts \in Seq(Alert)
    BY EmptySeq DEF Init
  <1> QED
    BY <1>1, DecisionAssumption DEF Init, TypeOK, PC

\* TypeOK always holds.
THEOREM TypeCorrect == Spec => []TypeOK
  <1> QED
    BY TypeInit, TypeStep, PTL DEF Spec

------------------------------------------------------------------------------
(* The invariant, over the steps that decide nothing.                        *)

\* What a worker that decides nothing brings into the invariant.
LEMMA PreparesFacts ==
    ASSUME IInv, NEW w \in Worker, Prepares(w)
    PROVE  /\ \A v \in Worker \ {w} : pc'[v] = pc[v] /\ tx'[v] = tx[v]
           /\ pc'[w] \in Deciding => tx'[w].outcome \in ValidOutcome
           /\ pc'[w] \in AfterRecord =>
                /\ decision[tx'[w].field] = "none"
                /\ \A v \in Worker \ {w} : pc[v] \in AfterRecord => tx[v].field # tx'[w].field
           /\ pc'[w] # "idle" =>
                /\ FiresRightly(tx'[w]) /\ Belongs(tx'[w])
                /\ \A v \in Worker \ {w} : pc[v] # "idle" =>
                      \A x \in tx'[w].listed \cap tx[v].listed : tx'[w].alert = tx[v].alert
  <1>0. TypeOK
    BY DEF IInv
  <1>1. \A v \in Worker \ {w} : pc'[v] = pc[v] /\ tx'[v] = tx[v]
    BY <1>0, MovesStep DEF Prepares, Enters, Leaves, Proceeds, Finds, Records, Looks
  <1> DEFINE Old == pc[w] # "idle" /\ tx[w] \in Transaction
             Fine(t) == /\ FiresRightly(t) /\ Belongs(t)
                        /\ \A v \in Worker \ {w} : pc[v] # "idle" =>
                              \A x \in t.listed \cap tx[v].listed : t.alert = tx[v].alert
  <1>2. pc[w] # "idle" => tx[w] \in Transaction /\ Fine(tx[w])
    BY <1>0 DEF IInv, TypeOK, FiresWhenScored, ListedBelongs, ListedOnce
  <1>3. pc[w] \in Deciding => tx[w].outcome \in ValidOutcome
    BY DEF IInv, OutcomeIsValid
  <1>4. pc[w] \in AfterRecord =>
           /\ decision[tx[w].field] = "none"
           /\ \A v \in Worker \ {w} : pc[v] \in AfterRecord => tx[v].field # tx[w].field
    BY DEF IInv, InsertIsExclusive
  <1>5. CASE Enters(w)
    <2> DEFINE t(x) == [field |-> x, outcome |-> routing[x], alert |-> 0,
                        listed |-> {}, fires |-> FALSE]
    <2>1. PICK x \in Field, label \in {"mismatch", "check"} : Moves(w, label, t(x))
      BY <1>5 DEF Enters
    <2>2. Fine(t(x))
      BY DEF FiresRightly, Belongs
    <2>3. pc'[w] = label /\ tx'[w] = t(x)
      BY <1>0, <2>1, MovesStep
    <2>4. label \notin Deciding /\ label \notin AfterRecord
      BY DEF Deciding, AfterRecord
    <2> HIDE DEF t
    <2> QED
      BY <1>1, <2>2, <2>3, <2>4
  <1>6. CASE Leaves(w)
    <2>1. pc'[w] = "idle"
      BY <1>0, <1>6, MovesStep DEF Leaves
    <2> QED
      BY <1>1, <2>1 DEF Deciding, AfterRecord
  <1>7. CASE Proceeds(w)
    <2>1. PICK label \in {"find_alert", "record", "read_outcomes", "commit"} : Moves(w, label, tx[w])
      BY <1>7 DEF Proceeds
    <2>2. pc'[w] = label /\ tx'[w] = tx[w]
      BY <1>0, <2>1, MovesStep
    <2>3. pc[w] # "idle" /\ (pc[w] = "check" => tx[w].outcome \in ValidOutcome)
      BY <1>7 DEF Proceeds
    <2>4. pc[w] = "check" \/ pc[w] \in Deciding
      BY <1>7 DEF Proceeds, Deciding, AfterRecord
    <2>5. pc'[w] \in AfterRecord => pc[w] \in AfterRecord
      <3>1. CASE pc[w] = "read_processed"
        BY <3>1 DEF AfterRecord
      <3>2. CASE pc[w] # "read_processed"
        <4>1. \E l \in {"find_alert", "record"} : Moves(w, l, tx[w])
          BY <1>7, <3>2 DEF Proceeds
        <4>2. pc'[w] \in {"find_alert", "record"}
          BY <1>0, <4>1, MovesStep
        <4> QED
          BY <4>2 DEF AfterRecord
      <3> QED
        BY <3>1, <3>2
    <2> HIDE DEF Fine
    <2>6. Fine(tx'[w])
      BY <1>2, <2>2, <2>3
    <2> USE DEF Fine
    <2> QED
      BY <1>1, <1>3, <1>4, <2>2, <2>3, <2>4, <2>5, <2>6
  <1>8. CASE Finds(w)
    <2> DEFINE t(i) == [tx[w] EXCEPT !.alert = i,
                                     !.listed = IF i = 0 THEN {} ELSE alerts[i].fields]
    <2>1. PICK i \in 0..Len(alerts) :
              /\ i # 0 => i \in DOMAIN alerts /\ alerts[i].cluster = ClusterOf[tx[w].field]
              /\ Moves(w, "update_alert", t(i))
      BY <1>8 DEF Finds
    <2>2. pc'[w] = "update_alert" /\ tx'[w] = t(i)
      BY <1>0, <2>1, MovesStep
    <2>3. /\ t(i).field = tx[w].field /\ t(i).outcome = tx[w].outcome /\ t(i).fires = tx[w].fires
          /\ t(i).alert = i /\ t(i).listed = IF i = 0 THEN {} ELSE alerts[i].fields
      BY <1>2, <1>8 DEF Finds, Transaction
    <2> HIDE DEF t
    <2>4. \A x \in t(i).listed : i # 0 /\ i \in DOMAIN alerts /\ x \in alerts[i].fields
      BY <2>1, <2>3
    <2>5. FiresRightly(t(i))
      BY <1>2, <1>8, <2>3 DEF Finds, FiresRightly
    <2>6. Belongs(t(i))
      <3>1. t(i).alert # 0 => alerts[t(i).alert].cluster = ClusterOf[t(i).field]
        BY <2>1, <2>3
      <3>2. ASSUME NEW x \in t(i).listed
            PROVE  /\ IsOutside(decision[x]) /\ ClusterOf[x] = ClusterOf[t(i).field]
                   /\ \A j \in DOMAIN alerts : x \in alerts[j].fields => j = i
        BY <2>1, <2>3, <2>4 DEF IInv, AlertsListDecided
      <3> QED
        BY <2>3, <2>4, <3>1, <3>2 DEF Belongs
    <2>7. ASSUME NEW v \in Worker \ {w}, pc[v] # "idle", NEW x \in t(i).listed \cap tx[v].listed
          PROVE  t(i).alert = tx[v].alert
      BY <2>3, <2>4, <2>7 DEF IInv, ListedBelongs, Belongs
    <2>8. tx[w].outcome \in ValidOutcome
      BY <1>3, <1>8 DEF Finds, Deciding
    <2> QED
      BY <1>1, <2>2, <2>3, <2>5, <2>6, <2>7, <2>8 DEF AfterRecord
  <1>9. CASE Records(w)
    <2>1. pc'[w] = "read_processed" /\ tx'[w] = tx[w]
      BY <1>0, <1>9, MovesStep DEF Records
    <2>2. pc[w] \in Deciding /\ pc[w] # "idle"
      BY <1>9 DEF Records, Deciding
    <2>3. /\ decision[tx[w].field] = "none"
          /\ \A v \in Worker \ {w} : pc[v] \in AfterRecord => tx[v].field # tx[w].field
      BY <1>9 DEF Records
    <2> HIDE DEF Fine
    <2>4. Fine(tx'[w])
      BY <1>2, <2>1, <2>2
    <2> USE DEF Fine
    <2> QED
      BY <1>1, <1>3, <2>1, <2>2, <2>3, <2>4
  <1>10. CASE Looks(w)
    <2> DEFINE b == \A x \in FieldsOf(PageOf[tx[w].field]) : routing[x] \in ValidOutcome
               t == [tx[w] EXCEPT !.fires = b]
    <2>1. pc'[w] = "commit" /\ tx'[w] = t
      BY <1>0, <1>10, MovesStep DEF Looks
    <2>2. pc[w] = "read_outcomes"
      BY <1>10 DEF Looks
    <2>3. /\ t.field = tx[w].field /\ t.outcome = tx[w].outcome
          /\ t.alert = tx[w].alert /\ t.listed = tx[w].listed /\ t.fires = b
      BY <1>2, <2>2 DEF Transaction
    <2>4. FiresRightly(t)
      BY <2>3 DEF FiresRightly
    <2> HIDE DEF t, b
    <2>5. Belongs(t)
      BY <1>2, <2>2, <2>3 DEF Belongs
    <2>6. pc[w] \in Deciding /\ pc[w] \in AfterRecord
      BY <2>2 DEF Deciding, AfterRecord
    <2> QED
      BY <1>1, <1>2, <1>3, <1>4, <2>1, <2>2, <2>3, <2>4, <2>5, <2>6
  <1> QED
    BY <1>5, <1>6, <1>7, <1>8, <1>9, <1>10 DEF Prepares

\* A worker that decides nothing keeps the invariant.
LEMMA PreparesStep ==
    ASSUME IInv, TypeOK', NEW w \in Worker, Prepares(w)
    PROVE  IInv'
  <1>1. /\ \A v \in Worker \ {w} : pc'[v] = pc[v] /\ tx'[v] = tx[v]
        /\ pc'[w] \in Deciding => tx'[w].outcome \in ValidOutcome
        /\ pc'[w] \in AfterRecord =>
             /\ decision[tx'[w].field] = "none"
             /\ \A v \in Worker \ {w} : pc[v] \in AfterRecord => tx[v].field # tx'[w].field
        /\ pc'[w] # "idle" =>
             /\ FiresRightly(tx'[w]) /\ Belongs(tx'[w])
             /\ \A v \in Worker \ {w} : pc[v] # "idle" =>
                   \A x \in tx'[w].listed \cap tx[v].listed : tx'[w].alert = tx[v].alert
    BY PreparesFacts
  <1>2. UNCHANGED <<routing, decision, made, alerts, processed>>
    BY DEF Prepares, decided
  <1>3. OutcomeIsValid'
    BY <1>1 DEF IInv, OutcomeIsValid
  <1>4. InsertIsExclusive'
    BY <1>1, <1>2 DEF IInv, InsertIsExclusive
  <1>5. FiresWhenScored'
    BY <1>1, <1>2 DEF IInv, FiresWhenScored, FiresRightly
  <1>6. ListedBelongs'
    BY <1>1, <1>2 DEF IInv, ListedBelongs, Belongs
  <1>7. ListedOnce'
    BY <1>1 DEF IInv, ListedOnce
  <1>8. (ExactlyOneOutcome /\ ProcessedImpliesScored /\ DecidedFinite
            /\ ProcessedPerDecision /\ AlertsListDecided)'
    BY <1>2 DEF IInv, ExactlyOneOutcome, ProcessedImpliesScored, DecidedFinite,
                ProcessedPerDecision, AlertsListDecided, Decided
  <1> QED
    BY <1>3, <1>4, <1>5, <1>6, <1>7, <1>8 DEF IInv

\* So do scoring, which never takes an outcome back, and idling.
LEMMA QuietStep ==
    ASSUME IInv, TypeOK', Scores \/ Idles
    PROVE  IInv'
  <1>1. UNCHANGED <<decision, made, alerts, processed, pc, tx>>
    BY DEF Scores, Score, Idles, decided, worker
  <1>2. \A x \in Field : routing[x] \in ValidOutcome => routing'[x] \in ValidOutcome
    BY DecisionAssumption DEF Scores, Score, Idles, IInv, TypeOK
  <1>3. FiresWhenScored'
    BY <1>1, <1>2 DEF IInv, FiresWhenScored, FiresRightly, FieldsOf
  <1>4. ProcessedImpliesScored'
    BY <1>1, <1>2 DEF IInv, ProcessedImpliesScored, FieldsOf
  <1>5. (OutcomeIsValid /\ InsertIsExclusive /\ ListedBelongs /\ ListedOnce)'
    BY <1>1 DEF IInv, OutcomeIsValid, InsertIsExclusive, ListedBelongs, Belongs, ListedOnce
  <1>6. (ExactlyOneOutcome /\ DecidedFinite /\ ProcessedPerDecision /\ AlertsListDecided)'
    BY <1>1 DEF IInv, ExactlyOneOutcome, DecidedFinite, ProcessedPerDecision,
                AlertsListDecided, Decided
  <1> QED
    BY <1>3, <1>4, <1>5, <1>6 DEF IInv

\* So does the dedup window, which says nothing of what an alert lists.
LEMMA WindowStep ==
    ASSUME IInv, TypeOK', WindowPasses
    PROVE  IInv'
  <1>1. UNCHANGED <<routing, decision, made, processed, pc, tx>>
    BY DEF WindowPasses, upstream, worker
  <1>2. /\ DOMAIN alerts' = DOMAIN alerts
        /\ \A i \in DOMAIN alerts : /\ alerts'[i].cluster = alerts[i].cluster
                                    /\ alerts'[i].fields = alerts[i].fields
    BY WindowAlerts DEF IInv
  <1>3. \A v \in Worker : pc[v] # "idle" /\ tx[v].alert # 0 => tx[v].alert \in DOMAIN alerts
    BY LenProperties DEF IInv, TypeOK, Transaction
  <1>4. ListedBelongs'
    BY <1>1, <1>2, <1>3 DEF IInv, ListedBelongs, Belongs
  <1>5. AlertsListDecided'
    BY <1>1, <1>2 DEF IInv, AlertsListDecided
  <1>6. (OutcomeIsValid /\ InsertIsExclusive /\ FiresWhenScored /\ ListedOnce)'
    BY <1>1 DEF IInv, OutcomeIsValid, InsertIsExclusive, FiresWhenScored, FiresRightly, ListedOnce
  <1>7. (ExactlyOneOutcome /\ ProcessedImpliesScored /\ DecidedFinite /\ ProcessedPerDecision)'
    BY <1>1 DEF IInv, ExactlyOneOutcome, ProcessedImpliesScored, DecidedFinite,
                ProcessedPerDecision, Decided
  <1> QED
    BY <1>4, <1>5, <1>6, <1>7 DEF IInv

------------------------------------------------------------------------------
(* The invariant, over a commit.                                             *)

\* What the worker that commits knows of the field it decides.
LEMMA CommitFacts ==
    ASSUME IInv, NEW w \in Worker, Commit(w)
    PROVE  /\ tx[w] \in Transaction /\ tx[w].field \in Field
           /\ tx[w].outcome \in ValidOutcome /\ decision[tx[w].field] = "none"
           /\ \A v \in Worker \ {w} : pc[v] \in AfterRecord => tx[v].field # tx[w].field
           /\ \A x \in Field : decision'[x] = IF x = tx[w].field THEN tx[w].outcome ELSE decision[x]
           /\ FiresRightly(tx[w]) /\ Belongs(tx[w])
           /\ pc'[w] = "idle" /\ \A v \in Worker \ {w} : pc'[v] = pc[v] /\ tx'[v] = tx[v]
           /\ UNCHANGED routing
  <1>1. pc[w] = "commit" /\ Moves(w, "idle", NoTx) /\ TypeOK /\ UNCHANGED routing
    BY DEF Commit, Leave, Goto, Moves, upstream, IInv
  <1>2. pc'[w] = "idle" /\ \A v \in Worker \ {w} : pc'[v] = pc[v] /\ tx'[v] = tx[v]
    BY <1>1, MovesStep
  <1>3. tx[w] \in Transaction /\ tx[w].field \in Field
    BY <1>1 DEF TypeOK, Transaction
  <1>4. pc[w] \in Deciding /\ pc[w] \in AfterRecord /\ pc[w] # "idle"
    BY <1>1 DEF Deciding, AfterRecord
  <1>5. \A x \in Field : decision'[x] = IF x = tx[w].field THEN tx[w].outcome ELSE decision[x]
    BY <1>1 DEF Commit, TypeOK
  <1> QED
    BY <1>1, <1>2, <1>3, <1>4, <1>5
       DEF IInv, OutcomeIsValid, InsertIsExclusive, FiresWhenScored, ListedBelongs

\* A field decided as outside the regime joins one alert of its cluster, which
\* then lists that field and what the transaction read there.
LEMMA CommitJoins ==
    ASSUME IInv, NEW w \in Worker, Commit(w), IsOutside(tx[w].outcome)
    PROVE  \E k \in DOMAIN alerts' :
             /\ IF tx[w].alert = 0 THEN k \notin DOMAIN alerts ELSE k = tx[w].alert
             /\ \A i \in DOMAIN alerts : /\ i \in DOMAIN alerts'
                                         /\ alerts'[i].cluster = alerts[i].cluster
                                         /\ alerts'[i].fresh = alerts[i].fresh
             /\ \A i \in DOMAIN alerts' \ {k} :
                  i \in DOMAIN alerts /\ alerts'[i].fields = alerts[i].fields
             /\ alerts'[k].fields = tx[w].listed \cup {tx[w].field}
             /\ alerts'[k].cluster = ClusterOf[tx[w].field]
  <1> DEFINE t == tx[w]
  <1>1. t \in Transaction /\ Belongs(t) /\ t.alert \in 0..Len(alerts)
    BY CommitFacts DEF Transaction
  <1>2. /\ alerts \in Seq(Alert) /\ Len(alerts) \in Nat /\ DOMAIN alerts = 1..Len(alerts)
        /\ \A i \in DOMAIN alerts : alerts[i] \in Alert
    BY LenProperties, ElementOfSeq DEF IInv, TypeOK
  <1>3. CASE t.alert = 0
    <2> DEFINE a == [cluster |-> ClusterOf[t.field], fields |-> {t.field}, fresh |-> TRUE]
               n == Len(alerts) + 1
    <2>1. alerts' = Append(alerts, a)
      BY <1>3 DEF Commit, AlertsAfter
    <2>2. t.listed = {}
      BY <1>1, <1>3 DEF Belongs
    <2>3. a \in Alert
      BY CommitFacts DEF Alert
    <2>4. a.fields = t.listed \cup {t.field} /\ a.cluster = ClusterOf[t.field]
      BY <2>2
    <2> HIDE DEF a
    <2>5. DOMAIN Append(alerts, a) = 1..n /\ Append(alerts, a)[n] = a
          /\ \A i \in 1..Len(alerts) : Append(alerts, a)[i] = alerts[i]
      BY <1>2, <2>3, AppendProperties, LenProperties
    <2>6. n \in DOMAIN alerts' /\ n \notin DOMAIN alerts /\ \A i \in DOMAIN alerts' \ {n} : i \in DOMAIN alerts
      BY <1>2, <2>1, <2>5
    <2>7. \A i \in DOMAIN alerts : i \in DOMAIN alerts' /\ alerts'[i] = alerts[i]
      BY <1>2, <2>1, <2>5
    <2>8. alerts'[n] = a
      BY <2>1, <2>5
    <2> HIDE DEF n
    <2> QED
      BY <1>3, <2>4, <2>6, <2>7, <2>8
  <1>4. CASE t.alert # 0
    <2> DEFINE k == t.alert  b == [alerts[k] EXCEPT !.fields = t.listed \cup {t.field}]
    <2>1. alerts' = [alerts EXCEPT ![k] = b]
      BY <1>4 DEF Commit, AlertsAfter
    <2>2. k \in DOMAIN alerts /\ alerts[k] \in Alert /\ alerts[k].cluster = ClusterOf[t.field]
      BY <1>1, <1>2, <1>4 DEF Belongs
    <2>3. b.fields = t.listed \cup {t.field} /\ b.cluster = alerts[k].cluster /\ b.fresh = alerts[k].fresh
      BY <2>2 DEF Alert
    <2> HIDE DEF b
    <2>4. /\ DOMAIN alerts' = DOMAIN alerts /\ alerts'[k] = b
          /\ \A i \in DOMAIN alerts \ {k} : alerts'[i] = alerts[i]
      BY <1>2, <2>1, <2>2
    <2> QED
      BY <1>4, <2>2, <2>3, <2>4
  <1> QED
    BY <1>3, <1>4

\* A commit keeps what is said of the alerts.
LEMMA CommitKeepsAlerts ==
    ASSUME IInv, NEW w \in Worker, Commit(w)
    PROVE  AlertsListDecided' /\ ListedBelongs' /\ ListedOnce'
  <1> DEFINE t == tx[w]  y == tx[w].field
  <1>1. /\ t.outcome \in ValidOutcome /\ y \in Field /\ ~IsOutside(decision[y])
        /\ \A x \in Field : decision'[x] = IF x = y THEN t.outcome ELSE decision[x]
        /\ Belongs(t)
        /\ pc'[w] = "idle" /\ \A v \in Worker \ {w} : pc'[v] = pc[v] /\ tx'[v] = tx[v]
        /\ pc[w] # "idle" /\ t.listed \subseteq Field
    BY CommitFacts DEF IsOutside, Commit, Transaction
  <1>2. \A v \in Worker : pc[v] # "idle" =>
           /\ Belongs(tx[v]) /\ tx[v].listed \subseteq Field
           /\ tx[v].alert # 0 => tx[v].alert \in DOMAIN alerts
           /\ \A x \in t.listed \cap tx[v].listed : t.alert = tx[v].alert
    BY <1>1, LenProperties DEF IInv, TypeOK, Transaction, ListedBelongs, ListedOnce
  <1>3. \A i \in DOMAIN alerts : alerts[i].fields \subseteq Field
    <2>1. alerts \in Seq(Alert) /\ DOMAIN alerts = 1..Len(alerts)
      BY LenProperties DEF IInv, TypeOK
    <2>2. \A i \in DOMAIN alerts : alerts[i] \in Alert
      BY <2>1, ElementOfSeq
    <2> QED
      BY <2>2 DEF Alert
  <1>4. ListedOnce'
    BY <1>1 DEF IInv, ListedOnce
  <1>5. CASE ~IsOutside(t.outcome)
    <2>1. alerts' = alerts
      BY <1>5 DEF Commit, AlertsAfter
    <2>2. \A x \in Field : IsOutside(decision[x]) => IsOutside(decision'[x])
      BY <1>1
    <2>3. AlertsListDecided'
      BY <1>3, <2>1, <2>2 DEF IInv, AlertsListDecided
    <2>4. ListedBelongs'
      BY <1>1, <1>2, <2>1, <2>2 DEF ListedBelongs, Belongs
    <2> QED
      BY <1>4, <2>3, <2>4
  <1>6. CASE IsOutside(t.outcome)
    <2>1. PICK k \in DOMAIN alerts' :
             /\ t.alert # 0 => k = t.alert
             /\ \A i \in DOMAIN alerts : /\ i \in DOMAIN alerts'
                                         /\ alerts'[i].cluster = alerts[i].cluster
             /\ \A i \in DOMAIN alerts' \ {k} :
                  i \in DOMAIN alerts /\ alerts'[i].fields = alerts[i].fields
             /\ alerts'[k].fields = t.listed \cup {y}
             /\ alerts'[k].cluster = ClusterOf[y]
      BY <1>6, CommitJoins
    <2>2. \A x \in Field : IsOutside(decision'[x]) <=> IsOutside(decision[x]) \/ x = y
      BY <1>1, <1>6
    \* The field was in no alert, and in no transaction.
    <2>3. \A i \in DOMAIN alerts : y \notin alerts[i].fields
      BY <1>1 DEF IInv, AlertsListDecided
    <2>4. \A v \in Worker : pc[v] # "idle" => y \notin tx[v].listed
      BY <1>1, <1>2 DEF Belongs
    \* What was listed elsewhere has not moved, and what was read is here only.
    <2>5. \A x \in t.listed : k = t.alert /\ \A j \in DOMAIN alerts : x \in alerts[j].fields => j = k
      BY <1>1, <2>1 DEF Belongs
    <2>6. ASSUME NEW i \in DOMAIN alerts', NEW x \in alerts'[i].fields
          PROVE  /\ IsOutside(decision'[x]) /\ alerts'[i].cluster = ClusterOf[x]
                 /\ \A j \in DOMAIN alerts' : x \in alerts'[j].fields => i = j
      <3>1. CASE i = k /\ x = y
        BY <2>1, <2>2, <2>3, <1>1, <3>1
      <3>2. CASE i = k /\ x # y
        <4>1. x \in t.listed
          BY <2>1, <2>6, <3>2
        <4>2. IsOutside(decision[x]) /\ ClusterOf[x] = ClusterOf[y] /\ x \in Field
          BY <1>1, <4>1 DEF Belongs
        <4>3. \A j \in DOMAIN alerts' : x \in alerts'[j].fields => i = j
          BY <2>1, <2>5, <3>2, <4>1
        <4> QED
          BY <2>1, <2>2, <3>2, <4>2, <4>3
      <3>3. CASE i # k
        <4>1. i \in DOMAIN alerts /\ x \in alerts[i].fields /\ x # y /\ x \in Field
          BY <1>3, <2>1, <2>3, <2>6, <3>3
        <4>2. /\ IsOutside(decision[x]) /\ alerts[i].cluster = ClusterOf[x]
              /\ \A j \in DOMAIN alerts : x \in alerts[j].fields => i = j
          BY <4>1 DEF IInv, AlertsListDecided
        <4>3. x \notin t.listed
          BY <2>5, <3>3, <4>1
        <4>4. \A j \in DOMAIN alerts' : x \in alerts'[j].fields => i = j
          BY <2>1, <4>1, <4>2, <4>3
        <4> QED
          BY <2>1, <2>2, <4>1, <4>2, <4>4
      <3> QED
        BY <3>1, <3>2, <3>3
    <2>7. AlertsListDecided'
      BY <2>6 DEF AlertsListDecided
    <2>8. ASSUME NEW v \in Worker \ {w}, pc[v] # "idle" PROVE Belongs(tx[v])'
      <3>1. /\ tx'[v] = tx[v] /\ Belongs(tx[v]) /\ tx[v].listed \subseteq Field
            /\ tx[v].alert # 0 => tx[v].alert \in DOMAIN alerts
        BY <1>1, <1>2, <2>8
      <3>2. tx[v].alert # 0 => alerts'[tx[v].alert].cluster = ClusterOf[tx[v].field]
        BY <2>1, <3>1 DEF Belongs
      <3>3. ASSUME NEW x \in tx[v].listed
            PROVE  /\ tx[v].alert # 0
                   /\ IsOutside(decision'[x]) /\ ClusterOf[x] = ClusterOf[tx[v].field]
                   /\ \A j \in DOMAIN alerts' : x \in alerts'[j].fields => j = tx[v].alert
        <4>1. /\ tx[v].alert # 0 /\ IsOutside(decision[x]) /\ x \in Field
              /\ ClusterOf[x] = ClusterOf[tx[v].field]
              /\ \A j \in DOMAIN alerts : x \in alerts[j].fields => j = tx[v].alert
          BY <3>1 DEF Belongs
        <4>2. x # y
          BY <2>4, <2>8
        <4>3. x \in t.listed => k = tx[v].alert
          BY <1>2, <2>5, <2>8
        <4> QED
          BY <2>1, <2>2, <4>1, <4>2, <4>3
      <3> QED
        BY <3>1, <3>2, <3>3 DEF Belongs
    <2>9. ListedBelongs'
      BY <1>1, <2>8 DEF ListedBelongs
    <2> QED
      BY <1>4, <2>7, <2>9
  <1> QED
    BY <1>5, <1>6

\* A commit writes the rows of the outcome, and there were none before.
LEMMA CommitKeepsOneOutcome ==
    ASSUME IInv, NEW w \in Worker, Commit(w)
    PROVE  ExactlyOneOutcome'
  <1> DEFINE y == tx[w].field  o == tx[w].outcome
             Rows(n, d) == LET one(S) == IF d \in S THEN 1 ELSE 0
                           IN  /\ n["routed_task"] = one({"review"})
                               /\ n["audit_task"] = one({"audit_sample"})
                               /\ n["sample"] = one({"audit_sample"})
                               /\ n["conflict"] = one({"conflict"})
                               /\ n["route_entry"] = one(ValidOutcome)
             row == [k \in Kind |-> made[y][k] + (IF k \in Yields(o) THEN 1 ELSE 0)]
  <1>1. /\ y \in Field /\ o \in ValidOutcome /\ decision[y] = "none"
        /\ \A x \in Field : decision'[x] = IF x = y THEN o ELSE decision[x]
    BY CommitFacts
  <1>2. \A x \in Field : Rows(made[x], decision[x])
    BY DEF IInv, ExactlyOneOutcome
  <1>3. \A x \in Field : made'[x] = IF x = y THEN row ELSE made[x]
    BY <1>1 DEF Commit, IInv, TypeOK
  <1>4. \A k \in Kind : made[y][k] = 0
    BY <1>1, <1>2 DEF Kind, ValidOutcome
  <1>5. \A k \in Kind : row[k] = IF k \in Yields(o) THEN 1 ELSE 0
    BY <1>4
  <1> HIDE DEF row
  <1>6. Rows(row, o)
    BY <1>1, <1>5 DEF Kind, ValidOutcome, Yields
  <1> HIDE DEF Rows
  <1>7. \A x \in Field : Rows(made'[x], decision'[x])
    BY <1>1, <1>2, <1>3, <1>6
  <1> QED
    BY <1>7 DEF ExactlyOneOutcome, Rows

\* A commit adds the field to the decided ones of its page, and at most one
\* page.processed entry.
LEMMA CommitKeepsProcessed ==
    ASSUME IInv, NEW w \in Worker, Commit(w)
    PROVE  DecidedFinite' /\ ProcessedPerDecision' /\ ProcessedImpliesScored'
  <1> DEFINE t == tx[w]  y == tx[w].field  one == IF t.fires THEN 1 ELSE 0
  <1>1. /\ y \in Field /\ t.outcome \in ValidOutcome /\ decision[y] = "none"
        /\ \A x \in Field : decision'[x] = IF x = y THEN t.outcome ELSE decision[x]
        /\ FiresRightly(t) /\ UNCHANGED routing /\ PageOf[y] \in Page
    BY CommitFacts, DecisionAssumption
  <1>2. t.outcome # "none"
    BY <1>1 DEF ValidOutcome
  <1>3. one \in 0..1
    OBVIOUS
  <1>4. \A p \in Page : /\ processed[p] \in Nat
                        /\ processed'[p] = IF p = PageOf[y] THEN processed[p] + one ELSE processed[p]
    <2>1. processed' = [processed EXCEPT ![PageOf[y]] = @ + one] /\ processed \in [Page -> Nat]
      BY DEF Commit, IInv, TypeOK
    <2> HIDE DEF one
    <2> QED
      BY <2>1
  <1>5. \A p \in Page : Decided(p)' = IF p = PageOf[y] THEN Decided(p) \cup {y} ELSE Decided(p)
    BY <1>1, <1>2 DEF Decided, FieldsOf
  <1>6. \A p \in Page : /\ IsFiniteSet(Decided(p)) /\ Cardinality(Decided(p)) \in Nat
                        /\ processed[p] <= Cardinality(Decided(p)) /\ y \notin Decided(p)
    BY <1>1, FS_CardinalityType DEF IInv, DecidedFinite, ProcessedPerDecision, Decided
  <1>7. \A p \in Page : /\ IsFiniteSet(Decided(p) \cup {y})
                        /\ Cardinality(Decided(p) \cup {y}) = Cardinality(Decided(p)) + 1
    BY <1>6, FS_AddElement
  <1>8. DecidedFinite'
    BY <1>5, <1>6, <1>7 DEF DecidedFinite
  <1>9. ProcessedPerDecision'
    <2> SUFFICES ASSUME NEW p \in Page PROVE processed'[p] <= Cardinality(Decided(p)')
      BY DEF ProcessedPerDecision
    <2>1. CASE p = PageOf[y]
      <3>1. processed'[p] = processed[p] + one
        BY <1>4, <2>1
      <3>2. Cardinality(Decided(p)') = Cardinality(Decided(p)) + 1
        BY <1>5, <1>7, <2>1
      <3> HIDE DEF one
      <3> QED
        BY <1>3, <1>4, <1>6, <3>1, <3>2
    <2>2. CASE p # PageOf[y]
      <3>1. processed'[p] = processed[p] /\ Decided(p)' = Decided(p)
        BY <1>4, <1>5, <2>2
      <3> QED
        BY <1>6, <3>1
    <2> QED
      BY <2>1, <2>2
  <1>10. ProcessedImpliesScored'
    <2> SUFFICES ASSUME NEW p \in Page, processed'[p] > 0, NEW x \in FieldsOf(p)
                 PROVE  routing[x] \in ValidOutcome
      BY <1>1 DEF ProcessedImpliesScored
    <2>1. CASE processed[p] > 0
      BY <2>1 DEF IInv, ProcessedImpliesScored
    <2>2. CASE ~(processed[p] > 0)
      <3>1. p = PageOf[y] /\ t.fires
        BY <1>4, <2>2
      <3> QED
        BY <1>1, <3>1 DEF FiresRightly
    <2> QED
      BY <2>1, <2>2
  <1> QED
    BY <1>8, <1>9, <1>10

\* A commit keeps the invariant.
LEMMA CommitStep ==
    ASSUME IInv, TypeOK', NEW w \in Worker, Commit(w)
    PROVE  IInv'
  <1>1. /\ \A v \in Worker \ {w} : pc[v] \in AfterRecord => tx[v].field # tx[w].field
        /\ \A x \in Field : decision'[x] = IF x = tx[w].field THEN tx[w].outcome ELSE decision[x]
        /\ pc'[w] = "idle" /\ \A v \in Worker \ {w} : pc'[v] = pc[v] /\ tx'[v] = tx[v]
        /\ UNCHANGED routing
    BY CommitFacts
  <1>2. "idle" \notin Deciding /\ "idle" \notin AfterRecord
    BY DEF Deciding, AfterRecord
  <1>3. \A v \in Worker : pc[v] \in AfterRecord => tx[v].field \in Field
    BY <1>2 DEF IInv, TypeOK, Transaction
  <1>4. OutcomeIsValid'
    BY <1>1, <1>2 DEF IInv, OutcomeIsValid
  <1>5. InsertIsExclusive'
    BY <1>1, <1>2, <1>3 DEF IInv, InsertIsExclusive
  <1>6. FiresWhenScored'
    BY <1>1 DEF IInv, FiresWhenScored, FiresRightly
  <1> QED
    BY <1>4, <1>5, <1>6, CommitKeepsOneOutcome, CommitKeepsProcessed, CommitKeepsAlerts DEF IInv

------------------------------------------------------------------------------
(* The invariant and what follows.                                           *)

\* The invariant holds at the start.
LEMMA InvInit == Init => IInv
  <1> SUFFICES ASSUME Init PROVE IInv
    OBVIOUS
  <1>1. TypeOK
    BY TypeInit
  <1>2. OutcomeIsValid /\ InsertIsExclusive /\ FiresWhenScored /\ ListedBelongs /\ ListedOnce
    BY DEF Init, OutcomeIsValid, InsertIsExclusive, FiresWhenScored, ListedBelongs, ListedOnce,
           Deciding, AfterRecord
  <1>3. ExactlyOneOutcome
    BY DEF Init, ExactlyOneOutcome, Kind, ValidOutcome
  <1>4. \A p \in Page : Decided(p) = {} /\ processed[p] = 0
    BY DEF Init, Decided, FieldsOf
  <1>5. IsFiniteSet({}) /\ Cardinality({}) = 0
    BY FS_EmptySet
  <1>6. DecidedFinite /\ ProcessedPerDecision /\ ProcessedImpliesScored
    BY <1>4, <1>5 DEF DecidedFinite, ProcessedPerDecision, ProcessedImpliesScored
  <1>7. AlertsListDecided
    BY DEF Init, AlertsListDecided
  <1> QED
    BY <1>1, <1>2, <1>3, <1>6, <1>7 DEF IInv

\* Every step keeps it.
LEMMA InvStep ==
    ASSUME IInv, [Next]_vars
    PROVE  IInv'
  <1>1. TypeOK /\ TypeOK'
    BY TypeStep DEF IInv
  <1> QED
    BY <1>1, StepKinds, QuietStep, WindowStep, PreparesStep, CommitStep

\* So it always holds.
LEMMA Invariance == Spec => []IInv
  <1> QED
    BY InvInit, InvStep, PTL DEF Spec

\* ExactlyOneOutcome always holds: however often a message is delivered, and
\* whoever else has it, a field has the rows of one outcome, once.
THEOREM OneOutcome == Spec => []ExactlyOneOutcome
  <1>1. IInv => ExactlyOneOutcome
    BY DEF IInv
  <1> QED
    BY <1>1, Invariance, PTL

\* AlertsListDecided always holds: no two alerts list a field, and none lists
\* a field of another cluster or one decided otherwise.
THEOREM AlertsAreRight == Spec => []AlertsListDecided
  <1>1. IInv => AlertsListDecided
    BY DEF IInv
  <1> QED
    BY <1>1, Invariance, PTL

\* ProcessedIsBacked always holds: page.processed comes neither before the last
\* score of its page nor without a decision of its own.
THEOREM ProcessedBacked == Spec => []ProcessedIsBacked
  <1>1. IInv => ProcessedIsBacked
    BY DEF IInv, ProcessedIsBacked
  <1> QED
    BY <1>1, Invariance, PTL

\* DecisionsAreFinal holds of every step: only a commit decides, and the insert
\* it has behind it was into a field without a decision.
THEOREM Final == Spec => DecisionsAreFinal
  <1> DEFINE Keeps == \A x \in Field : decision[x] # "none" => decision'[x] = decision[x]
  <1>1. ASSUME IInv, [Next]_vars PROVE Keeps
    <2>1. TypeOK
      BY <1>1 DEF IInv
    <2>2. CASE Scores \/ Idles \/ WindowPasses
      BY <2>2 DEF Scores, Score, Idles, WindowPasses, decided
    <2>3. ASSUME NEW w \in Worker, Prepares(w) PROVE Keeps
      BY <2>3 DEF Prepares, decided
    <2>4. ASSUME NEW w \in Worker, Commit(w) PROVE Keeps
      BY <1>1, <2>4, CommitFacts
    <2> QED
      BY <1>1, <2>1, <2>2, <2>3, <2>4, StepKinds
  <1> QED
    BY <1>1, Invariance, PTL DEF Spec, DecisionsAreFinal

------------------------------------------------------------------------------
(* One worker: what the comments of the code promise.                        *)

Alone == \A v, w \in Worker : v = w

\* Past the search for an alert.
Searched == {"update_alert", "record"} \cup AfterRecord

\* Nobody else commits, so what the worker has read is still so: the page has
\* no entry yet, the alert found lists what it listed, and if none was found
\* there is none inside the window.
UpToDate(w) ==
    /\ tx[w].fires \/ pc[w] = "read_outcomes" => processed[PageOf[tx[w].field]] = 0
    /\ tx[w].alert # 0 => tx[w].listed = alerts[tx[w].alert].fields
    /\ pc[w] \in Searched /\ IsOutside(tx[w].outcome) /\ tx[w].alert = 0 =>
          FreshAlerts(ClusterOf[tx[w].field]) = {}
AllUpToDate == \A w \in Worker : pc[w] # "idle" => UpToDate(w)

SoloInv == IInv /\ AllUpToDate /\ SequentialPromise

\* A step that decides nothing reads what is there, or moves on with it.
LEMMA SoloPrepares ==
    ASSUME Alone, IInv, AllUpToDate, NEW w \in Worker, Prepares(w)
    PROVE  AllUpToDate'
  <1> SUFFICES ASSUME pc'[w] # "idle" PROVE UpToDate(w)'
    BY DEF Alone, AllUpToDate
  <1>1. TypeOK /\ processed' = processed /\ alerts' = alerts
    BY DEF IInv, Prepares, decided
  <1>2. pc[w] # "idle" => UpToDate(w) /\ tx[w] \in Transaction
    BY <1>1 DEF AllUpToDate, TypeOK
  <1>3. \A c : FreshAlerts(c)' = FreshAlerts(c)
    BY <1>1 DEF FreshAlerts
  <1>4. CASE Enters(w)
    <2>1. PICK x \in Field, label \in {"mismatch", "check"} :
             Moves(w, label, [field |-> x, outcome |-> routing[x], alert |-> 0,
                              listed |-> {}, fires |-> FALSE])
      BY <1>4 DEF Enters
    <2>2. pc'[w] = label /\ tx'[w].alert = 0 /\ ~tx'[w].fires
      BY <1>1, <2>1, MovesStep
    <2> QED
      BY <2>2 DEF UpToDate, Searched, AfterRecord
  <1>5. CASE Leaves(w)
    BY <1>1, <1>5, MovesStep DEF Leaves
  <1>6. CASE Proceeds(w)
    <2>1. PICK label \in {"find_alert", "record", "read_outcomes", "commit"} : Moves(w, label, tx[w])
      BY <1>6 DEF Proceeds
    <2>2. pc'[w] = label /\ tx'[w] = tx[w] /\ UpToDate(w)
      BY <1>1, <1>2, <1>6, <2>1, MovesStep DEF Proceeds
    <2>3. pc'[w] = "read_outcomes" => processed[PageOf[tx[w].field]] = 0
      <3> SUFFICES ASSUME pc'[w] = "read_outcomes" PROVE processed[PageOf[tx[w].field]] = 0
        OBVIOUS
      <3>1. \A l : Moves(w, l, tx[w]) => l = "read_outcomes"
        BY <1>1, MovesStep
      <3> QED
        BY <1>6, <3>1 DEF Proceeds
    <2>4. pc'[w] \in Searched => pc[w] \in Searched \/ ~IsOutside(tx[w].outcome)
      <3>1. CASE pc[w] = "check"
        <4>1. PICK l \in {"find_alert", "record"} :
                 Moves(w, l, tx[w]) /\ (l = "record" => ~IsOutside(tx[w].outcome))
          BY <1>6, <3>1 DEF Proceeds
        <4>2. pc'[w] = l
          BY <1>1, <4>1, MovesStep
        <4> QED
          BY <4>1, <4>2 DEF Searched, AfterRecord
      <3>2. CASE pc[w] # "check"
        BY <1>6, <3>2 DEF Proceeds, Searched, AfterRecord
      <3> QED
        BY <3>1, <3>2
    <2> QED
      BY <1>1, <1>3, <2>2, <2>3, <2>4 DEF UpToDate
  <1>7. CASE Finds(w)
    <2> DEFINE t(i) == [tx[w] EXCEPT !.alert = i,
                                     !.listed = IF i = 0 THEN {} ELSE alerts[i].fields]
    <2>1. PICK i \in 0..Len(alerts) :
              /\ i = 0 => FreshAlerts(ClusterOf[tx[w].field]) = {}
              /\ Moves(w, "update_alert", t(i))
      BY <1>7 DEF Finds
    <2>2. pc'[w] = "update_alert" /\ tx'[w] = t(i)
      BY <1>1, <2>1, MovesStep
    <2>3. UpToDate(w) /\ tx[w] \in Transaction
      BY <1>2, <1>7 DEF Finds
    <2>4. /\ t(i).field = tx[w].field /\ t(i).fires = tx[w].fires
          /\ t(i).alert = i /\ (i # 0 => t(i).listed = alerts[i].fields)
      BY <2>3 DEF Transaction
    <2> HIDE DEF t
    <2> QED
      BY <1>1, <1>3, <2>1, <2>2, <2>3, <2>4 DEF UpToDate
  <1>8. CASE Records(w)
    <2>1. pc'[w] = "read_processed" /\ tx'[w] = tx[w]
      BY <1>1, <1>8, MovesStep DEF Records
    <2>2. UpToDate(w) /\ pc[w] \in Searched
      BY <1>2, <1>8 DEF Records, Searched
    <2> QED
      BY <1>1, <1>3, <2>1, <2>2 DEF UpToDate
  <1>9. CASE Looks(w)
    <2> DEFINE t == [tx[w] EXCEPT !.fires = \A x \in FieldsOf(PageOf[tx[w].field]) :
                                                routing[x] \in ValidOutcome]
    <2>1. pc[w] = "read_outcomes" /\ pc'[w] = "commit" /\ tx'[w] = t
      BY <1>1, <1>9, MovesStep DEF Looks
    <2>2. UpToDate(w) /\ tx[w] \in Transaction /\ pc[w] \in Searched
      BY <1>2, <2>1 DEF Searched, AfterRecord
    <2>3. /\ t.field = tx[w].field /\ t.outcome = tx[w].outcome
          /\ t.alert = tx[w].alert /\ t.listed = tx[w].listed
      BY <2>2 DEF Transaction
    <2> HIDE DEF t
    <2> QED
      BY <1>1, <1>3, <2>1, <2>2, <2>3 DEF UpToDate
  <1> QED
    BY <1>4, <1>5, <1>6, <1>7, <1>8, <1>9 DEF Prepares

\* A commit with up-to-date reads keeps the promise.
LEMMA SoloCommit ==
    ASSUME SoloInv, NEW w \in Worker, Commit(w)
    PROVE  SequentialPromise'
  <1> DEFINE t == tx[w]  y == tx[w].field
  <1>1. /\ y \in Field /\ UNCHANGED routing
        /\ \A x \in Field : decision'[x] = IF x = y THEN t.outcome ELSE decision[x]
    BY CommitFacts DEF SoloInv
  <1>2. pc[w] = "commit" /\ UpToDate(w)
    BY DEF Commit, SoloInv, AllUpToDate
  <1>3. /\ t.fires => processed[PageOf[y]] = 0
        /\ t.alert # 0 => t.listed = alerts[t.alert].fields
        /\ IsOutside(t.outcome) /\ t.alert = 0 => FreshAlerts(ClusterOf[y]) = {}
    BY <1>2 DEF UpToDate, Searched, AfterRecord
  <1>4. ProcessedOncePerPage'
    <2> SUFFICES ASSUME NEW p \in Page PROVE processed'[p] <= 1
      BY DEF ProcessedOncePerPage
    <2>1. processed \in [Page -> Nat] /\ processed[p] <= 1
      BY DEF SoloInv, IInv, TypeOK, SequentialPromise, ProcessedOncePerPage
    <2>2. CASE t.fires /\ p = PageOf[y]
      <3>1. processed'[p] = processed[p] + 1
        BY <2>1, <2>2 DEF Commit
      <3> QED
        BY <1>3, <2>2, <3>1
    <2>3. CASE ~(t.fires /\ p = PageOf[y])
      <3>1. processed'[p] = processed[p]
        BY <2>1, <2>3 DEF Commit
      <3> QED
        BY <2>1, <3>1
    <2> QED
      BY <2>2, <2>3
  <1>5. CASE ~IsOutside(t.outcome)
    <2>1. alerts' = alerts
      BY <1>5 DEF Commit, AlertsAfter
    <2> QED
      BY <1>1, <1>4, <1>5, <2>1 DEF SoloInv, SequentialPromise, OneFreshAlertPerCluster,
         EveryOutsideFieldListed
  <1>6. CASE IsOutside(t.outcome)
    <2>1. PICK k \in DOMAIN alerts' :
             /\ IF t.alert = 0 THEN k \notin DOMAIN alerts ELSE k = t.alert
             /\ \A i \in DOMAIN alerts : /\ i \in DOMAIN alerts'
                                         /\ alerts'[i].cluster = alerts[i].cluster
                                         /\ alerts'[i].fresh = alerts[i].fresh
             /\ \A i \in DOMAIN alerts' \ {k} :
                  i \in DOMAIN alerts /\ alerts'[i].fields = alerts[i].fields
             /\ alerts'[k].fields = t.listed \cup {y}
             /\ alerts'[k].cluster = ClusterOf[y]
      BY <1>6, CommitJoins DEF SoloInv
    <2>2. OneFreshAlertPerCluster'
      <3> SUFFICES ASSUME NEW i \in DOMAIN alerts', NEW j \in DOMAIN alerts',
                          alerts'[i].fresh, alerts'[j].fresh,
                          alerts'[i].cluster = alerts'[j].cluster
                   PROVE  i = j
        BY DEF OneFreshAlertPerCluster
      <3>1. CASE i \in DOMAIN alerts /\ j \in DOMAIN alerts
        BY <2>1, <3>1 DEF SoloInv, SequentialPromise, OneFreshAlertPerCluster
      \* The alert this commit inserted is new to its cluster.
      <3>2. t.alert # 0 => t.alert \in DOMAIN alerts
        BY CommitFacts, LenProperties DEF SoloInv, IInv, TypeOK, Transaction
      <3>3. ASSUME k \notin DOMAIN alerts
            PROVE  \A m \in DOMAIN alerts : ~(alerts'[m].cluster = ClusterOf[y] /\ alerts'[m].fresh)
        BY <1>3, <1>6, <2>1, <3>2, <3>3 DEF FreshAlerts
      <3>4. CASE i \notin DOMAIN alerts
        BY <2>1, <3>3, <3>4
      <3>5. CASE j \notin DOMAIN alerts
        BY <2>1, <3>3, <3>5
      <3> QED
        BY <3>1, <3>4, <3>5
    <2>3. EveryOutsideFieldListed'
      <3> SUFFICES ASSUME NEW x \in Field, IsOutside(decision'[x])
                   PROVE  \E i \in DOMAIN alerts' : x \in alerts'[i].fields
        BY DEF EveryOutsideFieldListed
      <3>1. CASE x = y
        BY <2>1, <3>1
      <3>2. CASE x # y
        <4>1. PICK i \in DOMAIN alerts : x \in alerts[i].fields
          BY <1>1, <3>2 DEF SoloInv, SequentialPromise, EveryOutsideFieldListed
        <4>2. i = k => x \in t.listed
          BY <1>3, <2>1, <4>1
        <4> QED
          BY <2>1, <4>1, <4>2
      <3> QED
        BY <3>1, <3>2
    <2> QED
      BY <1>4, <2>2, <2>3 DEF SequentialPromise
  <1> QED
    BY <1>5, <1>6

\* Every step of a lone worker, and of what is around it.
LEMMA SoloStep ==
    ASSUME Alone, SoloInv, [Next]_vars
    PROVE  SoloInv'
  <1>1. IInv /\ IInv' /\ TypeOK /\ AllUpToDate /\ SequentialPromise
    BY InvStep DEF SoloInv, IInv
  <1>2. CASE Scores \/ Idles
    <2>1. UNCHANGED <<decision, alerts, processed, pc, tx>>
      BY <1>2 DEF Scores, Score, Idles, decided, worker
    <2>2. AllUpToDate'
      BY <1>1, <2>1 DEF AllUpToDate, UpToDate, FreshAlerts
    <2>3. SequentialPromise'
      BY <1>1, <2>1 DEF SequentialPromise, ProcessedOncePerPage, OneFreshAlertPerCluster,
         EveryOutsideFieldListed
    <2> QED
      BY <1>1, <2>2, <2>3 DEF SoloInv
  <1>3. CASE WindowPasses
    <2>1. UNCHANGED <<decision, processed, pc, tx>>
      BY <1>3 DEF WindowPasses, worker
    <2>2. /\ DOMAIN alerts' = DOMAIN alerts
          /\ \A i \in DOMAIN alerts : alerts'[i].fields = alerts[i].fields /\ ~alerts'[i].fresh
      BY <1>1, <1>3, WindowAlerts
    <2>3. \A v \in Worker : pc[v] # "idle" /\ tx[v].alert # 0 => tx[v].alert \in DOMAIN alerts
      BY <1>1, LenProperties DEF TypeOK, Transaction
    <2>4. \A c : FreshAlerts(c)' = {}
      BY <2>2 DEF FreshAlerts
    <2>5. AllUpToDate'
      BY <1>1, <2>1, <2>2, <2>3, <2>4 DEF AllUpToDate, UpToDate
    <2>6. SequentialPromise'
      BY <1>1, <2>1, <2>2 DEF SequentialPromise, ProcessedOncePerPage, OneFreshAlertPerCluster,
         EveryOutsideFieldListed
    <2> QED
      BY <1>1, <2>5, <2>6 DEF SoloInv
  <1>4. ASSUME NEW w \in Worker, Prepares(w) PROVE SoloInv'
    <2>1. UNCHANGED <<decision, alerts, processed>>
      BY <1>4 DEF Prepares, decided
    <2>2. AllUpToDate'
      BY <1>1, <1>4, SoloPrepares
    <2>3. SequentialPromise'
      BY <1>1, <2>1 DEF SequentialPromise, ProcessedOncePerPage, OneFreshAlertPerCluster,
         EveryOutsideFieldListed
    <2> QED
      BY <1>1, <2>2, <2>3 DEF SoloInv
  <1>5. ASSUME NEW w \in Worker, Commit(w) PROVE SoloInv'
    <2>1. SequentialPromise'
      BY <1>5, SoloCommit
    <2>2. pc'[w] = "idle"
      BY <1>1, <1>5, CommitFacts
    <2>3. AllUpToDate'
      BY <2>2 DEF Alone, AllUpToDate
    <2> QED
      BY <1>1, <2>1, <2>3 DEF SoloInv
  <1> QED
    BY <1>1, <1>2, <1>3, <1>4, <1>5, StepKinds

\* SequentialPromise always holds with one worker: page.processed fires once
\* per page, a cluster has one alert inside the window, and every field decided
\* as outside the regime is listed, whatever is redelivered or killed half way.
THEOREM KeptWhenAlone ==
    ASSUME Alone
    PROVE  Spec => []SequentialPromise
  <1>1. Init => SoloInv
    <2> SUFFICES ASSUME Init PROVE AllUpToDate /\ SequentialPromise
      BY InvInit DEF SoloInv
    <2>1. alerts = <<>> /\ DOMAIN alerts = {}
      BY DEF Init
    <2>2. SequentialPromise
      BY <2>1 DEF Init, SequentialPromise, ProcessedOncePerPage, OneFreshAlertPerCluster,
         EveryOutsideFieldListed, IsOutside
    <2> QED
      BY <2>2 DEF Init, AllUpToDate
  <1>2. SoloInv /\ [Next]_vars => SoloInv'
    BY SoloStep
  <1>3. SoloInv => SequentialPromise
    BY DEF SoloInv
  <1> QED
    BY <1>1, <1>2, <1>3, PTL DEF Spec

------------------------------------------------------------------------------
(* What comes to the engine: the ramp that lets a stratum be accepted at all, *)
(* and the outcome that Model Work routes a field with.                      *)

\* A stratum on the ramp, and that it was never put back to the shadow.
RampInv ==
    case.kind = "ramp" =>
        /\ case = [kind |-> "ramp", state |-> case.state, regressed |-> case.regressed, seen |-> case.seen]
        /\ case.state \in {"shadow", "ramp", "steady", "regression"}
        /\ case.regressed \in BOOLEAN
        /\ case.state = "shadow" => ~case.regressed

\* A stratum stays, or moves on by the evidence it was judged with.
LEMMA RampMoves ==
    ASSUME NEW e, NEW state \in {"shadow", "ramp", "steady", "regression"}, NEW next,
           next = ColdStartTransition(state, e, MinSamples)
    PROVE  \/ next = state
           \/ state = "shadow" /\ next = "ramp"
           \/ state = "ramp" /\ next = "steady" /\ e.verified /\ e.samples >= MinSamples.ramp /\ ~e.alert
           \/ state \in {"ramp", "steady"} /\ next = "regression"
           \/ state = "regression" /\ next = "ramp"
              /\ e.recovered /\ e.samples >= MinSamples.recovery /\ ~e.alert
  BY DEF ColdStartTransition, Validated, NextState,
         ValidTransitions

EarnedInv == RampInv /\ SteadyIsEarned

\* An evaluation keeps it, and a stratum on the ramp stays one.
LEMMA EarnedStep ==
    ASSUME EarnedInv, NEW e \in Evidence, Evaluate(e)
    PROVE  EarnedInv' /\ case'.kind = "ramp"
  <1> DEFINE next == ColdStartTransition(case.state, e, MinSamples)
             falls == next = "regression" /\ case.state # "regression"
             seen == IF falls THEN {} ELSE case.seen \cup ObservedOf(e)
  <1>1. /\ case.kind = "ramp" /\ case.state \in {"shadow", "ramp", "steady", "regression"}
        /\ case = [kind |-> "ramp", state |-> case.state, regressed |-> case.regressed, seen |-> case.seen]
        /\ case.state = "shadow" => ~case.regressed
        /\ case.regressed \in BOOLEAN
    BY DEF Evaluate, EarnedInv, RampInv
  <1>2. case' = [case EXCEPT !.state = next, !.regressed = @ \/ falls, !.seen = seen]
    BY DEF Evaluate
  <1>3. \/ next = case.state
        \/ case.state = "shadow" /\ next = "ramp"
        \/ /\ case.state = "ramp" /\ next = "steady"
           /\ e.verified /\ e.samples >= MinSamples.ramp /\ ~e.alert
        \/ case.state \in {"ramp", "steady"} /\ next = "regression"
        \/ /\ case.state = "regression" /\ next = "ramp"
           /\ e.recovered /\ e.samples >= MinSamples.recovery /\ ~e.alert
    BY <1>1, RampMoves
  <1> HIDE DEF next
  <1>4. /\ case'.kind = "ramp" /\ case'.state = next /\ case'.regressed = (case.regressed \/ falls)
        /\ case'.seen = seen
        /\ case' = [kind |-> "ramp", state |-> case'.state, regressed |-> case'.regressed, seen |-> case'.seen]
    BY <1>1, <1>2
  <1>5. RampInv'
    BY <1>1, <1>3, <1>4 DEF RampInv
  <1>6. next = "steady" => "proved" \in seen
    BY <1>1, <1>3 DEF EarnedInv, ObservedOf, SteadyIsEarned
  <1>7. (case.regressed \/ falls) /\ next \in {"ramp", "steady"} => "recovered" \in seen
    BY <1>1, <1>3 DEF EarnedInv, ObservedOf, SteadyIsEarned,
                      AutoAcceptAllowed
  <1> QED
    BY <1>4, <1>5, <1>6, <1>7 DEF EarnedInv, SteadyIsEarned, AutoAcceptAllowed

LEMMA EarnedInvariance ==
    CaseSpec => []EarnedInv
  <1>1. CaseInit => EarnedInv
    <2>1. CASE case = OnRamp
      BY <2>1 DEF OnRamp, EarnedInv, RampInv, SteadyIsEarned
    <2>2. CASE case = InSession
      BY <2>2 DEF InSession, EarnedInv, RampInv, SteadyIsEarned
    <2>3. ASSUME NEW kind \in DOMAIN Inputs, case \in Inputs[kind] PROVE case.kind # "ramp"
      BY <2>3, InputsAssumption
    <2> QED
      BY <2>1, <2>2, <2>3 DEF CaseInit, EarnedInv, RampInv, SteadyIsEarned
  <1>2. EarnedInv /\ [CaseNext]_case => EarnedInv'
    <2>1. ASSUME NEW statement, Run(statement) PROVE EarnedInv'
      BY <2>1 DEF Run, EarnedInv, RampInv, SteadyIsEarned
    <2>2. ASSUME EarnedInv, UNCHANGED case PROVE EarnedInv'
      BY <2>2 DEF EarnedInv, RampInv, SteadyIsEarned
    <2> QED
      BY <2>1, <2>2, EarnedStep DEF CaseNext
  <1> QED
    BY <1>1, <1>2, PTL DEF CaseSpec

\* SteadyIsEarned always holds of the ramp, whatever is observed and whatever
\* samples are asked for: a steady stratum was verified on the ramp since its
\* last regression, and one that regressed is accepted from only once recovered.
THEOREM SteadyEarned ==
    CaseSpec => []SteadyIsEarned
  <1>1. EarnedInv => SteadyIsEarned
    BY DEF EarnedInv
  <1> QED
    BY <1>1, EarnedInvariance, PTL

\* When a field is accepted: every reason to do otherwise is absent.
Acceptable(x, answer, detector, target, state) ==
    /\ Needed(detector) \subseteq x.pinned /\ ~x.outside /\ ~x.conflict
    /\ ~Failed(x.id, x.results)
    /\ detector # None => ~EvaluateNovelty(x, detector.prototypes, detector.threshold).outside
    /\ ~(Clamp(answer) < Scale - target) /\ AutoAcceptAllowed(state)

LEMMA AcceptedIfAcceptable ==
    ASSUME NEW x, NEW answer, NEW state
    PROVE  Accepted(x, answer, state)
             <=> Acceptable(x, answer, case.detector, case.target, state)
  <1> DEFINE detector == case.detector
             novelty == IF detector = None THEN InRegime(x.novelty_score)
                        ELSE EvaluateNovelty(x, detector.prototypes, detector.threshold)
             conflict == x.conflict \/ Failed(x.id, x.results)
             outside == x.outside \/ novelty.outside
             o == RoutingOutcome(Clamp(answer), case.target, state, conflict, outside, case.sample)
  <1>1. detector = None => ~novelty.outside
    BY DEF InRegime
  <1>2. Accepted(x, answer, state)
          <=> Needed(detector) \subseteq x.pinned /\ o \in {"auto_accept", "audit_sample"}
    BY DEF Accepted, Decide
  <1>3. o \in {"auto_accept", "audit_sample"}
          <=> /\ ~outside /\ ~conflict
              /\ ~(Clamp(answer) < Scale - case.target) /\ AutoAcceptAllowed(state)
    BY DEF RoutingOutcome
  <1>4. detector # None =>
          novelty = EvaluateNovelty(x, detector.prototypes, detector.threshold)
    OBVIOUS
  <1> HIDE DEF novelty
  <1>5. ~outside <=> ~x.outside /\
          (detector # None => ~EvaluateNovelty(x, detector.prototypes, detector.threshold).outside)
    BY <1>1, <1>4
  <1> HIDE DEF outside, o
  <1> QED
    BY <1>2, <1>3, <1>5 DEF Acceptable

\* What the detector puts outside has the cluster it computed, and what it does
\* not is of a stratum it knows and no farther than its threshold.
LEMMA NoveltySays ==
    ASSUME Scale \in Nat \ {0}, NEW x, NEW prototypes, NEW threshold \in 0..Scale,
           x.embedding \in Int \cup {None}, \A s \in DOMAIN prototypes : prototypes[s] \in Int,
           NEW novelty, novelty = EvaluateNovelty(x, prototypes, threshold)
    PROVE  /\ novelty.outside => novelty.cluster = ClusterId(x)
           /\ ~novelty.outside /\ DOMAIN prototypes # {} =>
                 /\ x.stratum \in DOMAIN prototypes
                 /\ x.embedding # None /\ threshold < Scale =>
                       x.embedding - prototypes[x.stratum] \in (-threshold)..threshold
  <1>1. CASE x.stratum \notin DOMAIN prototypes /\ DOMAIN prototypes # {}
    BY <1>1 DEF EvaluateNovelty, Outside
  <1>2. CASE x.stratum \in DOMAIN prototypes /\ x.embedding # None
    <2> DEFINE score == Distance(x.embedding, prototypes[x.stratum])
    <2>1. novelty = IF score > threshold THEN Outside(x, score, "embedding_distance_exceeded")
                                         ELSE InRegime(score)
      BY <1>2 DEF EvaluateNovelty
    <2>2. score <= threshold /\ threshold < Scale =>
             x.embedding - prototypes[x.stratum] \in (-threshold)..threshold
      BY <1>2 DEF Distance, Clamp
    <2>3. score \in Int
      BY <1>2 DEF Distance, Clamp
    <2> HIDE DEF score
    <2> QED
      BY <1>2, <2>1, <2>2, <2>3 DEF Outside, InRegime
  <1>3. CASE /\ x.stratum \notin DOMAIN prototypes => DOMAIN prototypes = {}
             /\ x.stratum \in DOMAIN prototypes => x.embedding = None
    <2>1. novelty = InRegime(0)
      BY <1>3 DEF EvaluateNovelty
    <2> QED
      BY <1>3, <2>1 DEF InRegime
  <1> QED
    BY <1>1, <1>2, <1>3

\* RoutedSafely holds of every input that can be routed: any results in any
\* order, any detector and any answer of a calibrator.
LEMMA RoutesSafely ==
    ASSUME case.kind = "route", Routable(case)
    PROVE  RoutedSafely
  <1> DEFINE x == case.x  detector == case.detector  target == case.target
             novelty == EvaluateNovelty(x, detector.prototypes, detector.threshold)
  <1>1. /\ Scale \in Nat \ {0} /\ case.answer \in Int /\ target \in 1..(Scale - 1)
        /\ x.embedding \in Int \cup {None} /\ x.results \in Seq(Range(x.results))
        /\ ClusterId(x) # None
        /\ DOMAIN x = {"id", "stratum", "writer", "doc", "embedding", "results", "pinned",
                       "novelty_score", "outside", "conflict"}
    BY ScaleAssumption DEF Routable
  <1>2. detector # None =>
           /\ novelty.outside => novelty.cluster = ClusterId(x)
           /\ ~novelty.outside /\ DOMAIN detector.prototypes # {} =>
                 /\ x.stratum \in DOMAIN detector.prototypes
                 /\ x.embedding # None /\ detector.threshold < Scale =>
                       x.embedding - detector.prototypes[x.stratum]
                           \in (-detector.threshold)..detector.threshold
    BY <1>1, NoveltySays DEF Routable
  <1>3. ASSUME NEW d, d = Decide(x, case.answer, detector, target, case.state, case.sample),
               d.outcome = "outside_calibrated_regime", ~x.outside
        PROVE  d.cluster # None
    <2>1. detector # None /\ novelty.outside /\ d.cluster = novelty.cluster
      BY <1>3 DEF Decide, RoutingOutcome, InRegime
    <2> QED
      BY <1>1, <1>2, <2>1
  <1>4. ASSUME Accepted(x, case.answer, case.state)
        PROVE  /\ Needed(detector) \subseteq x.pinned /\ ~x.outside
               /\ \A i \in DOMAIN x.results :
                     x.id \in x.results[i].fields => x.results[i].verdict # "fail"
               /\ (IF detector = None THEN FALSE ELSE DOMAIN detector.prototypes # {}) =>
                     /\ x.stratum \in DOMAIN detector.prototypes
                     /\ x.embedding # None /\ detector.threshold < Scale =>
                          x.embedding - detector.prototypes[x.stratum]
                              \in (-detector.threshold)..detector.threshold
               /\ Scale - case.answer <= target /\ case.state \notin {"shadow", "regression"}
               /\ Accepted(x, case.answer + 1, case.state)
               /\ Accepted(x, case.answer, "steady")
               /\ x.results # <<>> =>
                     Accepted([x EXCEPT !.results = Front(@)], case.answer, case.state)
    <2>1. Acceptable(x, case.answer, detector, target, case.state)
      BY <1>4, AcceptedIfAcceptable
    <2>2. /\ Needed(detector) \subseteq x.pinned /\ ~x.outside
          /\ \A i \in DOMAIN x.results :
                x.id \in x.results[i].fields => x.results[i].verdict # "fail"
          /\ case.state \notin {"shadow", "regression"}
      BY <2>1 DEF Acceptable, Failed, AutoAcceptAllowed
    <2>3. Scale - case.answer <= target
      BY <1>1, <2>1 DEF Acceptable, Clamp
    <2>4. Accepted(x, case.answer + 1, case.state)
      <3>1. ~(Clamp(case.answer + 1) < Scale - target)
        BY <1>1, <2>1 DEF Acceptable, Clamp
      <3> QED
        BY <2>1, <3>1, AcceptedIfAcceptable DEF Acceptable
    <2>5. Accepted(x, case.answer, "steady")
      <3>1. AutoAcceptAllowed("steady")
        BY DEF AutoAcceptAllowed
      <3> QED
        BY <2>1, <3>1, AcceptedIfAcceptable DEF Acceptable
    <2>6. ASSUME x.results # <<>>
          PROVE  Accepted([x EXCEPT !.results = Front(@)], case.answer, case.state)
      <3> DEFINE y == [x EXCEPT !.results = Front(@)]
      <3>1. /\ y.results = Front(x.results) /\ y.id = x.id /\ y.pinned = x.pinned
            /\ y.outside = x.outside /\ y.conflict = x.conflict /\ y.stratum = x.stratum
            /\ y.embedding = x.embedding /\ y.writer = x.writer /\ y.doc = x.doc
        BY <1>1
      <3> HIDE DEF y
      <3>2. \A i \in DOMAIN y.results : i \in DOMAIN x.results /\ y.results[i] = x.results[i]
        <4>1. Len(x.results) \in Nat /\ Len(x.results) >= 1 /\ DOMAIN x.results = 1..Len(x.results)
          BY <1>1, <2>6, EmptySeq, LenProperties
        <4>2. y.results = SubSeq(x.results, 1, Len(x.results) - 1)
          BY <3>1 DEF Front
        <4> QED
          BY <1>1, <4>1, <4>2, SubSeqProperties
      <3>3. ~Failed(y.id, y.results)
        BY <2>1, <3>1, <3>2 DEF Acceptable, Failed
      <3>4. EvaluateNovelty(y, detector.prototypes, detector.threshold).outside
              <=> novelty.outside
        BY <3>1 DEF EvaluateNovelty, Outside, InRegime
      <3> QED
        BY <2>1, <3>1, <3>3, <3>4, AcceptedIfAcceptable DEF Acceptable, y
    <2>7. (IF detector = None THEN FALSE ELSE DOMAIN detector.prototypes # {}) =>
             /\ x.stratum \in DOMAIN detector.prototypes
             /\ x.embedding # None /\ detector.threshold < Scale =>
                  x.embedding - detector.prototypes[x.stratum]
                      \in (-detector.threshold)..detector.threshold
      BY <1>2, <2>1 DEF Acceptable
    <2> QED
      BY <2>2, <2>3, <2>4, <2>5, <2>6, <2>7
  <1> QED
    BY <1>3, <1>4 DEF RoutedSafely

\* RoutedSafely always holds: an input is judged as it is given.
THEOREM SafelyRouted ==
    CaseSpec => []RoutedSafely
  <1> DEFINE Given == case.kind = "route" => Routable(case)
  <1>1. CaseInit => Given
    BY InputsAssumption DEF CaseInit, OnRamp, InSession
  <1>2. EarnedInv /\ Given /\ [CaseNext]_case => Given'
    <2>1. ASSUME EarnedInv, NEW e \in Evidence, Evaluate(e) PROVE Given'
      BY <2>1, EarnedStep
    <2>2. ASSUME NEW statement, Run(statement) PROVE Given'
      BY <2>2 DEF Run
    <2>3. ASSUME Given, UNCHANGED case PROVE Given'
      BY <2>3 DEF Routable
    <2> QED
      BY <2>1, <2>2, <2>3 DEF CaseNext
  <1>3. Given => RoutedSafely
    BY RoutesSafely DEF RoutedSafely
  <1> QED
    BY <1>1, <1>2, <1>3, EarnedInvariance, PTL DEF CaseSpec
==============================================================================
