---------------------------- MODULE DecisionEngine ----------------------------
(***************************************************************************)
(* The decision engine (backend.workers.decision_engine.handle,            *)
(* backend.domain.decision.route, backend.domain.page_lifecycle): worker   *)
(* transactions that turn a scored field into exactly one of five outcomes,*)
(* over one database under READ COMMITTED.                                 *)
(*                                                                         *)
(* A field is an Extraction row.  A message names a field and the outcome  *)
(* its payload claims ("none" when it claims nothing).  DECISION_QUEUE     *)
(* delivers at least once: any message may be handled again at any time,   *)
(* by several workers at once.  What a transaction has written is kept in  *)
(* tx until it commits.                                                    *)
(***************************************************************************)
EXTENDS Naturals, Sequences, FiniteSets

CONSTANTS
    Worker,         (* decision worker processes                           *)
    Field,          (* Extraction rows, all inserted before any is scored  *)
    Page,
    PageOf,         (* Extraction.page_id                                  *)
    ClusterOf,      (* the novelty cluster id carried by a field's messages *)
    Outcome,        (* the part of VALID_ROUTING_OUTCOMES that scoring uses *)
    MaxScores       (* bound: times the upstream engine scores a field     *)

ValidOutcome == {"auto_accept", "audit_sample", "review", "conflict",
                 "outside_calibrated_regime"}

ASSUME DecisionAssumption ==
    /\ PageOf \in [Field -> Page]
    /\ Outcome \subseteq ValidOutcome
    /\ MaxScores \in Nat

VARIABLES
    routing,        (* Extraction.routing_outcome                          *)
    scores,         (* how often each field was scored                     *)
    queue,          (* messages ever published on DECISION_QUEUE           *)
    decision,       (* decision_record: the outcome decided, or "none"     *)
    made,           (* rows written for a field, by kind                   *)
    alerts,         (* operational_alert rows, oldest first                *)
    mismatched,     (* fields with a decision.payload_mismatch entry       *)
    processed,      (* page.processed entries of each page                 *)
    pc,             (* where each worker is in handle                      *)
    tx              (* its transaction: what it read and will write        *)

upstream == <<routing, scores, queue>>
decided == <<decision, made, alerts, processed>>
worker == <<pc, tx>>
vars == <<upstream, decided, mismatched, worker>>

NoTx == <<>>
Kind == {"routed_task", "audit_task", "sample", "conflict", "route_entry"}

\* The rows each branch of route adds, with the decision.route audit entry.
Yields(o) ==
    {"route_entry"} \cup
    CASE o = "review" -> {"routed_task"}
      [] o = "audit_sample" -> {"audit_task", "sample"}
      [] o = "conflict" -> {"conflict"}
      [] OTHER -> {}

IsOutside(o) == o = "outside_calibrated_regime"
FieldsOf(p) == {x \in Field : PageOf[x] = p}
Decided(p) == {x \in FieldsOf(p) : decision[x] # "none"}

Goto(w, label) == pc' = [pc EXCEPT ![w] = label]

------------------------------------------------------------------------------
(* Model Work (external): it writes routing_outcome to the database before   *)
(* it publishes, and may score a field again.                                *)

Score(x, o) ==
    /\ scores[x] < MaxScores
    /\ scores' = [scores EXCEPT ![x] = @ + 1]
    /\ routing' = [routing EXCEPT ![x] = o]
    /\ queue' = queue \cup {[field |-> x, outcome |-> o]}
    /\ UNCHANGED <<decided, mismatched, worker>>

\* A message whose payload leaves the outcome to the database.
Announce(x) ==
    /\ queue' = queue \cup {[field |-> x, outcome |-> "none"]}
    /\ UNCHANGED <<routing, scores, decided, mismatched, worker>>

\* The dedup window of every alert raised so far runs out.
WindowPasses ==
    /\ alerts' = [i \in DOMAIN alerts |-> [alerts[i] EXCEPT !.fresh = FALSE]]
    /\ UNCHANGED <<upstream, decision, made, processed, mismatched, worker>>

------------------------------------------------------------------------------
(* handle: the field's row is read once and stays in the session.            *)

\* What the payload may say against the row: another outcome, or another
\* confidence. The value of a confidence is abstracted: a message may carry one
\* that differs as soon as its field has been scored again.
PayloadVerdicts(m) ==
    IF m.outcome \notin {"none", routing[m.field]} THEN {"mismatch"}
    ELSE {"check"} \cup {label \in {"mismatch"} : scores[m.field] > 1}

Receive(w, m) ==
    /\ pc[w] = "idle"
    /\ tx' = [tx EXCEPT ![w] = [field |-> m.field, outcome |-> routing[m.field],
                                alert |-> 0, listed |-> {}, fires |-> FALSE]]
    /\ \E label \in PayloadVerdicts(m) : Goto(w, label)
    /\ UNCHANGED <<upstream, decided, mismatched>>

\* The transaction ends without effect: a failure anywhere, a kill, an
\* exception of the handler, or a replay that had nothing to do.
Leave(w) ==
    /\ Goto(w, "idle")
    /\ tx' = [tx EXCEPT ![w] = NoTx]

\* The audit entry is committed before PayloadMismatchError is raised.
RejectMismatch(w) ==
    /\ pc[w] = "mismatch"
    /\ mismatched' = mismatched \cup {tx[w].field}
    /\ Leave(w)
    /\ UNCHANGED <<upstream, decided>>

------------------------------------------------------------------------------
(* route.                                                                    *)

Unroutable(w) ==
    /\ pc[w] = "check"
    /\ tx[w].outcome \notin ValidOutcome
    /\ Leave(w)
    /\ UNCHANGED <<upstream, decided, mismatched>>

\* decision_record is there: the stored result is returned, or
\* AlreadyDecidedWithDifferentOutcome is raised.
AlreadyDecided(w) ==
    /\ pc[w] = "check"
    /\ tx[w].outcome \in ValidOutcome
    /\ decision[tx[w].field] # "none"
    /\ Leave(w)
    /\ UNCHANGED <<upstream, decided, mismatched>>

Undecided(w) ==
    /\ pc[w] = "check"
    /\ tx[w].outcome \in ValidOutcome
    /\ decision[tx[w].field] = "none"
    /\ Goto(w, IF IsOutside(tx[w].outcome) THEN "find_alert" ELSE "record")
    /\ UNCHANGED <<upstream, decided, mismatched, tx>>

\* The newest alert of the cluster inside the dedup window, 0 for none.
FreshAlerts(c) == {i \in DOMAIN alerts : alerts[i].cluster = c /\ alerts[i].fresh}
IsLatest(i, S) == IF S = {} THEN i = 0 ELSE i \in S /\ \A j \in S : j <= i

\* Faulty variant: no alert is looked for.
FindNoAlert(w) ==
    /\ pc[w] = "find_alert"
    /\ Goto(w, "update_alert")
    /\ UNCHANGED <<upstream, decided, mismatched, tx>>

FindAlert(w) ==
    /\ pc[w] = "find_alert"
    /\ \E i \in 0..Len(alerts) :
          /\ IsLatest(i, FreshAlerts(ClusterOf[tx[w].field]))
          /\ tx' = [tx EXCEPT ![w].alert = i,
                              ![w].listed = IF i = 0 THEN {} ELSE alerts[i].fields]
    /\ Goto(w, "update_alert")
    /\ UNCHANGED <<upstream, decided, mismatched>>

\* Past the update of an alert row, past the insert of a decision_record row:
\* until the transaction ends, both make others wait.
AfterRecord == {"read_processed", "read_outcomes", "commit"}
HoldsAlert(v, i) == pc[v] \in AfterRecord \cup {"record"} /\ tx[v].alert = i
HoldsDecision(v, x) == pc[v] \in AfterRecord /\ tx[v].field = x

\* A new alert is inserted, or the whole id list of the one found is written.
UpdateAlert(w) ==
    /\ pc[w] = "update_alert"
    /\ tx[w].alert # 0 => ~\E v \in Worker \ {w} : HoldsAlert(v, tx[w].alert)
    /\ Goto(w, "record")
    /\ UNCHANGED <<upstream, decided, mismatched, tx>>

\* Faulty variant: extraction_id is not unique in decision_record.
RecordDecisionUnchecked(w) ==
    /\ pc[w] = "record"
    /\ Goto(w, "read_processed")
    /\ UNCHANGED <<upstream, decided, mismatched, tx>>

\* The unique index makes the insert wait for another one of the same field,
\* and fails it once that one has committed.
RecordDecision(w) ==
    /\ pc[w] = "record"
    /\ ~\E v \in Worker \ {w} : HoldsDecision(v, tx[w].field)
    /\ IF decision[tx[w].field] = "none"
       THEN Goto(w, "read_processed") /\ UNCHANGED tx
       ELSE Leave(w)
    /\ UNCHANGED <<upstream, decided, mismatched>>

\* Faulty variant: the replay guard is left out.
ReadProcessedUnguarded(w) ==
    /\ pc[w] = "read_processed"
    /\ Goto(w, "read_outcomes")
    /\ UNCHANGED <<upstream, decided, mismatched, tx>>

\* mark_processed_if_terminal: has the page its entry already?
ReadProcessed(w) ==
    /\ pc[w] = "read_processed"
    /\ Goto(w, IF processed[PageOf[tx[w].field]] > 0 THEN "commit" ELSE "read_outcomes")
    /\ UNCHANGED <<upstream, decided, mismatched, tx>>

\* Faulty variant: one scored field is enough.
ReadOutcomesAny(w) ==
    /\ pc[w] = "read_outcomes"
    /\ tx' = [tx EXCEPT ![w].fires =
                 \E x \in FieldsOf(PageOf[tx[w].field]) : routing[x] \in ValidOutcome]
    /\ Goto(w, "commit")
    /\ UNCHANGED <<upstream, decided, mismatched>>

\* Has every field of the page a routing_outcome?
ReadOutcomes(w) ==
    /\ pc[w] = "read_outcomes"
    /\ tx' = [tx EXCEPT ![w].fires =
                 \A x \in FieldsOf(PageOf[tx[w].field]) : routing[x] \in ValidOutcome]
    /\ Goto(w, "commit")
    /\ UNCHANGED <<upstream, decided, mismatched>>

\* Faulty variant: the alert found is left as it is.
AlertsAfterUnfolded(t) ==
    IF ~IsOutside(t.outcome) THEN alerts
    ELSE IF t.alert = 0
    THEN Append(alerts, [cluster |-> ClusterOf[t.field], fields |-> {t.field}, fresh |-> TRUE])
    ELSE alerts

\* What the transaction does to operational_alert.
AlertsAfter(t) ==
    IF ~IsOutside(t.outcome) THEN alerts
    ELSE IF t.alert = 0
    THEN Append(alerts, [cluster |-> ClusterOf[t.field], fields |-> {t.field}, fresh |-> TRUE])
    ELSE [alerts EXCEPT ![t.alert].fields = t.listed \cup {t.field}]

Commit(w) ==
    /\ pc[w] = "commit"
    /\ LET t == tx[w]
       IN  /\ decision' = [decision EXCEPT ![t.field] = t.outcome]
           /\ made' = [made EXCEPT ![t.field] =
                          [k \in Kind |-> @[k] + (IF k \in Yields(t.outcome) THEN 1 ELSE 0)]]
           /\ alerts' = AlertsAfter(t)
           /\ processed' = [processed EXCEPT ![PageOf[t.field]] =
                               @ + (IF t.fires THEN 1 ELSE 0)]
    /\ Leave(w)
    /\ UNCHANGED <<upstream, mismatched>>

\* A statement failed, a deadlock was broken, or the process was killed.
Fail(w) ==
    /\ pc[w] # "idle"
    /\ Leave(w)
    /\ UNCHANGED <<upstream, decided, mismatched>>

------------------------------------------------------------------------------
Init ==
    /\ routing = [x \in Field |-> "none"]
    /\ scores = [x \in Field |-> 0]
    /\ queue = {}
    /\ decision = [x \in Field |-> "none"]
    /\ made = [x \in Field |-> [k \in Kind |-> 0]]
    /\ alerts = <<>>
    /\ mismatched = {}
    /\ processed = [p \in Page |-> 0]
    /\ pc = [w \in Worker |-> "idle"]
    /\ tx = [w \in Worker |-> NoTx]

Environment ==
    \/ \E x \in Field : Announce(x) \/ \E o \in Outcome : Score(x, o)
    \/ WindowPasses

Handle(w) ==
    \/ \E m \in queue : Receive(w, m)
    \/ RejectMismatch(w) \/ Unroutable(w) \/ AlreadyDecided(w) \/ Undecided(w)
    \/ FindAlert(w) \/ UpdateAlert(w) \/ RecordDecision(w)
    \/ ReadProcessed(w) \/ ReadOutcomes(w) \/ Commit(w) \/ Fail(w)

Next == Environment \/ \E w \in Worker : Handle(w)

Spec == Init /\ [][Next]_vars

------------------------------------------------------------------------------
(* Properties.                                                               *)

PC == {"idle", "mismatch", "check", "find_alert", "update_alert", "record"} \cup AfterRecord

Alert == [cluster : {ClusterOf[x] : x \in Field}, fields : SUBSET Field, fresh : BOOLEAN]

Transaction ==
    [field : Field, outcome : Outcome \cup {"none"}, alert : 0..Len(alerts),
     listed : SUBSET Field, fires : BOOLEAN]

TypeOK ==
    /\ routing \in [Field -> Outcome \cup {"none"}]
    /\ scores \in [Field -> 0..MaxScores]
    /\ queue \subseteq [field : Field, outcome : Outcome \cup {"none"}]
    /\ decision \in [Field -> Outcome \cup {"none"}]
    /\ made \in [Field -> [Kind -> Nat]]
    /\ alerts \in Seq(Alert)
    /\ mismatched \subseteq Field
    /\ processed \in [Page -> Nat]
    /\ pc \in [Worker -> PC]
    /\ tx = [w \in Worker |-> tx[w]]
    /\ \A w \in Worker : IF pc[w] = "idle" THEN tx[w] = NoTx ELSE tx[w] \in Transaction

\* route: "exactly one terminal decision per extraction_id": whatever is
\* redelivered, handled twice at once or killed half way, a field has the rows
\* of the outcome it was decided with, once, and no row of any other.
ExactlyOneOutcome ==
    \A x \in Field :
        LET one(S) == IF decision[x] \in S THEN 1 ELSE 0
        IN  /\ made[x]["routed_task"] = one({"review"})
            /\ made[x]["audit_task"] = one({"audit_sample"})
            /\ made[x]["sample"] = one({"audit_sample"})
            /\ made[x]["conflict"] = one({"conflict"})
            /\ made[x]["route_entry"] = one(ValidOutcome)

\* A decision is never changed, not even when the field is scored anew between
\* two deliveries or while two workers have it in hand.
DecisionsAreFinal ==
    [][\A x \in Field : decision[x] # "none" => decision'[x] = decision[x]]_vars

\* Alerts list only fields decided as outside the regime, each under its own
\* cluster and in one alert.
AlertsListDecided ==
    \A i \in DOMAIN alerts : \A x \in alerts[i].fields :
        /\ IsOutside(decision[x])
        /\ alerts[i].cluster = ClusterOf[x]
        /\ \A j \in DOMAIN alerts : x \in alerts[j].fields => i = j

\* page.processed waits for the page's last field to be scored.
ProcessedImpliesScored ==
    \A p \in Page : processed[p] > 0 => \A x \in FieldsOf(p) : routing[x] \in ValidOutcome

\* Each page.processed entry was committed with a decision of its own: replays,
\* failures and mismatches never add one.
ProcessedPerDecision == \A p \in Page : processed[p] <= Cardinality(Decided(p))

\* However two decisions of one page overlap, its entries are backed: by the
\* scores of all its fields and by one decision for each.
ProcessedIsBacked == ProcessedImpliesScored /\ ProcessedPerDecision

\* mark_processed_if_terminal: "fires exactly once per page".
ProcessedOncePerPage == \A p \in Page : processed[p] <= 1

\* _outside_calibrated_regime: inside the window "a cluster of novel pages
\* raises ONE operational alert".
OneFreshAlertPerCluster ==
    \A i, j \in DOMAIN alerts :
        alerts[i].fresh /\ alerts[j].fresh /\ alerts[i].cluster = alerts[j].cluster => i = j

\* _outside_calibrated_regime: a second extraction of the cluster is folded
\* into the alert, "its id appended to extraction_ids".
EveryOutsideFieldListed ==
    \A x \in Field : IsOutside(decision[x]) => \E i \in DOMAIN alerts : x \in alerts[i].fields

\* What the comments of mark_processed_if_terminal and _outside_calibrated_regime
\* promise is true of one worker, whatever is redelivered to it or killed half way.
SequentialPromise == ProcessedOncePerPage /\ OneFreshAlertPerCluster /\ EveryOutsideFieldListed
==============================================================================
