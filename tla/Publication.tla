------------------------------ MODULE Publication ------------------------------
(***************************************************************************)
(* Publication: new versions of records (backend.domain.publication) past  *)
(* the gate (publication_gate), the conflict register (conflict_register,  *)
(* publication_adapters) and the volume index of a batch (completeness),   *)
(* which keep them back.                                                   *)
(*                                                                         *)
(* A request is a transaction that reads, statement by statement, what was *)
(* committed at the time, and commits at its end.  There is one batch.     *)
(***************************************************************************)
EXTENDS Naturals, FiniteSets

CONSTANTS
    Group,          (* record_group_ids                                    *)
    Leaf,           (* pages of the batch                                  *)
    NumPositions,   (* index positions they can have                       *)
    Request,        (* requests that can be under way                      *)
    MaxPlacements,  (* bound: times a page is placed                       *)
    MaxRecords,     (* bound: record rows                                  *)
    MaxConflicts    (* bound: conflict rows                                *)

ASSUME PublicationAssumption ==
    NumPositions \in Nat /\ MaxPlacements \in Nat /\ MaxRecords \in Nat /\ MaxConflicts \in Nat

Position == 1..NumPositions
Unplaced == 0
State == {"open", "under_enquiry", "resolved", "referred"}

VARIABLES
    records,        (* record rows, numbered as they are inserted          *)
    conflicts,      (* conflict rows, and the record row each is on        *)
    positions,      (* the index position of each page of the batch        *)
    placements,     (* times a page was placed                             *)
    index,          (* volume_index rows of the batch                      *)
    accepted,       (* positions acknowledged as missing since the batch   *)
                    (* was last without a gap                              *)
    req,            (* the requests                                        *)
    raced,          (* what moved since each request began to look:        *)
                    (* "volume", "conflict", both or nothing               *)
    churned         (* two transactions have worked on the index at once   *)

volume == <<positions, placements, index, accepted>>
vars == <<records, conflicts, volume, req, raced, churned>>

Idle == [op |-> "idle"]
Start(r, x) == req[r] = Idle /\ req' = [req EXCEPT ![r] = x] /\ UNCHANGED raced
Goes(r, op) == req' = [req EXCEPT ![r].op = op] /\ UNCHANGED raced
End(r) == req' = [req EXCEPT ![r] = Idle] /\ raced' = [raced EXCEPT ![r] = {}]
Publishing == {r \in Request : req[r].op \in {"volume", "conflict", "insert"}}
Indexing == {r \in Request : req[r].op \in {"rebuild", "acknowledge"}}

\* What the requests in R look at has moved.
Disturbed(R, what) == [r \in Request |-> raced[r] \cup IF r \in R THEN {what} ELSE {}]

------------------------------------------------------------------------------
(* publish_new_version.                                                      *)

Versions(g) == {x \in records : x.group = g}
NoRecord == [id |-> 0, version |-> 0]
Latest(g) ==
    IF Versions(g) = {} THEN NoRecord
    ELSE CHOOSE x \in Versions(g) : \A y \in Versions(g) : y.version <= x.version

\* latest_version: the checks and the number go by what is the latest now.
Publish(r, g, batch) ==
    /\ Cardinality(records) < MaxRecords
    /\ Start(r, [op |-> IF batch THEN "volume" ELSE "conflict", group |-> g, batch |-> batch,
                 previous |-> Latest(g).id, version |-> Latest(g).version + 1])
    /\ UNCHANGED <<records, conflicts, volume, churned>>

\* current_alert of a row: a gap nobody acknowledged.
Alert(row) == row.gaps # {} /\ row.state # "acknowledged"

\* check_volume_completeness looks at the first row there is, any one of them.
CheckVolume(r) ==
    /\ req[r].op = "volume"
    /\ \/ \E row \in index : Alert(row) /\ End(r)
       \/ (index = {} \/ \E row \in index : ~Alert(row)) /\ Goes(r, "conflict")
    /\ UNCHANGED <<records, conflicts, volume, churned>>

\* Faulty variant: a conflict that was referred does not block.
BlockingStatesOfOffice == {"open", "under_enquiry"}

BlockingStates == {"open", "under_enquiry", "referred"}
Blocked(id) == \E c \in conflicts : id \in c.on /\ c.state \in BlockingStates

\* check_open_conflict, of the previous version.
CheckConflict(r) ==
    /\ req[r].op = "conflict"
    /\ IF Blocked(req[r].previous) THEN End(r) ELSE Goes(r, "insert")
    /\ UNCHANGED <<records, conflicts, volume, churned>>

\* Faulty variant: without the unique constraint.
InsertUnchecked(r) ==
    /\ req[r].op = "insert"
    /\ records' = records \cup {[id |-> Cardinality(records) + 1, group |-> req[r].group,
                                 version |-> req[r].version]}
    /\ End(r)
    /\ UNCHANGED <<conflicts, volume, churned>>

\* uq_record_group_version: of two requests that took one number, the second
\* to insert fails and commits nothing.
Insert(r) ==
    /\ req[r].op = "insert"
    /\ IF \E x \in Versions(req[r].group) : x.version = req[r].version
       THEN UNCHANGED records
       ELSE records' = records \cup {[id |-> Cardinality(records) + 1, group |-> req[r].group,
                                      version |-> req[r].version]}
    /\ End(r)
    /\ UNCHANGED <<conflicts, volume, churned>>

------------------------------------------------------------------------------
(* The conflict register.  Any state may follow any other, so two concurrent *)
(* transitions are two transitions one after the other.                      *)

ReliedOn(ids) == {r \in Publishing : req[r].previous \in ids}

Opened(ids) ==
    /\ Cardinality(conflicts) < MaxConflicts
    /\ conflicts' = conflicts \cup {[id |-> Cardinality(conflicts) + 1, on |-> ids, state |-> "open"]}
    /\ raced' = Disturbed(ReliedOn(ids), "conflict")
    /\ UNCHANGED <<records, volume, req, churned>>

\* report_defect: a downstream counterparty names the record row.
OpenConflict(id) == Opened({id})

\* The decision engine names an extraction, which no check ever asks for.
OpenValidatorConflict == Opened({})

Transition(c, s) ==
    /\ c.state # s
    /\ conflicts' = (conflicts \ {c}) \cup {[c EXCEPT !.state = s]}
    /\ raced' = Disturbed(ReliedOn(c.on), "conflict")
    /\ UNCHANGED <<records, volume, req, churned>>

------------------------------------------------------------------------------
(* The volume index.                                                         *)

GapsOf(observed) ==
    {i \in Position \ observed : \E low, high \in observed : low < i /\ i < high}

Occupied(places) == {places[l] : l \in Leaf} \ {Unplaced}
Gaps == GapsOf(Occupied(positions))

\* Faulty variant: the page that has just been placed is not looked at.
ObservedBefore(l, p) == Occupied(positions)

\* The positions a rebuild sees: what is committed, and its own.
Observed(l, p) == Occupied([positions EXCEPT ![l] = p])

NoRow == [id |-> 0, gaps |-> {}, state |-> "pending"]

\* record_index_position, which may move a page placed before, and the reads of
\* rebuild, in one transaction; a page row is written by one at a time.
Place(r, l, p) ==
    /\ placements < MaxPlacements /\ placements' = placements + 1
    /\ \A q \in Indexing : req[q].op = "rebuild" => req[q].page # l
    /\ \E row \in IF index = {} THEN {NoRow} ELSE index :
          Start(r, [op |-> "rebuild", page |-> l, position |-> p, row |-> row,
                    gaps |-> GapsOf(Observed(l, p))])
    /\ churned' = (churned \/ Indexing # {})
    /\ UNCHANGED <<records, conflicts, positions, index, accepted>>

\* Faulty variant: an acknowledgement outlives the gaps.
StateForSticky(gaps, state) ==
    IF state = "acknowledged" THEN state ELSE IF gaps = {} THEN "complete" ELSE "gap_detected"

\* What rebuild makes of the state it read.
StateFor(gaps, state) ==
    IF gaps = {} THEN "complete" ELSE IF state = "acknowledged" THEN state ELSE "gap_detected"

\* A column is written if its value is not the one that was read.
Written(row, read, new) ==
    [row EXCEPT !.gaps = IF new.gaps = read.gaps THEN @ ELSE new.gaps,
                !.state = IF new.state = read.state THEN @ ELSE new.state]

CommitRebuild(r) ==
    /\ req[r].op = "rebuild"
    /\ LET read == req[r].row
           new == [read EXCEPT !.gaps = req[r].gaps, !.state = StateFor(req[r].gaps, read.state)]
       IN  index' = IF read = NoRow
                    THEN index \cup {[new EXCEPT !.id = Cardinality(index) + 1]}
                    ELSE {IF row.id = read.id THEN Written(row, read, new) ELSE row : row \in index}
    /\ positions' = [positions EXCEPT ![req[r].page] = req[r].position]
    /\ accepted' = IF Gaps' = {} THEN {} ELSE accepted
    /\ raced' = Disturbed(Publishing, "volume")
    /\ req' = [req EXCEPT ![r] = Idle]
    /\ UNCHANGED <<records, conflicts, placements, churned>>

\* acknowledge_gap: the operator has seen the gaps of the row.
Acknowledge(r) ==
    /\ \E row \in index : row.state = "gap_detected" /\ Start(r, [op |-> "acknowledge", row |-> row])
    /\ churned' = (churned \/ Indexing # {})
    /\ UNCHANGED <<records, conflicts, volume>>

CommitAcknowledge(r) ==
    /\ req[r].op = "acknowledge"
    /\ LET read == req[r].row
       IN  /\ index' = {IF row.id = read.id THEN [row EXCEPT !.state = "acknowledged"] ELSE row :
                            row \in index}
           /\ accepted' = accepted \cup read.gaps
    /\ End(r)
    /\ UNCHANGED <<records, conflicts, positions, placements, churned>>

------------------------------------------------------------------------------
\* A statement fails or the connection breaks: nothing is committed.
Abort(r) ==
    /\ req[r] # Idle
    /\ End(r)
    /\ UNCHANGED <<records, conflicts, volume, churned>>

Init ==
    /\ records = {} /\ conflicts = {} /\ positions = [l \in Leaf |-> Unplaced] /\ index = {}
    /\ placements = 0 /\ accepted = {} /\ req = [r \in Request |-> Idle] /\ raced = [r \in Request |-> {}]
    /\ churned = FALSE

Gate(r) ==
    \/ \E g \in Group, batch \in BOOLEAN : Publish(r, g, batch)
    \/ CheckVolume(r) \/ CheckConflict(r) \/ Insert(r)

Volume(r) ==
    \/ \E l \in Leaf, p \in Position : Place(r, l, p)
    \/ CommitRebuild(r) \/ Acknowledge(r) \/ CommitAcknowledge(r)

Register ==
    \/ \E x \in records : OpenConflict(x.id)
    \/ OpenValidatorConflict
    \/ \E c \in conflicts, s \in State : Transition(c, s)

Next == (\E r \in Request : Gate(r) \/ Volume(r) \/ Abort(r)) \/ Register

Spec == Init /\ [][Next]_vars

------------------------------------------------------------------------------
(* Properties.                                                               *)

TypeOK ==
    /\ \A x \in records : x.group \in Group /\ x.id \in 1..Cardinality(records)
    /\ \A c \in conflicts : c.state \in State /\ c.on \subseteq {x.id : x \in records}
    /\ positions \in [Leaf -> Position \cup {Unplaced}] /\ accepted \subseteq Position
    /\ placements \in 0..MaxPlacements
    /\ \A row \in index :
          /\ row.gaps \subseteq Position
          /\ row.state \in {"pending", "complete", "gap_detected", "acknowledged"}
    /\ DOMAIN req = Request /\ raced \in [Request -> SUBSET {"volume", "conflict"}]
    /\ churned \in BOOLEAN

\* However requests race, the versions of a record are numbered without a gap
\* or a double, in the order they were published (uq_record_group_version).
VersionsContiguous ==
    \A g \in Group :
        /\ {x.version : x \in Versions(g)} = 1..Cardinality(Versions(g))
        /\ \A x, y \in Versions(g) : x.id < y.id => x.version < y.version

\* Does r insert a version in this step?
Inserts(r) == req[r].op = "insert" /\ req'[r] # req[r]

\* A version is published over an unresolved conflict reported on the row of the
\* version before it only if that conflict came or moved after this very request
\* had begun to look.
NotOverConflictUnlessRaced ==
    [][\A r \in Request, x \in records' \ records :
          Inserts(r) =>
              \A y \in Versions(x.group) :
                  /\ x.version = y.version + 1
                  /\ \E c \in conflicts : y.id \in c.on /\ c.state # "resolved"
                  => "conflict" \in raced[r]]_vars

\* A version of the batch is published over a gap only if an operator has
\* acknowledged gaps since the batch was last without one, or a page was placed
\* after this very request had begun to look, or two transactions have worked on
\* the index at once.  One acknowledgement lets every gap pass that opens before
\* the batch is complete again: it stays on the row (completeness.rebuild).
NotOverGapUnlessRaced ==
    [][\A r \in Request :
          records' # records /\ Inserts(r) /\ req[r].batch /\ Gaps # {} =>
              accepted # {} \/ "volume" \in raced[r] \/ churned]_vars

\* The index has one row and names the very gaps there are, unless two
\* transactions rebuilt or acknowledged it at once (completeness.rebuild reads
\* all pages, and writes back what it made of them).
IndexNamesGapsUnlessRaced ==
    ~churned => Cardinality(index) <= 1 /\ \A row \in index : row.gaps = Gaps

\* The gate holds: no request publishes over a conflict open on its predecessor,
\* or over a gap of a volume of which no gap has been acknowledged since it was
\* last complete, unless they moved while that request was looking, or the index
\* had been written by two at once (publication_gate.evaluate, one check after
\* the other).
GateHoldsUnlessRaced == NotOverConflictUnlessRaced /\ NotOverGapUnlessRaced
=============================================================================
