--------------------------- MODULE PublicationProofs ---------------------------
(***************************************************************************)
(* Proofs about Publication, for any records, positions and requests and   *)
(* any bounds, and about the reads of a record, for any rows and requests. *)
(***************************************************************************)
EXTENDS Publication, Algorithms, SequenceTheorems, FiniteSetTheorems, TLAPS

(* The rows and the requests.                                                *)

RecordRow == [id : Nat \ {0}, group : Group, version : Nat \ {0}]

ConflictRow(c) ==
    /\ c = [id |-> c.id, on |-> c.on, state |-> c.state]
    /\ c.state \in State /\ c.on \subseteq {x.id : x \in records}

IndexRow(row) ==
    /\ row = [id |-> row.id, gaps |-> row.gaps, state |-> row.state]
    /\ row.gaps \subseteq Position
    /\ row.state \in {"pending", "complete", "gap_detected", "acknowledged"}

PublishingRequest ==
    [op : {"volume", "conflict", "insert"}, group : Group, batch : BOOLEAN, previous : Nat,
     version : Nat \ {0}]

IndexingRequest(q) ==
    /\ q.op \in {"rebuild", "acknowledge"} /\ IndexRow(q.row)
    /\ q.op = "rebuild" => q.page \in Leaf /\ q.position \in Position /\ q.gaps \subseteq Position

RecordTypes ==
    /\ records \subseteq RecordRow /\ IsFiniteSet(records)
    /\ \A x \in records : x.id <= Cardinality(records)

RequestTypes ==
    /\ DOMAIN req = Request
    /\ \A r \in Request : req[r] = Idle \/ req[r] \in PublishingRequest \/ IndexingRequest(req[r])

RaceTypes == raced \in [Request -> SUBSET {"volume", "conflict"}] /\ churned \in BOOLEAN

VolumeTypes ==
    /\ positions \in [Leaf -> Position \cup {Unplaced}] /\ accepted \subseteq Position
    /\ placements \in 0..MaxPlacements
    /\ \A row \in index : IndexRow(row)

Types ==
    /\ RecordTypes /\ RequestTypes /\ VolumeTypes /\ RaceTypes
    /\ \A c \in conflicts : ConflictRow(c)

------------------------------------------------------------------------------
(* The invariants.                                                           *)

\* A number is taken once, and a request's number is the next after a version
\* that is there.
Distinct == \A x, y \in records : x.group = y.group /\ x.version = y.version => x = y

Succeeds(q) ==
    \/ q.version = 1
    \/ \E y \in Versions(q.group) : q.version = y.version + 1

Follows(q) == \A y \in Versions(q.group) : q.version = y.version + 1 => q.previous = y.id

Numbering ==
    /\ VersionsContiguous /\ Distinct
    /\ \A r \in Publishing : Succeeds(req[r]) /\ Follows(req[r])

\* A request that has looked at the conflicts knows of all there are, or they
\* moved since it began.
ConflictSeen ==
    \A r \in Request : req[r].op = "insert" =>
        \A c \in conflicts :
            req[r].previous \in c.on /\ c.state # "resolved" => "conflict" \in raced[r]

\* A request that has looked at the volume has found no gap, or gaps have been
\* acknowledged since there was none, or the volume moved since it began.
VolumeSeen ==
    \A r \in Request : req[r].op \in {"conflict", "insert"} /\ req[r].batch =>
        Gaps = {} \/ accepted # {} \/ "volume" \in raced[r] \/ churned

\* As long as the index is worked on by one transaction at a time it has one
\* row, and every transaction knows that row and the gaps there are.
OneRow ==
    \/ index = {} /\ Occupied(positions) = {}
    \/ \E row : index = {row} /\ row # NoRow

RowIsTrue ==
    \A row \in index :
        /\ row.gaps = Gaps
        /\ row.state = "gap_detected" => row.gaps # {}
        /\ row.state = "acknowledged" => accepted # {}

Alone == \A r, s \in Indexing : r = s

Informed ==
    \A r \in Request :
        /\ req[r].op = "rebuild" =>
              /\ req[r].gaps = GapsOf(Observed(req[r].page, req[r].position))
              /\ req[r].row \in index \/ (req[r].row = NoRow /\ index = {})
        /\ req[r].op = "acknowledge" => req[r].row \in index /\ req[r].row.state = "gap_detected"

IndexInv == ~churned => OneRow /\ RowIsTrue /\ Alone /\ Informed

IInv == Types /\ Numbering /\ ConflictSeen /\ VolumeSeen /\ IndexInv

------------------------------------------------------------------------------
(* Records and their numbers.                                                *)

LEMMA VersionsAreFinite ==
    ASSUME RecordTypes, NEW g
    PROVE  /\ IsFiniteSet(Versions(g)) /\ Cardinality(Versions(g)) \in Nat /\ Cardinality(records) \in Nat
           /\ Versions(g) \subseteq records /\ Versions(g) = {} => Cardinality(Versions(g)) = 0
           /\ Versions(g) # {} => Cardinality(Versions(g)) > 0
  <1>1. Versions(g) \subseteq records
    BY DEF Versions
  <1>2. IsFiniteSet(Versions(g))
    BY <1>1, FS_Subset DEF RecordTypes
  <1> QED
    BY <1>1, <1>2, FS_CardinalityType, FS_EmptySet DEF RecordTypes

\* There is a latest version of a record that has one.
LEMMA LatestExists ==
    ASSUME RecordTypes, VersionsContiguous, NEW g \in Group
    PROVE  /\ Versions(g) = {} => Latest(g) = NoRecord
           /\ Versions(g) # {} =>
                 Latest(g) \in Versions(g) /\ \A y \in Versions(g) : y.version <= Latest(g).version
  <1> DEFINE n == Cardinality(Versions(g))
  <1>1. ASSUME Versions(g) # {} PROVE \E x \in Versions(g) : \A y \in Versions(g) : y.version <= x.version
    <2>1. n \in Nat /\ n > 0 /\ {x.version : x \in Versions(g)} = 1..n
      BY <1>1, VersionsAreFinite DEF VersionsContiguous
    <2>2. PICK x \in Versions(g) : x.version = n
      BY <2>1
    <2>3. \A y \in Versions(g) : y.version \in 1..n
      BY <2>1
    <2> QED
      BY <2>1, <2>2, <2>3
  <1> QED
    BY <1>1 DEF Latest

\* Records do not change: what numbering says of a request rests on its fields.
LEMMA NumberingRests ==
    ASSUME Numbering, UNCHANGED records,
           \A r \in Publishing' : /\ r \in Publishing /\ req'[r].group = req[r].group
                                  /\ req'[r].version = req[r].version /\ req'[r].previous = req[r].previous
    PROVE  Numbering'
  <1>1. VersionsContiguous' /\ Distinct'
    BY DEF Numbering, VersionsContiguous, Distinct, Versions
  <1>2. \A r \in Publishing' : (Succeeds(req[r]) /\ Follows(req[r]))'
    BY DEF Numbering, Succeeds, Follows, Versions
  <1> QED
    BY <1>1, <1>2 DEF Numbering

LEMMA PublishNumbers ==
    ASSUME Types, Numbering, NEW r \in Request, NEW g \in Group, NEW batch \in BOOLEAN, Publish(r, g, batch)
    PROVE  Numbering' /\ req'[r] \in PublishingRequest
  <1> DEFINE q == [op |-> IF batch THEN "volume" ELSE "conflict", group |-> g, batch |-> batch,
                   previous |-> Latest(g).id, version |-> Latest(g).version + 1]
  <1>1. UNCHANGED records /\ req[r] = Idle /\ req' = [req EXCEPT ![r] = q]
    BY DEF Publish, Start
  <1>2. RecordTypes /\ DOMAIN req = Request
    BY DEF Types, RequestTypes
  <1>3. /\ Versions(g) = {} => Latest(g).id = 0 /\ Latest(g).version = 0
        /\ Versions(g) # {} => /\ Latest(g) \in RecordRow /\ Latest(g) \in Versions(g)
                               /\ \A y \in Versions(g) : y \in RecordRow /\ y.version <= Latest(g).version
    <2>1. Versions(g) \subseteq RecordRow
      BY <1>2 DEF Versions, RecordTypes
    <2>2. /\ Versions(g) = {} => Latest(g) = NoRecord
          /\ Versions(g) # {} =>
                Latest(g) \in Versions(g) /\ \A y \in Versions(g) : y.version <= Latest(g).version
      BY <1>2, LatestExists DEF Numbering
    <2> QED
      BY <2>1, <2>2 DEF NoRecord
  <1>4. q \in PublishingRequest
    BY <1>3 DEF PublishingRequest, RecordRow
  <1>5. req'[r] = q /\ \A s \in Request \ {r} : req'[s] = req[s]
    BY <1>1, <1>2
  <1>6. Succeeds(q)
    BY <1>3 DEF Succeeds, Versions
  <1>7. Follows(q)
    <2> SUFFICES ASSUME NEW y \in Versions(g), Latest(g).version + 1 = y.version + 1
                 PROVE  Latest(g).id = y.id
      BY DEF Follows
    <2>1. Latest(g).version = y.version /\ Latest(g) \in Versions(g)
      BY <1>3 DEF RecordRow
    <2> QED
      BY <2>1 DEF Numbering, Distinct, Versions
  <1>8. VersionsContiguous' /\ Distinct'
    BY <1>1 DEF Numbering, VersionsContiguous, Distinct, Versions
  <1>9. ASSUME NEW s \in Publishing' PROVE (Succeeds(req[s]) /\ Follows(req[s]))'
    <2>1. CASE s = r
      <3> HIDE DEF q
      <3> QED
        BY <1>1, <1>5, <1>6, <1>7, <2>1 DEF Succeeds, Follows, Versions
    <2>2. CASE s # r
      <3>1. s \in Publishing
        BY <1>5, <2>2 DEF Publishing
      <3> QED
        BY <1>1, <1>5, <2>2, <3>1 DEF Numbering, Succeeds, Follows, Versions, Publishing
    <2> QED
      BY <2>1, <2>2
  <1> QED
    BY <1>4, <1>5, <1>8, <1>9 DEF Numbering

\* The number a request took is free only if it is the next.
LEMMA InsertNumbers ==
    ASSUME Types, Numbering, NEW r \in Request, Insert(r)
    PROVE  Numbering' /\ RecordTypes'
  <1>0. PICK q, g : q = req[r] /\ g = q.group
    OBVIOUS
  <1> DEFINE n == Cardinality(records)
             new == [id |-> n + 1, group |-> g, version |-> q.version]
  <1>1. q.op = "insert" /\ req' = [req EXCEPT ![r] = Idle] /\ RecordTypes /\ DOMAIN req = Request
    BY <1>0 DEF Insert, End, Types, RequestTypes
  <1>2. \A s \in Publishing' : s \in Publishing /\ req'[s] = req[s] /\ s # r
    BY <1>0, <1>1 DEF Publishing, Idle
  <1>3. CASE UNCHANGED records
    BY <1>1, <1>2, <1>3, NumberingRests DEF RecordTypes
  <1>4. CASE ~UNCHANGED records
    <2>1. records' = records \cup {new} /\ \A x \in Versions(g) : x.version # q.version
      BY <1>0, <1>4 DEF Insert
    <2>2. q \in PublishingRequest /\ g \in Group /\ q.version \in Nat \ {0}
      BY <1>0, <1>1 DEF Types, RequestTypes, Idle, PublishingRequest, IndexingRequest
    <2>3. n \in Nat /\ new \in RecordRow
      BY <1>1, <2>2, VersionsAreFinite DEF RecordRow
    <2>4. new.id = n + 1 /\ new.group = g /\ new.version = q.version
      OBVIOUS
    <2>5. new \notin records /\ \A x \in records : x.id < new.id
      BY <1>1, <2>3, <2>4 DEF RecordTypes, RecordRow
    <2>6. RecordTypes'
      <3>1. IsFiniteSet(records') /\ Cardinality(records') = n + 1
        BY <1>1, <2>1, <2>5, FS_AddElement DEF RecordTypes
      <3>2. n + 1 \in Nat /\ new.id <= n + 1
        BY <2>3, <2>4
      <3> HIDE DEF new, n
      <3>3. records' \subseteq RecordRow
        BY <1>1, <2>1, <2>3 DEF RecordTypes
      <3>4. \A x \in records' : x.id <= n + 1
        BY <2>1, <2>3, <2>4, <2>5, <3>2, <3>3 DEF RecordRow
      <3> QED
        BY <3>1, <3>3, <3>4 DEF RecordTypes
    <2>7. /\ \A h \in Group : h # g => Versions(h)' = Versions(h)
          /\ Versions(g)' = Versions(g) \cup {new} /\ new \notin Versions(g)
      BY <2>1, <2>4, <2>5 DEF Versions
    <2>8. q.version = Cardinality(Versions(g)) + 1
      <3>1. {x.version : x \in Versions(g)} = 1..Cardinality(Versions(g))
        BY <2>2 DEF Numbering, VersionsContiguous
      <3>2. Cardinality(Versions(g)) \in Nat
        BY <1>1, VersionsAreFinite
      <3>3. q.version \notin 1..Cardinality(Versions(g))
        BY <2>1, <3>1
      <3>4. Succeeds(q)
        BY <1>0, <1>1 DEF Numbering, Publishing
      <3>5. q.version = 1 \/ \E i \in 1..Cardinality(Versions(g)) : q.version = i + 1
        <4>1. \A y \in Versions(g) : y.version \in 1..Cardinality(Versions(g))
          BY <3>1
        <4> QED
          BY <1>0, <3>4, <4>1 DEF Succeeds
      <3>6. q.version \in Nat
        BY <2>2
      <3> QED
        BY <3>2, <3>3, <3>5, <3>6
    <2>9. Cardinality(Versions(g)') = q.version
      <3>1. IsFiniteSet(Versions(g))
        BY <1>1, VersionsAreFinite
      <3> HIDE DEF new
      <3>2. Cardinality(Versions(g) \cup {new}) = Cardinality(Versions(g)) + 1
        BY <2>7, <3>1, FS_AddElement
      <3> QED
        BY <2>7, <2>8, <3>2
    <2> HIDE DEF new
    <2>10. VersionsContiguous'
      <3> SUFFICES ASSUME NEW h \in Group
                   PROVE  /\ {x.version : x \in Versions(h)'} = 1..Cardinality(Versions(h)')
                          /\ \A x, y \in Versions(h)' : x.id < y.id => x.version < y.version
        BY DEF VersionsContiguous
      <3>1. CASE h # g
        BY <2>7, <3>1 DEF Numbering, VersionsContiguous
      <3>2. CASE h = g
        <4>1. {x.version : x \in Versions(g)} = 1..Cardinality(Versions(g))
              /\ \A x, y \in Versions(g) : x.id < y.id => x.version < y.version
          BY <2>2 DEF Numbering, VersionsContiguous
        <4>2. Cardinality(Versions(g)) \in Nat
          BY <1>1, VersionsAreFinite
        <4>3. {x.version : x \in Versions(g)'} = (1..Cardinality(Versions(g))) \cup {q.version}
          BY <2>4, <2>7, <4>1
        <4>4. (1..Cardinality(Versions(g))) \cup {q.version} = 1..q.version
          BY <2>8, <4>2
        <4>5. \A x \in Versions(g) : x.version < q.version /\ x.id < new.id /\ x.id \in Nat
          <5>1. \A x \in Versions(g) : x \in records /\ x \in RecordRow
            BY <1>1 DEF Versions, RecordTypes
          <5>2. \A x \in Versions(g) : x.version \in 1..Cardinality(Versions(g))
            BY <4>1
          <5>3. \A x \in Versions(g) : x.id \in Nat
            BY <5>1 DEF RecordRow
          <5>4. \A x \in Versions(g) : x.version < q.version
            BY <2>8, <4>2, <5>2
          <5> QED
            BY <2>5, <5>1, <5>3, <5>4
        <4>6. \A x, y \in Versions(g)' : x.id < y.id => x.version < y.version
          BY <2>3, <2>4, <2>7, <4>1, <4>5
        <4> QED
          BY <2>9, <3>2, <4>3, <4>4, <4>6
      <3> QED
        BY <3>1, <3>2
    <2>11. Distinct'
      <3>1. \A x \in records : x.group = g => x.version # q.version
        BY <2>1 DEF Versions
      <3> QED
        BY <2>1, <2>4, <3>1 DEF Numbering, Distinct
    <2>12. ASSUME NEW s \in Publishing' PROVE (Succeeds(req[s]) /\ Follows(req[s]))'
      <3>1. s \in Publishing /\ req'[s] = req[s] /\ Succeeds(req[s]) /\ Follows(req[s])
        BY <1>2, <2>12 DEF Numbering
      <3>2. req[s] \in PublishingRequest
        BY <3>1 DEF Types, RequestTypes, Publishing, Idle, IndexingRequest
      <3> DEFINE p == req[s]
      <3>3. Versions(p.group) \subseteq {x \in records' : x.group = p.group}
        BY <2>1 DEF Versions
      <3>5. \A y \in {x \in records' : x.group = p.group} : p.version = y.version + 1 => p.previous = y.id
        <4> SUFFICES ASSUME NEW y \in records', y.group = p.group, p.version = y.version + 1
                     PROVE  p.previous = y.id
          OBVIOUS
        <4>1. CASE y \in records
          BY <3>1, <4>1 DEF Follows, Versions
        <4>2. CASE y = new
          <5>1. p.group = g /\ p.version = q.version + 1 /\ p.version # 1
            BY <2>2, <2>4, <4>2
          <5>2. PICK z \in Versions(g) : p.version = z.version + 1
            BY <3>1, <5>1 DEF Succeeds
          <5>3. z.version \in Nat
            BY <1>1, <5>2 DEF Versions, RecordTypes, RecordRow
          <5> QED
            BY <2>1, <2>2, <5>1, <5>2, <5>3
        <4> QED
          BY <2>1, <4>1, <4>2
      <3>6. Succeeds(req[s])'
        BY <3>1, <3>3 DEF Succeeds, Versions
      <3>7. Follows(req[s])'
        BY <3>1, <3>5 DEF Follows, Versions
      <3> QED
        BY <3>6, <3>7
    <2> QED
      BY <2>6, <2>10, <2>11, <2>12 DEF Numbering
  <1> QED
    BY <1>3, <1>4

------------------------------------------------------------------------------
(* What the invariants rest on.                                              *)

\* Only request r moves, to q.
Moves(r, q) ==
    DOMAIN req' = Request /\ req'[r] = q /\ \A s \in Request \ {r} : req'[s] = req[s]

LEMMA RequestMoves ==
    ASSUME RequestTypes, NEW r \in Request, NEW q, req' = [req EXCEPT ![r] = q]
    PROVE  Moves(r, q)
  BY DEF RequestTypes, Moves

LEMMA Requests ==
    ASSUME Types, NEW r \in Request
    PROVE  /\ req[r].op \in {"volume", "conflict", "insert"} <=> req[r] \in PublishingRequest
           /\ req[r].op \in {"rebuild", "acknowledge"} <=> IndexingRequest(req[r])
           /\ r \in Publishing <=> req[r] \in PublishingRequest
           /\ r \in Indexing <=> IndexingRequest(req[r])
  BY DEF Types, RequestTypes, Idle, PublishingRequest, IndexingRequest, Publishing, Indexing

LEMMA TypesRest ==
    ASSUME Types, NEW r \in Request, NEW q, Moves(r, q),
           q = Idle \/ q \in PublishingRequest \/ IndexingRequest(q)
    PROVE  RequestTypes'
  BY DEF Types, RequestTypes, Moves, IndexingRequest, IndexRow

LEMMA ConflictRests ==
    ASSUME ConflictSeen, UNCHANGED conflicts,
           \A r \in Request : req'[r].op = "insert" =>
              req[r].op = "insert" /\ req'[r].previous = req[r].previous /\ raced[r] \subseteq raced'[r]
    PROVE  ConflictSeen'
  BY DEF ConflictSeen

LEMMA VolumeRests ==
    ASSUME VolumeSeen, UNCHANGED positions, accepted \subseteq accepted', churned => churned',
           \A r \in Request : req'[r].op \in {"conflict", "insert"} /\ req'[r].batch =>
              req[r].op \in {"conflict", "insert"} /\ req[r].batch /\ raced[r] \subseteq raced'[r]
    PROVE  VolumeSeen'
  BY DEF VolumeSeen, Gaps, GapsOf, Occupied

LEMMA IndexRests ==
    ASSUME IndexInv, UNCHANGED <<positions, index, accepted, churned>>,
           \A r \in Request : req'[r].op \in {"rebuild", "acknowledge"} => req'[r] = req[r]
    PROVE  IndexInv'
  <1> SUFFICES ASSUME ~churned PROVE (OneRow /\ RowIsTrue /\ Alone /\ Informed)'
    BY DEF IndexInv
  <1>1. OneRow /\ RowIsTrue /\ Alone /\ Informed
    BY DEF IndexInv
  <1>2. OneRow' /\ RowIsTrue'
    BY <1>1 DEF OneRow, RowIsTrue, Gaps, GapsOf, Occupied
  <1>3. Alone'
    BY <1>1 DEF Alone, Indexing
  <1>4. Informed'
    BY <1>1 DEF Informed, GapsOf, Observed, Occupied
  <1> QED
    BY <1>2, <1>3, <1>4

\* What is said of races rests on who was disturbed.
LEMMA Disturbs ==
    ASSUME RaceTypes, NEW R, NEW what \in {"volume", "conflict"}, raced' = Disturbed(R, what)
    PROVE  /\ raced' \in [Request -> SUBSET {"volume", "conflict"}]
           /\ \A r \in Request : raced[r] \subseteq raced'[r] /\ (r \in R => what \in raced'[r])
  BY DEF RaceTypes, Disturbed

\* A request ends: of the others everything stays.
LEMMA Ends ==
    ASSUME Types, NEW r \in Request, End(r)
    PROVE  /\ Moves(r, Idle) /\ RequestTypes' /\ raced' \in [Request -> SUBSET {"volume", "conflict"}]
           /\ \A s \in Request : req'[s].op # "idle" =>
                 s # r /\ req'[s] = req[s] /\ raced'[s] = raced[s]
  <1>1. RequestTypes /\ RaceTypes
    BY DEF Types
  <1>2. Moves(r, Idle)
    BY <1>1, RequestMoves DEF End
  <1>3. RequestTypes'
    BY <1>2, TypesRest
  <1>4. /\ raced' \in [Request -> SUBSET {"volume", "conflict"}]
        /\ \A s \in Request : s # r => raced'[s] = raced[s]
    BY <1>1 DEF RaceTypes, End
  <1> QED
    BY <1>2, <1>3, <1>4 DEF Moves, Idle

\* A request ends, and nothing else happens that the invariants speak of.
LEMMA EndRests ==
    ASSUME IInv, NEW r \in Request, End(r), UNCHANGED <<records, conflicts, volume, churned>>
    PROVE  IInv'
  <1>1. Types /\ UNCHANGED <<positions, placements, index, accepted>>
    BY DEF IInv, volume
  <1>2. /\ RequestTypes' /\ raced' \in [Request -> SUBSET {"volume", "conflict"}]
        /\ \A s \in Request : req'[s].op # "idle" =>
              s # r /\ req'[s] = req[s] /\ raced'[s] = raced[s]
    BY <1>1, Ends
  <1>3. Types'
    BY <1>1, <1>2 DEF Types, RaceTypes, RecordTypes, VolumeTypes, ConflictRow, IndexRow
  <1>4. Numbering'
    BY <1>2, NumberingRests DEF IInv, Publishing
  <1>5. ConflictSeen' /\ VolumeSeen' /\ IndexInv'
    BY <1>1, <1>2, ConflictRests, VolumeRests, IndexRests DEF IInv
  <1> QED
    BY <1>3, <1>4, <1>5 DEF IInv

------------------------------------------------------------------------------
(* The gate.                                                                 *)

LEMMA PublishStep ==
    ASSUME IInv, NEW r \in Request, NEW g \in Group, NEW batch \in BOOLEAN, Publish(r, g, batch)
    PROVE  IInv'
  <1>1. /\ Types /\ RequestTypes
        /\ UNCHANGED <<records, conflicts, positions, placements, index, accepted, raced, churned>>
    BY DEF IInv, Types, Publish, Start, volume
  <1>2. Numbering' /\ req'[r] \in PublishingRequest
    BY PublishNumbers DEF IInv
  <1>3. PICK q : req' = [req EXCEPT ![r] = q] /\ q.op \in {"volume", "conflict"}
                 /\ (q.op = "conflict" => q.batch = FALSE)
    <2> DEFINE new == [op |-> IF batch THEN "volume" ELSE "conflict", group |-> g, batch |-> batch,
                       previous |-> Latest(g).id, version |-> Latest(g).version + 1]
    <2>1. req' = [req EXCEPT ![r] = new]
      BY DEF Publish, Start
    <2>2. new.op \in {"volume", "conflict"} /\ (new.op = "conflict" => new.batch = FALSE)
      OBVIOUS
    <2> HIDE DEF new
    <2> QED
      BY <2>1, <2>2
  <1>4. Moves(r, q)
    BY <1>1, <1>3, RequestMoves
  <1>5. q \in PublishingRequest
    BY <1>2, <1>4 DEF Moves
  <1>6. Types'
    BY <1>1, <1>4, <1>5, TypesRest DEF Types, RaceTypes, RecordTypes, VolumeTypes, ConflictRow, IndexRow
  <1>7. ConflictSeen' /\ VolumeSeen' /\ IndexInv'
    BY <1>1, <1>3, <1>4, ConflictRests, VolumeRests, IndexRests DEF IInv, Moves
  <1> QED
    BY <1>2, <1>6, <1>7 DEF IInv

\* A publishing request goes on to its next check.
Advances(r, op) ==
    /\ req[r].op \in {"volume", "conflict"} /\ op \in {"conflict", "insert"} /\ Goes(r, op)
    /\ UNCHANGED <<records, conflicts, volume, churned>>

LEMMA AdvanceStep ==
    ASSUME IInv, NEW r \in Request, NEW op, Advances(r, op),
           op = "insert" => req[r].op = "conflict" /\ ~Blocked(req[r].previous),
           op = "conflict" /\ req[r].batch => Gaps = {} \/ accepted # {} \/ churned
    PROVE  IInv'
  <1>1. /\ Types /\ RequestTypes
        /\ UNCHANGED <<records, conflicts, positions, placements, index, accepted, raced, churned>>
    BY DEF IInv, Types, Advances, Goes, volume
  <1>2. req[r] \in PublishingRequest
    BY <1>1, Requests DEF Advances
  <1>3. PICK q : q = [req[r] EXCEPT !.op = op]
    OBVIOUS
  <1>4. /\ q \in PublishingRequest /\ q.op = op /\ q.group = req[r].group /\ q.batch = req[r].batch
        /\ q.previous = req[r].previous /\ q.version = req[r].version
    BY <1>2, <1>3 DEF PublishingRequest, Advances
  <1>5. Moves(r, q)
    <2>1. req' = [req EXCEPT ![r] = q]
      BY <1>3 DEF Advances, Goes
    <2> QED
      BY <1>1, <2>1, RequestMoves
  <1>6. Types'
    BY <1>1, <1>4, <1>5, TypesRest DEF Types, RaceTypes, RecordTypes, VolumeTypes, ConflictRow, IndexRow
  <1>7. Numbering'
    <2>1. \A s \in Publishing' : /\ s \in Publishing /\ req'[s].group = req[s].group
                                 /\ req'[s].version = req[s].version /\ req'[s].previous = req[s].previous
      BY <1>4, <1>5 DEF Publishing, Moves, Advances
    <2> QED
      BY <1>1, <2>1, NumberingRests DEF IInv
  <1>8. ConflictSeen'
    <2>1. CASE op = "conflict"
      BY <1>1, <1>4, <1>5, <2>1, ConflictRests DEF IInv, Moves
    <2>2. CASE op = "insert"
      <3>1. \A c \in conflicts : req[r].previous \in c.on => c.state = "resolved"
        BY <1>1, <2>2 DEF Blocked, BlockingStates, Types, ConflictRow, State
      <3> QED
        BY <1>1, <1>4, <1>5, <3>1 DEF ConflictSeen, Moves, IInv
    <2> QED
      BY <2>1, <2>2 DEF Advances
  <1>9. VolumeSeen'
    <2>1. op = "insert" => req[r].op = "conflict"
      OBVIOUS
    <2> QED
      BY <1>1, <1>4, <1>5, <2>1 DEF VolumeSeen, Moves, IInv, Advances, Gaps, GapsOf, Occupied
  <1>10. IndexInv'
    BY <1>1, <1>4, <1>5, IndexRests DEF IInv, Moves, Advances
  <1> QED
    BY <1>6, <1>7, <1>8, <1>9, <1>10 DEF IInv

\* What the volume check lets through.
LEMMA CheckVolumeStep ==
    ASSUME IInv, NEW r \in Request, CheckVolume(r)
    PROVE  IInv'
  <1>1. CASE End(r)
    BY <1>1, EndRests DEF CheckVolume
  <1>2. CASE Goes(r, "conflict") /\ (index = {} \/ \E row \in index : ~Alert(row))
    <2>1. Advances(r, "conflict")
      BY <1>2 DEF Advances, CheckVolume
    <2>2. ASSUME ~churned PROVE Gaps = {} \/ accepted # {}
      <3>1. OneRow /\ RowIsTrue
        BY <2>2 DEF IInv, IndexInv
      <3>2. CASE index = {}
        BY <3>1, <3>2 DEF OneRow, Gaps, GapsOf
      <3>3. CASE index # {}
        <4>1. PICK row \in index : row.gaps = {} \/ row.state = "acknowledged"
          BY <1>2, <3>3 DEF Alert
        <4> QED
          BY <3>1, <4>1 DEF RowIsTrue
      <3> QED
        BY <3>2, <3>3
    <2> QED
      BY <2>1, <2>2, AdvanceStep
  <1> QED
    BY <1>1, <1>2 DEF CheckVolume

LEMMA CheckConflictStep ==
    ASSUME IInv, NEW r \in Request, CheckConflict(r)
    PROVE  IInv'
  <1>1. CASE End(r)
    BY <1>1, EndRests DEF CheckConflict
  <1>2. CASE Goes(r, "insert") /\ ~Blocked(req[r].previous)
    BY <1>2, AdvanceStep DEF CheckConflict, Advances
  <1> QED
    BY <1>1, <1>2 DEF CheckConflict

LEMMA InsertStep ==
    ASSUME IInv, NEW r \in Request, Insert(r)
    PROVE  IInv'
  <1>1. /\ Types /\ UNCHANGED <<conflicts, positions, placements, index, accepted, churned>>
        /\ records \subseteq records'
    BY DEF IInv, Insert, volume
  <1>2. /\ RequestTypes' /\ raced' \in [Request -> SUBSET {"volume", "conflict"}]
        /\ \A s \in Request : req'[s].op # "idle" =>
              s # r /\ req'[s] = req[s] /\ raced'[s] = raced[s]
    BY <1>1, Ends DEF Insert
  <1>3. Numbering' /\ RecordTypes'
    BY InsertNumbers DEF IInv
  <1>4. Types'
    BY <1>1, <1>2, <1>3 DEF Types, RaceTypes, VolumeTypes, ConflictRow, IndexRow
  <1>5. ConflictSeen' /\ VolumeSeen' /\ IndexInv'
    BY <1>1, <1>2, ConflictRests, VolumeRests, IndexRests DEF IInv
  <1> QED
    BY <1>3, <1>4, <1>5 DEF IInv

------------------------------------------------------------------------------
(* The register.                                                             *)

\* A conflict comes or moves: who publishes over its record is disturbed.
LEMMA RegisterStep ==
    ASSUME IInv, UNCHANGED <<records, volume, req, churned>>, NEW c, ConflictRow(c), NEW kept,
           conflicts' = kept \cup {c}, kept \subseteq conflicts,
           raced' = Disturbed(ReliedOn(c.on), "conflict")
    PROVE  IInv'
  <1>1. RaceTypes /\ UNCHANGED <<positions, placements, index, accepted>>
    BY DEF IInv, Types, volume
  <1>2. /\ raced' \in [Request -> SUBSET {"volume", "conflict"}]
        /\ \A r \in Request :
              raced[r] \subseteq raced'[r] /\ (r \in ReliedOn(c.on) => "conflict" \in raced'[r])
    BY <1>1, Disturbs
  <1>3. Types'
    BY <1>1, <1>2 DEF IInv, Types, RaceTypes, RecordTypes, RequestTypes, VolumeTypes, ConflictRow, IndexRow,
                      IndexingRequest
  <1>4. Numbering'
    BY NumberingRests DEF IInv, Publishing
  <1>5. ConflictSeen'
    <2> SUFFICES ASSUME NEW r \in Request, req[r].op = "insert", NEW d \in conflicts',
                        req[r].previous \in d.on, d.state # "resolved"
                 PROVE  "conflict" \in raced'[r]
      BY DEF ConflictSeen
    <2>1. CASE d = c
      BY <1>2, <2>1 DEF ReliedOn, Publishing
    <2>2. CASE d # c
      BY <1>2, <2>2 DEF IInv, ConflictSeen
    <2> QED
      BY <2>1, <2>2
  <1>6. VolumeSeen' /\ IndexInv'
    BY <1>1, <1>2, VolumeRests, IndexRests DEF IInv
  <1> QED
    BY <1>3, <1>4, <1>5, <1>6 DEF IInv

LEMMA RegisterSteps ==
    ASSUME IInv, Register
    PROVE  IInv'
  <1>1. ASSUME NEW ids, ids \subseteq {x.id : x \in records}, Opened(ids) PROVE IInv'
    <2>1. PICK c : c = [id |-> Cardinality(conflicts) + 1, on |-> ids, state |-> "open"]
      OBVIOUS
    <2>2. ConflictRow(c) /\ c.on = ids
      BY <1>1, <2>1 DEF ConflictRow, State
    <2> QED
      BY <1>1, <2>1, <2>2, RegisterStep DEF Opened
  <1>2. ASSUME NEW d \in conflicts, NEW s \in State, Transition(d, s) PROVE IInv'
    <2>1. PICK c : c = [d EXCEPT !.state = s]
      OBVIOUS
    <2>2. ConflictRow(d)
      BY DEF IInv, Types
    <2>3. ConflictRow(c) /\ c.on = d.on
      <3>1. c = [id |-> d.id, on |-> d.on, state |-> s]
        BY <2>1, <2>2 DEF ConflictRow
      <3> QED
        BY <2>2, <3>1 DEF ConflictRow
    <2>4. conflicts \ {d} \subseteq conflicts
      OBVIOUS
    <2> QED
      BY <1>2, <2>1, <2>3, <2>4, RegisterStep DEF Transition
  <1> QED
    BY <1>1, <1>2 DEF Register, OpenConflict, OpenValidatorConflict

------------------------------------------------------------------------------
(* The volume index.                                                         *)

\* A transaction begins on the index, with a row it has read.
LEMMA BeginIndexing ==
    ASSUME IInv, NEW r \in Request, req[r] = Idle, NEW q, IndexingRequest(q), req' = [req EXCEPT ![r] = q],
           churned' = (churned \/ Indexing # {}), placements' \in 0..MaxPlacements,
           UNCHANGED <<records, conflicts, positions, index, accepted, raced>>,
           q.op = "rebuild" => /\ q.gaps = GapsOf(Observed(q.page, q.position))
                               /\ q.row \in index \/ (q.row = NoRow /\ index = {}),
           q.op = "acknowledge" => q.row \in index /\ q.row.state = "gap_detected"
    PROVE  IInv'
  <1>1. Types /\ RequestTypes
    BY DEF IInv, Types
  <1>2. Moves(r, q) /\ q.op \in {"rebuild", "acknowledge"}
    BY <1>1, RequestMoves DEF IndexingRequest
  <1>3. Types'
    BY <1>1, <1>2, TypesRest DEF Types, RaceTypes, RecordTypes, VolumeTypes, ConflictRow, IndexRow
  <1>4. Numbering' /\ ConflictSeen' /\ VolumeSeen'
    BY <1>1, <1>2, NumberingRests, ConflictRests, VolumeRests DEF IInv, Moves, Publishing
  <1>5. IndexInv'
    <2> SUFFICES ASSUME ~churned' PROVE (OneRow /\ RowIsTrue /\ Alone /\ Informed)'
      BY DEF IndexInv
    <2>1. ~churned /\ Indexing = {}
      OBVIOUS
    <2>2. OneRow /\ RowIsTrue /\ Informed
      BY <2>1 DEF IInv, IndexInv
    <2>3. OneRow' /\ RowIsTrue'
      BY <1>1, <2>2 DEF OneRow, RowIsTrue, Gaps, GapsOf, Occupied
    <2>4. \A s \in Indexing' : s = r
      BY <1>2, <2>1 DEF Indexing, Moves
    <2>5. Alone'
      BY <2>4 DEF Alone
    <2>6. Informed'
      <3> SUFFICES ASSUME NEW s \in Request
                   PROVE  /\ req'[s].op = "rebuild" =>
                                /\ req'[s].gaps = GapsOf(Observed(req'[s].page, req'[s].position))
                                /\ req'[s].row \in index \/ (req'[s].row = NoRow /\ index = {})
                          /\ req'[s].op = "acknowledge" => req'[s].row \in index /\ req'[s].row.state = "gap_detected"
        BY <1>1 DEF Informed, GapsOf, Observed, Occupied
      <3>1. CASE s = r
        BY <1>2, <3>1 DEF Moves
      <3>2. CASE s # r
        BY <1>2, <2>2, <3>2 DEF Moves, Informed
      <3> QED
        BY <3>1, <3>2
    <2> QED
      BY <2>3, <2>5, <2>6
  <1> QED
    BY <1>3, <1>4, <1>5 DEF IInv

LEMMA PlaceStep ==
    ASSUME IInv, NEW r \in Request, NEW l \in Leaf, NEW p \in Position, Place(r, l, p)
    PROVE  IInv'
  <1>1. PICK row \in IF index = {} THEN {NoRow} ELSE index :
           Start(r, [op |-> "rebuild", page |-> l, position |-> p, row |-> row,
                     gaps |-> GapsOf(Observed(l, p))])
    BY DEF Place
  <1>2. PICK q : q = [op |-> "rebuild", page |-> l, position |-> p, row |-> row,
                      gaps |-> GapsOf(Observed(l, p))]
    OBVIOUS
  <1>3. q.op = "rebuild" /\ q.page = l /\ q.position = p /\ q.row = row /\ q.gaps = GapsOf(Observed(l, p))
    BY <1>2
  <1>4. IndexRow(row)
    BY <1>1 DEF IInv, Types, VolumeTypes, NoRow, IndexRow
  <1>5. q.gaps \subseteq Position
    BY <1>3 DEF GapsOf
  <1>6. IndexingRequest(q)
    BY <1>3, <1>4, <1>5 DEF IndexingRequest
  <1>7. row \in index \/ (row = NoRow /\ index = {})
    BY <1>1
  <1>8. req[r] = Idle /\ req' = [req EXCEPT ![r] = q]
    BY <1>1, <1>2 DEF Start
  <1>9. /\ churned' = (churned \/ Indexing # {}) /\ UNCHANGED <<records, conflicts, positions, index, accepted>>
        /\ placements < MaxPlacements /\ placements' = placements + 1
    BY DEF Place
  <1>10. placements' \in 0..MaxPlacements
    BY <1>9, PublicationAssumption DEF IInv, Types, VolumeTypes
  <1>11. UNCHANGED raced
    BY <1>1 DEF Start
  <1> QED
    BY <1>3, <1>6, <1>7, <1>8, <1>9, <1>10, <1>11, BeginIndexing

LEMMA AcknowledgeStep ==
    ASSUME IInv, NEW r \in Request, Acknowledge(r)
    PROVE  IInv'
  <1>1. PICK row \in index : row.state = "gap_detected" /\ Start(r, [op |-> "acknowledge", row |-> row])
    BY DEF Acknowledge
  <1>2. PICK q : q = [op |-> "acknowledge", row |-> row]
    OBVIOUS
  <1>3. q.op = "acknowledge" /\ q.row = row
    BY <1>2
  <1>4. IndexingRequest(q)
    BY <1>3 DEF IInv, Types, VolumeTypes, IndexingRequest
  <1>5. req[r] = Idle /\ req' = [req EXCEPT ![r] = q]
    BY <1>1, <1>2 DEF Start
  <1>6. /\ churned' = (churned \/ Indexing # {}) /\ placements' \in 0..MaxPlacements
        /\ UNCHANGED <<records, conflicts, positions, index, accepted, raced>>
    BY <1>1 DEF Acknowledge, Start, volume, IInv, Types, VolumeTypes
  <1> QED
    BY <1>1, <1>3, <1>4, <1>5, <1>6, BeginIndexing

\* A transaction commits its work on the index; nobody else was at it, or the
\* index has been churned.
LEMMA EndIndexing ==
    ASSUME IInv, NEW r \in Request, req[r].op \in {"rebuild", "acknowledge"}, VolumeTypes',
           req' = [req EXCEPT ![r] = Idle], raced' \in [Request -> SUBSET {"volume", "conflict"}],
           \A s \in Request \ {r} : raced[s] \subseteq raced'[s],
           UNCHANGED <<records, conflicts, churned>>,
           \/ UNCHANGED positions /\ accepted \subseteq accepted'
           \/ \A s \in Publishing : "volume" \in raced'[s],
           ~churned => (OneRow /\ RowIsTrue)'
    PROVE  IInv'
  <1>1. Types /\ RequestTypes
    BY DEF IInv, Types
  <1>2. Moves(r, Idle)
    BY <1>1, RequestMoves
  <1>3. Types'
    BY <1>1, <1>2, TypesRest DEF Types, RaceTypes, RecordTypes, ConflictRow
  <1>4. \A s \in Request : req'[s].op # "idle" => req'[s] = req[s] /\ s # r /\ raced[s] \subseteq raced'[s]
    BY <1>2 DEF Moves, Idle
  <1>5. Numbering' /\ ConflictSeen'
    BY <1>4, NumberingRests, ConflictRests DEF IInv, Publishing
  <1>6. VolumeSeen'
    <2>1. CASE UNCHANGED positions /\ accepted \subseteq accepted'
      BY <1>4, <2>1, VolumeRests DEF IInv
    <2>2. CASE \A s \in Publishing : "volume" \in raced'[s]
      BY <1>4, <2>2 DEF VolumeSeen, Publishing
    <2> QED
      BY <2>1, <2>2
  <1>7. IndexInv'
    <2> SUFFICES ASSUME ~churned' PROVE (OneRow /\ RowIsTrue /\ Alone /\ Informed)'
      BY DEF IndexInv
    <2>1. Alone /\ r \in Indexing
      BY DEF IInv, IndexInv, Indexing
    <2>2. \A s \in Request : req'[s].op \notin {"rebuild", "acknowledge"}
      BY <1>4, <2>1 DEF Alone, Indexing
    <2> QED
      BY <2>2 DEF Alone, Informed, Indexing
  <1> QED
    BY <1>3, <1>5, <1>6, <1>7 DEF IInv

LEMMA CommitRebuildStep ==
    ASSUME IInv, NEW r \in Request, CommitRebuild(r)
    PROVE  IInv'
  <1>1. PICK read, gaps, state : read = req[r].row /\ gaps = req[r].gaps /\ state = StateFor(gaps, read.state)
    OBVIOUS
  <1>2. PICK new : new = [read EXCEPT !.gaps = gaps, !.state = state]
    OBVIOUS
  <1>3. IndexingRequest(req[r]) /\ IndexRow(read) /\ gaps \subseteq Position
        /\ req[r].page \in Leaf /\ req[r].position \in Position
    BY <1>1, Requests DEF IInv, CommitRebuild, IndexingRequest
  <1>4. state \in {"complete", "acknowledged", "gap_detected"}
    BY <1>1 DEF StateFor
  <1>5. new = [id |-> read.id, gaps |-> gaps, state |-> state]
    BY <1>2, <1>3 DEF IndexRow
  <1>6. index' = IF read = NoRow
                 THEN index \cup {[new EXCEPT !.id = Cardinality(index) + 1]}
                 ELSE {IF row.id = read.id THEN Written(row, read, new) ELSE row : row \in index}
    BY <1>1, <1>2 DEF CommitRebuild
  <1>7. /\ positions' = [positions EXCEPT ![req[r].page] = req[r].position]
        /\ accepted' = IF Gaps' = {} THEN {} ELSE accepted
        /\ req' = [req EXCEPT ![r] = Idle] /\ raced' = Disturbed(Publishing, "volume")
        /\ UNCHANGED <<records, conflicts, placements, churned>>
    BY DEF CommitRebuild
  <1>8. PICK first : first = [id |-> Cardinality(index) + 1, gaps |-> gaps, state |-> state]
    OBVIOUS
  <1>9. [new EXCEPT !.id = Cardinality(index) + 1] = first
    BY <1>5, <1>8
  <1>10. ASSUME NEW row, IndexRow(row)
         PROVE  /\ IndexRow(Written(row, read, new))
                /\ row = read => Written(row, read, new).gaps = gaps /\ Written(row, read, new).state = state
    <2>1. Written(row, read, new) =
             [id |-> row.id, gaps |-> IF gaps = read.gaps THEN row.gaps ELSE gaps,
              state |-> IF state = read.state THEN row.state ELSE state]
      <3>1. new.gaps = gaps /\ new.state = state
        BY <1>5
      <3>2. PICK i, g, t : row = [id |-> i, gaps |-> g, state |-> t]
        BY <1>10 DEF IndexRow
      <3>3. row.id = i /\ row.gaps = g /\ row.state = t
        BY <3>2
      <3>4. Written(row, read, new) =
               [row EXCEPT !.gaps = IF gaps = read.gaps THEN row.gaps ELSE gaps,
                           !.state = IF state = read.state THEN row.state ELSE state]
        BY <3>1 DEF Written
      <3> QED
        BY <3>2, <3>3, <3>4
    <2> QED
      BY <1>3, <1>4, <1>10, <2>1 DEF IndexRow
  <1>11. VolumeTypes'
    <2>1. VolumeTypes
      BY DEF IInv, Types
    <2>2. IndexRow(first)
      BY <1>3, <1>4, <1>8 DEF IndexRow
    <2>3. \A row \in index' : IndexRow(row)
      <3>1. CASE read = NoRow
        BY <1>6, <1>9, <2>1, <2>2, <3>1 DEF VolumeTypes
      <3>2. CASE read # NoRow
        BY <1>6, <1>10, <2>1, <3>2 DEF VolumeTypes
      <3> QED
        BY <3>1, <3>2
    <2>4. positions' \in [Leaf -> Position \cup {Unplaced}] /\ accepted' \subseteq Position
      BY <1>3, <1>7, <2>1 DEF VolumeTypes
    <2> QED
      BY <1>7, <2>1, <2>3, <2>4 DEF VolumeTypes, IndexRow
  <1>12. ASSUME ~churned' PROVE (OneRow /\ RowIsTrue)'
    <2>1. OneRow /\ RowIsTrue /\ Informed /\ req[r].op = "rebuild"
      BY <1>7, <1>12 DEF IInv, IndexInv, CommitRebuild
    <2>2. gaps = Gaps' /\ (read \in index \/ (read = NoRow /\ index = {}))
      BY <1>1, <1>7, <2>1 DEF Informed, Gaps, GapsOf, Observed, Occupied
    <2>3. PICK row : index' = {row} /\ row.gaps = gaps /\ row.state = state
      <3>1. CASE index = {}
        BY <1>6, <1>8, <1>9, <2>2, <3>1
      <3>2. CASE index # {}
        <4>1. index = {read} /\ read # NoRow
          BY <2>1, <2>2, <3>2 DEF OneRow
        <4>2. index' = {Written(read, read, new)}
          BY <1>6, <4>1
        <4> QED
          BY <1>3, <1>10, <4>2
      <3> QED
        BY <3>1, <3>2
    <2>4. state = "acknowledged" => accepted' # {}
      <3>1. state = "acknowledged" => read.state = "acknowledged" /\ gaps # {}
        BY <1>1 DEF StateFor
      <3> QED
        BY <1>7, <2>1, <2>2, <3>1 DEF RowIsTrue, NoRow
    <2>5. state = "gap_detected" => gaps # {}
      BY <1>1 DEF StateFor
    <2>6. row # NoRow
      BY <1>4, <2>3 DEF NoRow
    <2>7. OneRow'
      BY <2>3, <2>6 DEF OneRow
    <2>8. RowIsTrue'
      BY <2>2, <2>3, <2>4, <2>5 DEF RowIsTrue
    <2> QED
      BY <2>7, <2>8
  <1>13. /\ raced' \in [Request -> SUBSET {"volume", "conflict"}]
         /\ \A s \in Request : raced[s] \subseteq raced'[s]
         /\ \A s \in Publishing : "volume" \in raced'[s]
    BY <1>7, Disturbs DEF IInv, Types, Publishing
  <1>14. req[r].op \in {"rebuild", "acknowledge"}
    BY DEF CommitRebuild
  <1> QED
    BY <1>7, <1>11, <1>12, <1>13, <1>14, EndIndexing

LEMMA CommitAcknowledgeStep ==
    ASSUME IInv, NEW r \in Request, CommitAcknowledge(r)
    PROVE  IInv'
  <1>1. PICK read : read = req[r].row
    OBVIOUS
  <1>2. /\ index' = {IF row.id = read.id THEN [row EXCEPT !.state = "acknowledged"] ELSE row : row \in index}
        /\ accepted' = accepted \cup read.gaps /\ End(r) /\ req[r].op = "acknowledge"
        /\ UNCHANGED <<records, conflicts, positions, placements, churned>>
    BY <1>1 DEF CommitAcknowledge
  <1>3. IndexRow(read)
    BY <1>1, <1>2, Requests DEF IInv, IndexingRequest
  <1>4. ASSUME NEW row, IndexRow(row)
        PROVE  /\ IndexRow([row EXCEPT !.state = "acknowledged"])
               /\ [row EXCEPT !.state = "acknowledged"].gaps = row.gaps
               /\ [row EXCEPT !.state = "acknowledged"].state = "acknowledged"
    <2>1. [row EXCEPT !.state = "acknowledged"] = [id |-> row.id, gaps |-> row.gaps, state |-> "acknowledged"]
      BY <1>4 DEF IndexRow
    <2> QED
      BY <1>4, <2>1 DEF IndexRow
  <1>5. VolumeTypes'
    <2>1. VolumeTypes
      BY DEF IInv, Types
    <2>2. \A row \in index' : IndexRow(row)
      BY <1>2, <1>4, <2>1 DEF VolumeTypes
    <2> QED
      BY <1>2, <1>3, <2>1, <2>2 DEF VolumeTypes, IndexRow
  <1>6. ASSUME ~churned' PROVE (OneRow /\ RowIsTrue)'
    <2>1. OneRow /\ RowIsTrue /\ Informed
      BY <1>2, <1>6 DEF IInv, IndexInv
    <2>2. index = {read} /\ read.state = "gap_detected"
      BY <1>1, <1>2, <2>1 DEF Informed, OneRow
    <2>3. read.gaps # {} /\ read.gaps = Gaps
      BY <2>1, <2>2 DEF RowIsTrue
    <2>4. PICK row : index' = {row} /\ row.gaps = read.gaps /\ row.state = "acknowledged"
      <3>1. index' = {[read EXCEPT !.state = "acknowledged"]}
        BY <1>2, <2>2
      <3> QED
        BY <1>3, <1>4, <3>1
    <2>5. OneRow'
      BY <2>4 DEF OneRow, NoRow
    <2>6. RowIsTrue'
      BY <1>2, <2>3, <2>4 DEF RowIsTrue, Gaps, GapsOf, Occupied
    <2> QED
      BY <2>5, <2>6
  <1>7. /\ req' = [req EXCEPT ![r] = Idle] /\ raced' \in [Request -> SUBSET {"volume", "conflict"}]
        /\ \A s \in Request \ {r} : raced[s] \subseteq raced'[s]
    BY <1>2 DEF IInv, Types, RaceTypes, End
  <1>8. accepted \subseteq accepted' /\ req[r].op \in {"rebuild", "acknowledge"}
    BY <1>2
  <1> QED
    BY <1>2, <1>5, <1>6, <1>7, <1>8, EndIndexing

------------------------------------------------------------------------------
(* The theorems.                                                             *)

LEMMA InitInv == Init => IInv
  <1> SUFFICES ASSUME Init PROVE IInv
    OBVIOUS
  <1>1. Types
    <2>1. RecordTypes /\ \A c \in conflicts : ConflictRow(c)
      BY FS_EmptySet DEF Init, RecordTypes
    <2>2. RequestTypes /\ RaceTypes
      BY DEF Init, RequestTypes, RaceTypes
    <2>3. VolumeTypes
      BY PublicationAssumption DEF Init, VolumeTypes
    <2> QED
      BY <2>1, <2>2, <2>3 DEF Types
  <1>2. \A g : Versions(g) = {} /\ Cardinality(Versions(g)) = 0
    BY FS_EmptySet DEF Init, Versions
  <1>3. VersionsContiguous
    <2>1. \A g : {x.version : x \in Versions(g)} = 1..Cardinality(Versions(g))
      BY <1>2
    <2> QED
      BY <1>2, <2>1 DEF VersionsContiguous
  <1>4. Numbering
    BY <1>3 DEF Init, Numbering, Distinct, Publishing, Idle
  <1>5. ConflictSeen /\ VolumeSeen
    BY DEF Init, ConflictSeen, VolumeSeen, Idle
  <1>6. IndexInv
    BY DEF Init, IndexInv, OneRow, Occupied, RowIsTrue, Alone, Informed, Indexing, Idle
  <1> QED
    BY <1>1, <1>4, <1>5, <1>6 DEF IInv

LEMMA NextInv ==
    ASSUME IInv, [Next]_vars
    PROVE  IInv'
  <1>1. ASSUME NEW r \in Request, Gate(r) PROVE IInv'
    BY <1>1, PublishStep, CheckVolumeStep, CheckConflictStep, InsertStep DEF Gate
  <1>2. ASSUME NEW r \in Request, Volume(r) PROVE IInv'
    BY <1>2, PlaceStep, CommitRebuildStep, AcknowledgeStep, CommitAcknowledgeStep DEF Volume
  <1>3. ASSUME NEW r \in Request, Abort(r) PROVE IInv'
    BY <1>3, EndRests DEF Abort
  <1>4. CASE UNCHANGED vars
    <2>1. UNCHANGED <<records, conflicts, positions, placements, index, accepted, req, raced, churned>>
      BY <1>4 DEF vars, volume
    <2>2. Types'
      BY <2>1 DEF IInv, Types, RaceTypes, RecordTypes, RequestTypes, VolumeTypes, ConflictRow, IndexRow, IndexingRequest
    <2>3. Numbering' /\ ConflictSeen' /\ VolumeSeen' /\ IndexInv'
      BY <2>1, NumberingRests, ConflictRests, VolumeRests, IndexRests DEF IInv, Publishing
    <2> QED
      BY <2>2, <2>3 DEF IInv
  <1> QED
    BY <1>1, <1>2, <1>3, <1>4, RegisterSteps DEF Next

LEMMA Invariance == Spec => []IInv
  BY InitInv, NextInv, PTL DEF Spec

\* Rows and requests are what they are meant to be: every conflict is on a
\* record that is there, and every gap is a position of the volume.
THEOREM TypeCorrect == Spec => []TypeOK
  <1>1. IInv => TypeOK
    <2> SUFFICES ASSUME IInv PROVE TypeOK
      OBVIOUS
    <2>1. \A x \in records : x.group \in Group /\ x.id \in 1..Cardinality(records)
      <3>1. Cardinality(records) \in Nat
        BY FS_CardinalityType DEF IInv, Types, RecordTypes
      <3> QED
        BY <3>1 DEF IInv, Types, RecordTypes, RecordRow
    <2> QED
      BY <2>1 DEF IInv, Types, RaceTypes, RequestTypes, VolumeTypes, ConflictRow, IndexRow, TypeOK
  <1> QED
    BY <1>1, Invariance, PTL

\* However requests race, the versions of a record are numbered without a gap
\* or a double (uq_record_group_version, publish_new_version).
THEOREM VersionsAreContiguous == Spec => []VersionsContiguous
  <1>1. IInv => VersionsContiguous
    BY DEF IInv, Numbering
  <1> QED
    BY <1>1, Invariance, PTL

\* The volume index is one row that names the gaps there are, as long as its
\* transactions do not overlap (completeness.rebuild, acknowledge_gap).
THEOREM IndexNamesGaps == Spec => []IndexNamesGapsUnlessRaced
  <1>1. IInv => IndexNamesGapsUnlessRaced
    <2> SUFFICES ASSUME IInv, ~churned
                 PROVE  Cardinality(index) <= 1 /\ \A row \in index : row.gaps = Gaps
      BY DEF IndexNamesGapsUnlessRaced
    <2>1. OneRow /\ RowIsTrue
      BY DEF IInv, IndexInv
    <2>2. Cardinality(index) <= 1
      <3>1. Cardinality({}) = 0 /\ \A row : Cardinality({row}) = 1
        BY FS_EmptySet, FS_Singleton
      <3>2. Cardinality(index) = 0 \/ Cardinality(index) = 1
        BY <2>1, <3>1 DEF OneRow
      <3> QED
        BY <3>2
    <2> QED
      BY <2>1, <2>2 DEF RowIsTrue
  <1> QED
    BY <1>1, Invariance, PTL

\* No request publishes over a conflict that is open on its predecessor's row,
\* unless a conflict on that row came or moved while that very request was
\* looking; and none over a gap of a volume of which no gap has been acknowledged
\* since it was last complete, unless a page was placed while that very request
\* was looking, or two transactions worked on the index at once
\* (publication_gate.evaluate).
THEOREM GateHolds == Spec => GateHoldsUnlessRaced
  <1> DEFINE OverConflict ==
                \A r \in Request, x \in records' \ records :
                   Inserts(r) =>
                      \A y \in Versions(x.group) :
                         /\ x.version = y.version + 1
                         /\ \E c \in conflicts : y.id \in c.on /\ c.state # "resolved"
                         => "conflict" \in raced[r]
             OverGap ==
                \A r \in Request :
                   records' # records /\ Inserts(r) /\ req[r].batch /\ Gaps # {} =>
                       accepted # {} \/ "volume" \in raced[r] \/ churned
  <1>1. ASSUME IInv, Next, NEW x \in records' \ records, NEW r \in Request, Inserts(r)
        PROVE  x.group = req[r].group /\ x.version = req[r].version
    <2>1. PICK s \in Request : Insert(s)
      <3>1. ~Register
        BY <1>1 DEF Register, OpenConflict, OpenValidatorConflict, Opened, Transition
      <3>2. \A s \in Request : ~Volume(s) /\ ~Abort(s)
        BY <1>1 DEF Volume, Abort, Place, CommitRebuild, Acknowledge, CommitAcknowledge
      <3> QED
        BY <1>1, <3>1, <3>2 DEF Next, Gate, Publish, CheckVolume, CheckConflict
    <2>2. s = r
      <3>1. Moves(s, Idle)
        BY <1>1, <2>1, RequestMoves DEF IInv, Types, Insert, End
      <3> QED
        BY <1>1, <3>1 DEF Inserts, Moves
    <2> QED
      BY <1>1, <2>1, <2>2 DEF Insert
  <1>2. ASSUME IInv, Next PROVE OverConflict
    <2> SUFFICES ASSUME NEW r \in Request, NEW x \in records' \ records, Inserts(r),
                        NEW y \in Versions(x.group), x.version = y.version + 1,
                        NEW c \in conflicts, y.id \in c.on, c.state # "resolved"
                 PROVE  "conflict" \in raced[r]
      OBVIOUS
    <2>1. req[r].op = "insert" /\ x.group = req[r].group /\ x.version = req[r].version
      BY <1>1, <1>2 DEF Inserts
    <2>2. req[r].previous = y.id
      BY <1>2, <2>1 DEF IInv, Numbering, Follows, Publishing
    <2> QED
      BY <1>2, <2>1, <2>2 DEF IInv, ConflictSeen
  <1>3. ASSUME IInv, Next PROVE OverGap
    BY <1>3 DEF IInv, VolumeSeen, Inserts
  <1>4. IInv /\ [Next]_vars => [OverConflict]_vars /\ [OverGap]_vars
    BY <1>2, <1>3
  <1> HIDE DEF OverConflict, OverGap
  <1>5. Spec => [][OverConflict]_vars /\ [][OverGap]_vars
    BY <1>4, Invariance, PTL DEF Spec
  <1> QED
    BY <1>5 DEF GateHoldsUnlessRaced, NotOverConflictUnlessRaced, NotOverGapUnlessRaced, OverConflict, OverGap

------------------------------------------------------------------------------
(* What a reader of a record is shown, and what the audit log tells of it.   *)

\* What is shown of a field: in the clear, if the reader's role or the field's
\* class allows it, and covered otherwise, in all of its parts.
LEMMA Masking ==
    ASSUME NEW class, NEW role,
           NEW value \in {Absent, "text"}, NEW raw \in {Absent, "text"}, NEW crop \in {Absent, "url"},
           NEW s, s = MaskApply(value, raw, crop, class, role)
    PROVE  /\ DOMAIN s = {"value", "raw", "crop"}
           /\ Hidden(class, role) => ~InClear(s)
           /\ ~Hidden(class, role) => s.value = value /\ s.raw = raw
                                            /\ \A part \in DOMAIN s : s[part] # "masked"
  <1>1. CASE Hidden(class, role)
    <2>1. s = [value |-> Covered(value), raw |-> Covered(raw), crop |-> Absent]
      BY <1>1 DEF MaskApply
    <2> QED
      BY <1>1, <2>1, AbsentAssumption DEF Covered, InClear
  <1>2. CASE ~Hidden(class, role)
    <2>1. s = [value |-> value, raw |-> raw, crop |-> crop]
      BY <1>2 DEF MaskApply
    <2> QED
      BY <1>2, <2>1, AbsentAssumption DEF InClear
  <1> QED
    BY <1>1, <1>2

\* A reader's role is never the one that the unmasked read takes.
LEMMA NoRoleUnmasks ==
    ASSUME NEW roles \in SUBSET Role, roles # {}
    PROVE  PrimaryRole(roles) # "auditor_unmasked_read"
  <1> DEFINE names == <<"administrator", "auditor", "operator", "supervisor", "verifier">>
             S == {i \in DOMAIN names : names[i] \in roles}
  <1>1. DOMAIN names = 1..5 /\ \A i \in 1..5 : names[i] # "auditor_unmasked_read"
    OBVIOUS
  <1>2. \E i \in 1..5 : names[i] \in roles
    BY DEF Role, PermissionMatrix
  <1> HIDE DEF names
  <1>3. \E i \in S : \A j \in S : i <= j
    BY <1>1, <1>2
  <1>4. Min(S) \in S
    BY <1>3 DEF Min
  <1> QED
    BY <1>1, <1>4 DEF PrimaryRole, names

\* A refused request shows nothing and leaves at most one entry.
Refused(a) ==
    /\ a.shown = {} /\ a.status # 200
    /\ \/ a.audit = <<>> /\ case.roles = Absent
       \/ a.status = 403 /\ \E p : a.audit = <<Denied(p)>>
       \/ a.status # 403 /\ \E p : a.audit = <<Checked(p)>>

\* An answered one shows the fields as they are masked for its role.
ShownAs(s, i, role) ==
    \E crop \in {Absent, "url"} :
        s = MaskApply(case.db[i].value, case.db[i].raw, crop, case.db[i].class, role)

\* What each route answers: a view of a record, the edits of a field, a field.
Viewed(a) ==
    /\ case.route = "record" /\ a.status = 200 /\ \E p : a.audit = <<Checked(p)>>
    /\ \A s \in a.shown : \E i \in DOMAIN case.db : ShownAs(s, i, PrimaryRole(case.roles))
    /\ \A i \in case.listed \cap DOMAIN case.db :
          \E s \in a.shown : ShownAs(s, i, PrimaryRole(case.roles))

Traced(a) ==
    /\ case.route = "provenance" /\ a.status = 200 /\ \E p : a.audit = <<Checked(p)>>
    /\ case.id \in DOMAIN case.db
    /\ \A s \in a.shown : \E e \in case.db[case.id].edits :
          s = MaskEdit(e, case.db[case.id].class, PrimaryRole(case.roles))

Unmasked(a) ==
    /\ case.route = "unmasked" /\ a.status = 200 /\ case.id \in DOMAIN case.db
    /\ Has(case.roles, "record.read.unmasked")
    /\ a.audit = <<Checked("record.read.unmasked"), <<"field.unmasked_read", "stated">>>>
    /\ \A s \in a.shown : ShownAs(s, case.id, "auditor_unmasked_read")

LEMMA Answers ==
    ASSUME Readable(case), NEW a, a = Read(case)
    PROVE  Refused(a) \/ (case.roles # Absent /\ case.roles # {} /\ (Viewed(a) \/ Traced(a) \/ Unmasked(a)))
  <1>1. \A status, shown, audit :
           /\ Answer(status, shown, audit).status = status
           /\ Answer(status, shown, audit).shown = shown
           /\ Answer(status, shown, audit).audit = audit
    BY DEF Answer
  <1>2. case.route \in {"record", "provenance", "unmasked"} /\ case.purpose \in {"stated", "blank"}
    BY DEF Readable
  <1>3. \A permission, answer :
           /\ case.roles = Absent => Guarded(case.roles, permission, answer) = Answer(401, {}, <<>>)
           /\ case.roles # Absent /\ ~Has(case.roles, permission) =>
                 Guarded(case.roles, permission, answer)
                   = Answer(403, {}, <<Denied(permission)>>)
           /\ case.roles # Absent /\ Has(case.roles, permission) =>
                 Guarded(case.roles, permission, answer) = answer
    BY DEF Guarded
  <1>4. \A permission : Has(case.roles, permission) => case.roles # {}
    BY DEF Has
  <1>5. \A i : Crop(case.db[i]) \in {Absent, "url"}
    BY DEF Crop
  <1>6. CASE case.roles = Absent
    <2>1. a = Answer(401, {}, <<>>)
      BY <1>2, <1>3, <1>6 DEF Read, GetRecord, GetProvenance, ReadUnmasked
    <2> QED
      BY <1>1, <1>6, <2>1 DEF Refused
  <1>7. CASE case.roles # Absent /\ \E p : a = Answer(403, {}, <<Denied(p)>>)
    BY <1>1, <1>7 DEF Refused
  <1>8. CASE case.roles # Absent /\ ~\E p : a = Answer(403, {}, <<Denied(p)>>)
    <2>1. CASE case.route = "record"
      <3> DEFINE p == "record.read.masked"
                 found == IF case.wanted = Absent THEN case.versions
                          ELSE case.versions \cap {case.wanted}
                 role == PrimaryRole(case.roles)
                 shown == {MaskExtraction(case.db[i], role) : i \in case.listed \cap DOMAIN case.db}
                 answer == IF found = {} THEN Answer(404, {}, <<Checked(p)>>)
                           ELSE Answer(200, shown, <<Checked(p)>>)
      <3>1. a = Guarded(case.roles, p, answer)
        BY <2>1 DEF Read, GetRecord
      <3> HIDE DEF answer
      <3>2. a = answer /\ case.roles # {}
        BY <1>3, <1>4, <1>8, <3>1
      <3> USE DEF answer
      <3>3. CASE found = {}
        BY <1>1, <3>2, <3>3 DEF Refused
      <3>4. CASE found # {}
        <4>1. a = Answer(200, shown, <<Checked(p)>>)
          BY <3>2, <3>4
        <4>2. \A i : ShownAs(MaskExtraction(case.db[i], role), i, role)
          BY <1>5 DEF ShownAs, MaskExtraction
        <4> HIDE DEF role
        <4>3. /\ \A s \in shown : \E i \in DOMAIN case.db : ShownAs(s, i, role)
              /\ \A i \in case.listed \cap DOMAIN case.db : \E s \in shown : ShownAs(s, i, role)
          BY <4>2
        <4>4. a.status = 200 /\ a.shown = shown /\ a.audit = <<Checked(p)>>
          BY <1>1, <4>1
        <4> HIDE DEF shown, p
        <4> QED
          BY <1>8, <2>1, <3>2, <4>3, <4>4 DEF Viewed, role
      <3> QED
        BY <3>3, <3>4
    <2>2. CASE case.route = "provenance"
      <3> DEFINE p == "provenance.read"
                 shown == {MaskEdit(h, case.db[case.id].class, PrimaryRole(case.roles)) :
                              h \in case.db[case.id].edits}
                 answer == IF case.id \notin DOMAIN case.db THEN Answer(404, {}, <<Checked(p)>>)
                           ELSE Answer(200, shown, <<Checked(p)>>)
      <3>1. a = Guarded(case.roles, p, answer)
        BY <2>2 DEF Read, GetProvenance
      <3> HIDE DEF answer
      <3>2. a = answer /\ case.roles # {}
        BY <1>3, <1>4, <1>8, <3>1
      <3> USE DEF answer
      <3>3. CASE case.id \notin DOMAIN case.db
        BY <1>1, <3>2, <3>3 DEF Refused
      <3>4. CASE case.id \in DOMAIN case.db
        <4>1. a = Answer(200, shown, <<Checked(p)>>)
          BY <3>2, <3>4
        <4> HIDE DEF answer, p
        <4>2. \A s \in shown : \E e \in case.db[case.id].edits :
                 s = MaskEdit(e, case.db[case.id].class, PrimaryRole(case.roles))
          OBVIOUS
        <4> HIDE DEF shown
        <4>3. a.status = 200 /\ a.shown = shown /\ a.audit = <<Checked(p)>>
          BY <1>1, <4>1
        <4> QED
          BY <1>8, <2>2, <3>2, <3>4, <4>2, <4>3 DEF Traced
      <3> QED
        BY <3>3, <3>4
    <2>3. CASE case.route = "unmasked"
      <3> DEFINE p == "record.read.unmasked"
                 check == <<Checked(p)>>
                 e == case.db[case.id]
                 s == MaskApply(e.value, e.raw, Crop(e), e.class, "auditor_unmasked_read")
                 answer == CASE case.purpose = "blank" -> Answer(422, {}, check)
                             [] case.purpose # "blank" /\ case.id \notin DOMAIN case.db ->
                                  Answer(404, {}, check)
                             [] OTHER ->
                                  Answer(200, {s},
                                      <<Checked(p), <<"field.unmasked_read", case.purpose>>>>)
      <3>1. a = Guarded(case.roles, p, answer)
        BY <2>3 DEF Read, ReadUnmasked
      <3> HIDE DEF answer
      <3>2. a = answer /\ case.roles # {} /\ Has(case.roles, p)
        BY <1>3, <1>4, <1>8, <3>1
      <3> USE DEF answer
      <3>3. CASE case.purpose = "blank" \/ case.id \notin DOMAIN case.db
        <4>1. a = Answer(422, {}, check) \/ a = Answer(404, {}, check)
          BY <3>2, <3>3
        <4> HIDE DEF answer, check
        <4>2. a.shown = {} /\ a.status \notin {200, 403} /\ a.audit = check
          BY <1>1, <4>1
        <4> QED
          BY <4>2 DEF Refused, check
      <3>4. CASE case.purpose # "blank" /\ case.id \in DOMAIN case.db
        <4> DEFINE audit == <<Checked(p), <<"field.unmasked_read", "stated">>>>
        <4>1. case.purpose = "stated"
          BY <1>2, <3>4
        <4>2. a = Answer(200, {s}, audit)
          BY <3>2, <3>4, <4>1
        <4>3. ShownAs(s, case.id, "auditor_unmasked_read")
          BY <1>5 DEF ShownAs
        <4> HIDE DEF answer, s, audit
        <4>4. a.status = 200 /\ a.shown = {s} /\ a.audit = audit
          BY <1>1, <4>2
        <4> QED
          BY <1>8, <2>3, <3>2, <3>4, <4>3, <4>4 DEF Unmasked, audit
      <3> QED
        BY <3>3, <3>4
    <2> QED
      BY <1>2, <2>1, <2>2, <2>3
  <1> QED
    BY <1>6, <1>7, <1>8

\* What is shown of a field or of an edit is shown whole or covered whole, and
\* covered if it is personal and the read is not the unmasked one.
LEMMA ShownWhole ==
    ASSUME Readable(case), NEW i \in DOMAIN case.db, NEW role, NEW s,
           \/ ShownAs(s, i, role)
           \/ \E e \in case.db[i].edits : s = MaskEdit(e, case.db[i].class, role)
    PROVE  /\ Hidden(case.db[i].class, role) => ~InClear(s)
           /\ InClear(s) => \A part \in DOMAIN s : s[part] # "masked"
           /\ ShownAs(s, i, role) /\ ~Hidden(case.db[i].class, role) =>
                 s.value = case.db[i].value /\ s.raw = case.db[i].raw
  <1>1. /\ case.db[i].value \in {Absent, "text"} /\ case.db[i].raw \in {Absent, "text"}
        /\ \A e \in case.db[i].edits :
              e.predicted \in {Absent, "text"} /\ e.corrected \in {Absent, "text"}
    BY DEF Readable
  <1>2. ASSUME ShownAs(s, i, role)
        PROVE  /\ Hidden(case.db[i].class, role) => ~InClear(s)
               /\ InClear(s) => \A part \in DOMAIN s : s[part] # "masked"
               /\ ~Hidden(case.db[i].class, role) =>
                     s.value = case.db[i].value /\ s.raw = case.db[i].raw
    <2>1. PICK crop \in {Absent, "url"} :
             s = MaskApply(case.db[i].value, case.db[i].raw, crop, case.db[i].class, role)
      BY <1>2 DEF ShownAs
    <2> QED
      BY <1>1, <2>1, Masking
  <1>3. ASSUME NEW e \in case.db[i].edits, s = MaskEdit(e, case.db[i].class, role)
        PROVE  /\ Hidden(case.db[i].class, role) => ~InClear(s)
               /\ InClear(s) => \A part \in DOMAIN s : s[part] # "masked"
    <2> DEFINE class == case.db[i].class
    <2>1. s = [predicted |-> MaskApply(Absent, e.predicted, Absent, class, role).raw,
               corrected |-> MaskApply(Absent, e.corrected, Absent, class, role).raw]
      BY <1>3 DEF MaskEdit
    <2>2. CASE Hidden(class, role)
      <3>1. \A text : MaskApply(Absent, text, Absent, class, role).raw = Covered(text)
        BY <2>2 DEF MaskApply
      <3>2. s = [predicted |-> Covered(e.predicted), corrected |-> Covered(e.corrected)]
        BY <2>1, <3>1
      <3>3. ~InClear(s)
        BY <3>2, AbsentAssumption DEF Covered, InClear
      <3> QED
        BY <3>3
    <2>3. CASE ~Hidden(class, role)
      <3>1. \A text : MaskApply(Absent, text, Absent, class, role).raw = text
        BY <2>3 DEF MaskApply
      <3>2. s = [predicted |-> e.predicted, corrected |-> e.corrected]
        BY <2>1, <3>1
      <3>3. \A part \in DOMAIN s : s[part] # "masked"
        BY <1>1, <3>2, AbsentAssumption
      <3> QED
        BY <2>3, <3>3
    <2> QED
      BY <2>2, <2>3
  <1> QED
    BY <1>2, <1>3

\* The unmasked read is an auditor's and nobody else's.
LEMMA AuditorsAlone ==
    ASSUME NEW roles \in SUBSET Role, Has(roles, "record.read.unmasked")
    PROVE  \E role \in roles : \A other \in Role \ roles :
              "record.read.unmasked"
                  \in PermissionMatrix[role] \ PermissionMatrix[other]
  <1>1. \A role \in Role :
           "record.read.unmasked" \in PermissionMatrix[role] <=> role = "auditor"
    BY DEF Role, PermissionMatrix
  <1>2. "auditor" \in roles
    BY <1>1 DEF Has
  <1> QED
    BY <1>1, <1>2

\* DisclosureIsLogged holds of every request, of any rows and any roles.
LEMMA Disclosures ==
    ASSUME case.kind = "read", Readable(case)
    PROVE  DisclosureIsLogged
  <1> DEFINE answer == Read(case)
             personal == {i \in DOMAIN case.db : case.db[i].class \in {"owner_name", "relationship", "address"}}
             logged == Len(answer.audit) = 2
             Accounted == /\ (DOMAIN case.db = personal /\ \E s \in answer.shown : InClear(s)) => logged
                          /\ logged => /\ answer.status = 200
                                       /\ answer.audit[2] = <<"field.unmasked_read", "stated">>
                                       /\ \E role \in case.roles : \A other \in Role \ case.roles :
                                             "record.read.unmasked"
                                                 \in PermissionMatrix[role] \ PermissionMatrix[other]
                          /\ case.roles # Absent =>
                                answer.audit # <<>> /\ (answer.status = 403 <=> answer.audit[1][1] = "rbac.denied")
                          /\ answer.status # 200 => answer.shown = {}
                          /\ \A s \in answer.shown : InClear(s) => \A part \in DOMAIN s : s[part] # "masked"
                          /\ case.route = "record" /\ answer.status = 200 =>
                                \A i \in case.listed \cap DOMAIN case.db : i \notin personal =>
                                   \E s \in answer.shown : s.value = case.db[i].value /\ s.raw = case.db[i].raw
  <1> SUFFICES Accounted
    BY DEF DisclosureIsLogged
  <1>1. \A a : a = answer => Refused(a) \/ (case.roles # Absent /\ case.roles # {}
                                            /\ (Viewed(a) \/ Traced(a) \/ Unmasked(a)))
    BY Answers
  <1>2. case.roles # Absent => case.roles \subseteq Role
    BY DEF Readable
  <1>3. \A i \in DOMAIN case.db : \A role : role # "auditor_unmasked_read" =>
           (Hidden(case.db[i].class, role) <=> i \in personal)
    BY DEF Hidden, PersonalData
  <1>4. \A p : /\ Len(<<Checked(p)>>) = 1 /\ <<Checked(p)>> # <<>>
               /\ <<Checked(p)>>[1][1] = "rbac.checked"
    BY DEF Checked
  <1>5. \A p : /\ Len(<<Denied(p)>>) = 1 /\ <<Denied(p)>> # <<>>
               /\ <<Denied(p)>>[1][1] = "rbac.denied"
    BY DEF Denied
  <1>6. Len(<<>>) = 0
    OBVIOUS
  <1> HIDE DEF answer, personal
  <1>7. CASE Refused(answer)
    <2>1. answer.shown = {} /\ answer.status # 200 /\ ~logged
      BY <1>4, <1>5, <1>6, <1>7 DEF Refused
    <2>2. case.roles # Absent =>
             answer.audit # <<>> /\ (answer.status = 403 <=> answer.audit[1][1] = "rbac.denied")
      BY <1>4, <1>5, <1>7 DEF Refused
    <2> QED
      BY <2>1, <2>2
  <1>8. CASE case.roles # Absent /\ case.roles # {} /\ Viewed(answer)
    <2> DEFINE role == PrimaryRole(case.roles)
    <2>1. role # "auditor_unmasked_read"
      BY <1>2, <1>8, NoRoleUnmasks
    <2> HIDE DEF role
    <2>2. /\ \A s \in answer.shown : \E i \in DOMAIN case.db : ShownAs(s, i, role)
          /\ \A i \in case.listed \cap DOMAIN case.db : \E s \in answer.shown : ShownAs(s, i, role)
      BY <1>8 DEF Viewed, role
    <2>3. answer.status = 200 /\ \E p : answer.audit = <<Checked(p)>>
      BY <1>8 DEF Viewed
    <2>4. ~logged /\ answer.audit # <<>> /\ answer.audit[1][1] = "rbac.checked"
      BY <1>4, <2>3
    <2>5. ASSUME NEW s \in answer.shown
          PROVE  /\ DOMAIN case.db = personal => ~InClear(s)
                 /\ InClear(s) => \A part \in DOMAIN s : s[part] # "masked"
      <3>1. PICK i \in DOMAIN case.db : ShownAs(s, i, role)
        BY <2>2
      <3> QED
        BY <1>3, <2>1, <3>1, ShownWhole
    <2>6. ASSUME NEW i \in case.listed \cap DOMAIN case.db, i \notin personal
          PROVE  \E s \in answer.shown : s.value = case.db[i].value /\ s.raw = case.db[i].raw
      <3>1. PICK s \in answer.shown : ShownAs(s, i, role)
        BY <2>2
      <3> QED
        BY <1>3, <2>1, <2>6, <3>1, ShownWhole
    <2> HIDE DEF logged
    <2> QED
      BY <2>3, <2>4, <2>5, <2>6
  <1>9. CASE case.roles # Absent /\ case.roles # {} /\ Traced(answer)
    <2> DEFINE role == PrimaryRole(case.roles)
    <2>1. role # "auditor_unmasked_read"
      BY <1>2, <1>9, NoRoleUnmasks
    <2> HIDE DEF role
    <2>2. /\ case.id \in DOMAIN case.db /\ case.route = "provenance"
          /\ \A s \in answer.shown : \E e \in case.db[case.id].edits :
                s = MaskEdit(e, case.db[case.id].class, role)
      BY <1>9 DEF Traced, role
    <2>3. answer.status = 200 /\ \E p : answer.audit = <<Checked(p)>>
      BY <1>9 DEF Traced
    <2>4. ~logged /\ answer.audit # <<>> /\ answer.audit[1][1] = "rbac.checked"
      BY <1>4, <2>3
    <2>5. ASSUME NEW s \in answer.shown
          PROVE  /\ DOMAIN case.db = personal => ~InClear(s)
                 /\ InClear(s) => \A part \in DOMAIN s : s[part] # "masked"
      <3> DEFINE class == case.db[case.id].class
      <3>1. \E e \in case.db[case.id].edits : s = MaskEdit(e, class, role)
        BY <2>2
      <3>2. /\ Hidden(class, role) => ~InClear(s)
            /\ InClear(s) => \A part \in DOMAIN s : s[part] # "masked"
        BY <2>2, <3>1, ShownWhole
      <3>3. DOMAIN case.db = personal => Hidden(class, role)
        BY <1>3, <2>1, <2>2
      <3> HIDE DEF class
      <3> QED
        BY <3>2, <3>3
    <2> HIDE DEF logged
    <2> QED
      BY <2>2, <2>3, <2>4, <2>5
  <1>10. CASE case.roles # Absent /\ case.roles # {} /\ Unmasked(answer)
    <2>1. case.id \in DOMAIN case.db /\ case.route = "unmasked" /\ answer.status = 200
      BY <1>10 DEF Unmasked
    <2>2. /\ answer.audit = <<Checked("record.read.unmasked"), <<"field.unmasked_read", "stated">>>>
          /\ \A s \in answer.shown : ShownAs(s, case.id, "auditor_unmasked_read")
      BY <1>10 DEF Unmasked
    <2>3. /\ logged /\ answer.audit # <<>> /\ answer.audit[1][1] = "rbac.checked"
          /\ answer.audit[2] = <<"field.unmasked_read", "stated">>
      BY <2>2 DEF Checked
    <2>4. \E role \in case.roles : \A other \in Role \ case.roles :
             "record.read.unmasked" \in PermissionMatrix[role] \ PermissionMatrix[other]
      BY <1>2, <1>10, AuditorsAlone DEF Unmasked
    <2>5. ASSUME NEW s \in answer.shown
          PROVE  InClear(s) => \A part \in DOMAIN s : s[part] # "masked"
      BY <2>1, <2>2, ShownWhole
    <2> HIDE DEF logged
    <2> QED
      BY <2>1, <2>3, <2>4, <2>5
  <1> HIDE DEF Accounted
  <1> QED
    BY <1>1, <1>7, <1>8, <1>9, <1>10

------------------------------------------------------------------------------
(* What a closed set is served from.                                         *)

\* The rows that are served, of some entries, and what they look like once
\* every entry is said to come from the old records.
ServedOf(entries, version, district) ==
    {e \in Lawful(entries) : Visible(e, version, district)}
Relabelled(entries) == {[e EXCEPT !.source = "lrms"] : e \in {d \in entries : d.provenance # "lrms"}}

CodesOf(rows) == {e.code : e \in rows}
ProvenancesOf(rows) == {e.provenance : e \in rows}
Mixed(rows) == \E p, q \in ProvenancesOf(rows) : p # q
SourceOf(rows) == IF rows = {} THEN "schema" ELSE CHOOSE p \in ProvenancesOf(rows) : TRUE

\* An answer, of the version and of the rows found.
AnswersFrom(answer, version, rows) ==
    /\ version = Absent => answer = [error |-> "unknown"]
    /\ version # Absent /\ Mixed(rows) => answer = [error |-> "inconsistent"]
    /\ version # Absent /\ ~Mixed(rows) =>
          answer = [error |-> Absent, codes |-> CodesOf(rows), source |-> SourceOf(rows),
                    version |-> version]

LEMMA ServedFromRows ==
    ASSUME NEW entries, NEW pointers, NEW district
    PROVE  LET version == CorpusVersion(pointers, district)
           IN AnswersFrom(GetClosedSet(entries, pointers, district), version,
                          ServedOf(entries, version, district))
  <1> DEFINE version == CorpusVersion(pointers, district)
             rows == ServedOf(entries, version, district)
             mixed == Mixed(rows)
             codes == CodesOf(rows)
             source == SourceOf(rows)
             answer == GetClosedSet(entries, pointers, district)
  <1>1. answer = CASE version = Absent -> [error |-> "unknown"]
                   [] version # Absent /\ mixed -> [error |-> "inconsistent"]
                   [] OTHER -> [error |-> Absent, codes |-> codes, source |-> source, version |-> version]
    BY DEF GetClosedSet, ServedOf, CodesOf, SourceOf, ProvenancesOf, Mixed
  <1> HIDE DEF codes, source, mixed, version, answer
  <1>2. /\ version = Absent => answer = [error |-> "unknown"]
        /\ version # Absent /\ mixed => answer = [error |-> "inconsistent"]
        /\ version # Absent /\ ~mixed =>
              answer = [error |-> Absent, codes |-> codes, source |-> source, version |-> version]
    BY <1>1
  <1> HIDE DEF rows
  <1>3. AnswersFrom(answer, version, rows)
    BY <1>2 DEF AnswersFrom, codes, source, mixed
  <1> QED
    BY <1>3 DEF answer, version, rows

\* Dropping the derived rows and relabelling the others changes neither the
\* codes that are served nor their provenances.
LEMMA SourceIsIgnored ==
    ASSUME IsCorpus(case), NEW version, NEW district
    PROVE  LET rows == ServedOf(case.entries, version, district)
               others == ServedOf(Relabelled(case.entries), version, district)
           IN /\ CodesOf(rows) = CodesOf(others) /\ SourceOf(rows) = SourceOf(others)
              /\ Mixed(rows) <=> Mixed(others)
  <1> DEFINE rows == ServedOf(case.entries, version, district)
             others == ServedOf(Relabelled(case.entries), version, district)
             Relabel(e) == [e EXCEPT !.source = "lrms"]
  <1>1. \A e \in case.entries :
           /\ Relabel(e).provenance = e.provenance /\ Relabel(e).version = e.version
           /\ Relabel(e).district = e.district /\ Relabel(e).code = e.code
    BY DEF IsCorpus
  <1>2. \A e \in rows : e \in case.entries /\ e.provenance # "lrms"
    BY DEF ServedOf, Lawful, LawfulProvenances
  <1>3. Relabelled(case.entries) = {Relabel(e) : e \in {d \in case.entries : d.provenance # "lrms"}}
    BY DEF Relabelled
  <1> HIDE DEF Relabel
  <1>4. \A e \in case.entries : e \in rows => Relabel(e) \in others
    BY <1>1, <1>2, <1>3 DEF ServedOf, Lawful, Visible
  <1>5. \A o \in others : \E e \in rows : o = Relabel(e)
    <2> SUFFICES ASSUME NEW o \in others PROVE \E e \in rows : o = Relabel(e)
      OBVIOUS
    <2>1. PICK e \in case.entries : o = Relabel(e)
      BY <1>3 DEF ServedOf, Lawful
    <2>2. e \in rows
      BY <1>1, <2>1 DEF ServedOf, Lawful, Visible
    <2> QED
      BY <2>1, <2>2
  <1> HIDE DEF rows, others
  <1>6. \A e \in rows : /\ Relabel(e) \in others
                        /\ Relabel(e).code = e.code /\ Relabel(e).provenance = e.provenance
    BY <1>1, <1>2, <1>4
  <1>7. CodesOf(rows) = CodesOf(others)
    BY <1>5, <1>6 DEF CodesOf
  <1>8. ProvenancesOf(rows) = ProvenancesOf(others)
    BY <1>5, <1>6 DEF ProvenancesOf
  <1>9. rows = {} <=> others = {}
    BY <1>5, <1>6
  <1> QED
    BY <1>7, <1>8, <1>9 DEF rows, others, SourceOf, Mixed

\* CorpusIsLawful holds of every corpus.
LEMMA CorpusServed ==
    ASSUME case.kind = "corpus", IsCorpus(case)
    PROVE  CorpusIsLawful
  <1> DEFINE district == case.district
             version == CorpusVersion(case.pointers, district)
             answer == GetClosedSet(case.entries, case.pointers, district)
             rows == ServedOf(case.entries, version, district)
             trusted == {e \in case.entries : e.provenance # "lrms"}
             others == ServedOf(Relabelled(case.entries), version, district)
  <1>1. AnswersFrom(answer, version, rows)
    BY ServedFromRows
  <1>2. answer = GetClosedSet(Relabelled(case.entries), case.pointers, district)
    <2> DEFINE again == GetClosedSet(Relabelled(case.entries), case.pointers, district)
    <2>1. AnswersFrom(again, version, others)
      BY ServedFromRows
    <2>2. CodesOf(rows) = CodesOf(others) /\ SourceOf(rows) = SourceOf(others) /\ (Mixed(rows) <=> Mixed(others))
      BY SourceIsIgnored
    <2> HIDE DEF answer, again, rows, others, version
    <2>3. answer = again
      BY <1>1, <2>1, <2>2 DEF AnswersFrom
    <2> QED
      BY <2>3 DEF answer, again
  <1>3. answer.error = "unknown" <=> version = Absent
    <2> HIDE DEF answer, rows, version
    <2> QED
      BY <1>1, AbsentAssumption DEF AnswersFrom
  <1>4. version = Absent <=> {case.pointers.global, IF district = Absent THEN Absent
                                                    ELSE case.pointers.district} = {Absent}
    BY DEF CorpusVersion
  <1>5. ASSUME answer.error = Absent
        PROVE  /\ \A e \in rows : answer.source = e.provenance
               /\ answer.codes = {e.code : e \in rows} /\ answer.version = version
    <2> HIDE DEF answer, version, rows
    <2>1. ~Mixed(rows) /\ answer.codes = CodesOf(rows) /\ answer.source = SourceOf(rows)
          /\ answer.version = version
      BY <1>1, <1>5, AbsentAssumption DEF AnswersFrom
    <2>2. ASSUME NEW e \in rows PROVE answer.source = e.provenance
      <3>1. e.provenance \in ProvenancesOf(rows)
        BY DEF ProvenancesOf
      <3>2. SourceOf(rows) \in ProvenancesOf(rows)
        BY <3>1 DEF SourceOf
      <3> QED
        BY <2>1, <3>1, <3>2 DEF Mixed
    <2> QED
      BY <2>1, <2>2 DEF CodesOf
  <1>6. \A e \in rows : /\ e \in trusted /\ e.version = version
                        /\ district # Absent => e.district \in {district, Absent}
    BY DEF ServedOf, Lawful, LawfulProvenances, Visible
  <1>7. \A e \in trusted : e.version = version /\ e.district = Absent => e \in rows
    BY DEF ServedOf, Lawful, LawfulProvenances, Visible, IsCorpus
  <1> HIDE DEF answer, rows, version, trusted
  <1>8. ASSUME answer.error = Absent
        PROVE  /\ \A c \in answer.codes :
                     \E e \in {d \in trusted : d.code = c /\ d.version = answer.version} :
                        /\ e.provenance = answer.source
                        /\ district # Absent => e.district \notin {"d1", "d2"} \ {district}
               /\ \A e \in trusted :
                     e.version = answer.version /\ e.district = Absent => e.code \in answer.codes
    BY <1>5, <1>6, <1>7, <1>8, AbsentAssumption
  <1> QED
    BY <1>2, <1>3, <1>4, <1>8 DEF CorpusIsLawful, answer, trusted, Relabelled
------------------------------------------------------------------------------
(* Who may write a trusted provenance.                                       *)

\* Some statement up to the n-th loaded this provenance, and the transaction
\* has not ended since.
LoadedBy(done, n, provenance) ==
    \E i \in 1..n : /\ done[i] = [op |-> "load", provenance |-> provenance]
                    /\ \A j \in i..n : done[j].op \notin {"commit", "rollback"}

\* The setting of the transaction is a loader's, and each row of a trusted
\* provenance, pending or committed, was loaded.
SessionInv ==
    LET n == Len(case.done)
        s == case.session
    IN /\ case.done \in Seq(Statement)
       /\ DOMAIN s = {"setting", "pending", "rows", "broken"}
       /\ s.setting # Absent => LoadedBy(case.done, n, s.setting)
       /\ \A row \in s.pending \cup s.rows :
             /\ row.at \in 1..n
             /\ row.provenance \in LawfulProvenances => LoadedBy(case.done, row.at, row.provenance)

\* A statement that ends no transaction leaves what was loaded loaded.
LEMMA StaysLoaded ==
    ASSUME NEW n \in Nat, NEW m \in 0..n, NEW p, NEW done, NEW then,
           \A i \in 1..n : then[i] = done[i], LoadedBy(done, m, p)
    PROVE  /\ LoadedBy(then, m, p)
           /\ m = n /\ then[n + 1].op \notin {"commit", "rollback"} => LoadedBy(then, n + 1, p)
  <1>1. PICK i \in 1..m : /\ done[i] = [op |-> "load", provenance |-> p]
                          /\ \A j \in i..m : done[j].op \notin {"commit", "rollback"}
    BY DEF LoadedBy
  <1>2. i \in 1..(n + 1) /\ then[i] = [op |-> "load", provenance |-> p]
    BY <1>1
  <1>3. \A j \in i..m : then[j].op \notin {"commit", "rollback"}
    BY <1>1
  <1>4. m = n => \A j \in i..(n + 1) : j \in i..m \/ j = n + 1
    BY <1>1
  <1> QED
    BY <1>1, <1>2, <1>3, <1>4 DEF LoadedBy

LEMMA SessionStep ==
    ASSUME SessionInv, NEW statement \in Statement, Run(statement)
    PROVE  SessionInv' /\ case'.kind = "session"
  <1> DEFINE done == case.done
             n == Len(done)
             s == case.session
             t == Execute(s, statement, n + 1)
  <1>1. /\ done \in Seq(Statement) /\ n \in Nat
        /\ DOMAIN s = {"setting", "pending", "rows", "broken"}
        /\ s.setting # Absent => LoadedBy(done, n, s.setting)
        /\ \A row \in s.pending \cup s.rows :
              /\ row.at \in 1..n
              /\ row.provenance \in LawfulProvenances => LoadedBy(done, row.at, row.provenance)
    BY LenProperties DEF SessionInv
  <1>2. /\ case'.kind = "session" /\ case'.session = t /\ case'.done = Append(done, statement)
    BY DEF Run
  <1>3. /\ case'.done \in Seq(Statement) /\ Len(case'.done) = n + 1
        /\ \A i \in 1..n : case'.done[i] = done[i]
        /\ case'.done[n + 1] = statement
    BY <1>1, <1>2, AppendProperties
  <1>4. \A m \in 0..n : \A p : LoadedBy(done, m, p) => LoadedBy(case'.done, m, p)
    BY <1>1, <1>3, StaysLoaded
  <1>5. statement.op \notin {"commit", "rollback"} =>
           \A p : LoadedBy(done, n, p) => LoadedBy(case'.done, n + 1, p)
    <2> SUFFICES ASSUME statement.op \notin {"commit", "rollback"}, NEW p, LoadedBy(done, n, p)
                 PROVE  LoadedBy(case'.done, n + 1, p)
      OBVIOUS
    <2> DEFINE then == case'.done
    <2>1. n \in 0..n /\ then[n + 1].op \notin {"commit", "rollback"} /\ \A i \in 1..n : then[i] = done[i]
      BY <1>1, <1>3
    <2> HIDE DEF then
    <2>2. LoadedBy(then, n + 1, p)
      BY <1>1, <2>1, StaysLoaded
    <2> QED
      BY <2>2 DEF then
  <1>6. statement.op = "load" =>
           /\ statement.provenance \in LawfulProvenances
           /\ LoadedBy(case'.done, n + 1, statement.provenance)
    <2>1. statement.op = "load" => /\ statement = [op |-> "load", provenance |-> statement.provenance]
                                   /\ statement.provenance \in LawfulProvenances
      BY DEF Statement
    <2> QED
      BY <1>1, <1>3, <2>1 DEF LoadedBy
  <1>7. \A r \in s.pending \cup s.rows :
            /\ r.at \in 1..(n + 1)
            /\ r.provenance \in LawfulProvenances => LoadedBy(case'.done, r.at, r.provenance)
    <2> SUFFICES ASSUME NEW r \in s.pending \cup s.rows
                 PROVE  /\ r.at \in 1..(n + 1)
                        /\ r.provenance \in LawfulProvenances =>
                              LoadedBy(case'.done, r.at, r.provenance)
      OBVIOUS
    <2>1. r.at \in 0..n /\ r.at \in 1..(n + 1)
      BY <1>1
    <2> QED
      BY <1>1, <1>4, <2>1
  <1>8. CASE statement.op \in {"commit", "rollback"}
    <2>1. /\ t.setting = Absent /\ t.pending = {} /\ t.rows \subseteq s.pending \cup s.rows
          /\ DOMAIN t = {"setting", "pending", "rows", "broken"}
      BY <1>1, <1>8 DEF Execute, EndTransaction
    <2> HIDE DEF t
    <2> QED
      BY <1>2, <1>3, <1>7, <2>1 DEF SessionInv
  <1>9. CASE statement.op \in {"load", "insert"} /\ ~s.broken
    <2> DEFINE p == statement.provenance
               set == IF statement.op = "load" THEN [s EXCEPT !.setting = p] ELSE s
               row == [at |-> n + 1, provenance |-> p]
    <2>1. t = InsertEntry(set, p, n + 1)
      BY <1>9 DEF Execute
    <2>2. /\ DOMAIN set = {"setting", "pending", "rows", "broken"}
          /\ set.pending = s.pending /\ set.rows = s.rows
          /\ set.setting = IF statement.op = "load" THEN p ELSE s.setting
      BY <1>1
    <2> HIDE DEF set
    <2>3. /\ DOMAIN t = {"setting", "pending", "rows", "broken"}
          /\ t.setting = set.setting /\ t.rows = s.rows
          /\ \/ t.pending = s.pending
             \/ t.pending = s.pending \cup {row} /\ (p \in LawfulProvenances => set.setting = p)
      BY <2>1, <2>2 DEF InsertEntry
    <2>4. set.setting # Absent => LoadedBy(case'.done, n + 1, set.setting)
      BY <1>1, <1>5, <1>6, <1>9, <2>2
    <2>5. p \in LawfulProvenances /\ set.setting = p => LoadedBy(case'.done, n + 1, p)
      BY <2>4, AbsentAssumption DEF LawfulProvenances
    <2>6. row.at = n + 1 /\ row.provenance = p
      OBVIOUS
    <2> HIDE DEF t, row, p
    <2>7. \A r \in t.pending \cup t.rows :
             /\ r.at \in 1..(n + 1)
             /\ r.provenance \in LawfulProvenances => LoadedBy(case'.done, r.at, r.provenance)
      <3>1. row.at \in 1..(n + 1)
        BY <1>1, <2>6
      <3>2. CASE t.pending = s.pending
        BY <1>7, <2>3, <3>2
      <3>3. CASE t.pending = s.pending \cup {row} /\ (p \in LawfulProvenances => set.setting = p)
        BY <1>7, <2>3, <2>5, <2>6, <3>1, <3>3
      <3> QED
        BY <2>3, <3>2, <3>3
    <2> QED
      BY <1>2, <1>3, <2>3, <2>4, <2>7 DEF SessionInv
  <1>10. CASE statement.op \in {"load", "insert"} /\ s.broken
    <2>1. t = s
      BY <1>10 DEF Execute
    <2> HIDE DEF t
    <2> QED
      BY <1>1, <1>2, <1>3, <1>5, <1>7, <1>10, <2>1 DEF SessionInv
  <1>11. statement.op \in {"load", "insert", "commit", "rollback"}
    BY DEF Statement
  <1> QED
    BY <1>2, <1>8, <1>9, <1>10, <1>11

\* ReadsAreLawful always holds: of every reading request, whatever rows there are
\* and whoever asks; of every corpus; and of every session, whatever statements
\* it runs and however its transactions end.
THEOREM ReadLawfully ==
    CaseSpec => []ReadsAreLawful
  <1> DEFINE Given == /\ case.kind = "read" => Readable(case)
                      /\ case.kind = "corpus" => IsCorpus(case)
                      /\ case.kind = "ramp" => "kind" \in DOMAIN case
                      /\ case.kind = "session" => SessionInv
  <1>1. CaseInit => Given
    <2>1. CASE case = OnRamp
      BY <2>1 DEF OnRamp
    <2>2. CASE case = InSession
      <3>1. /\ case.kind = "session" /\ case.done = <<>> /\ Len(case.done) = 0
            /\ case.session = [setting |-> Absent, pending |-> {}, rows |-> {}, broken |-> FALSE]
        BY <2>2 DEF InSession, NewSession
      <3>2. case.done \in Seq(Statement)
        BY <3>1
      <3> QED
        BY <3>1, <3>2 DEF SessionInv
    <2>3. ASSUME NEW kind \in DOMAIN Inputs, case \in Inputs[kind] PROVE Given
      BY <2>3, InputsAssumption
    <2> QED
      BY <2>1, <2>2, <2>3 DEF CaseInit
  <1>2. Given /\ [CaseNext]_case => Given'
    <2>1. ASSUME Given, NEW e \in Evidence, Evaluate(e) PROVE Given'
      <3>1. case'.kind = "ramp" /\ "kind" \in DOMAIN case'
        BY <2>1 DEF Evaluate
      <3> QED
        BY <3>1
    <2>2. ASSUME Given, NEW statement \in Statement, Run(statement) PROVE Given'
      <3>1. SessionInv
        BY <2>2 DEF Run
      <3>2. SessionInv' /\ case'.kind = "session"
        BY <2>2, <3>1, SessionStep
      <3> QED
        BY <3>2
    <2>3. ASSUME Given, UNCHANGED case PROVE Given'
      BY <2>3 DEF Readable, IsCorpus, SessionInv
    <2> QED
      BY <2>1, <2>2, <2>3 DEF CaseNext
  <1>3. Given => ReadsAreLawful
    <2>1. Given => DisclosureIsLogged
      BY Disclosures DEF DisclosureIsLogged
    <2>2. Given => CorpusIsLawful
      BY CorpusServed DEF CorpusIsLawful
    <2>3. case.kind = "session" /\ SessionInv => TrustIsLoaded
      <3>1. SessionInv => \A row \in case.session.rows :
               row.provenance \in LawfulProvenances => LoadedBy(case.done, row.at, row.provenance)
        BY DEF SessionInv
      <3>2. (\A row \in case.session.rows :
               row.provenance \in LawfulProvenances => LoadedBy(case.done, row.at, row.provenance))
               => TrustIsLoaded
        BY DEF LoadedBy, TrustIsLoaded
      <3> QED
        BY <3>1, <3>2
    <2> QED
      BY <2>1, <2>2, <2>3 DEF ReadsAreLawful, TrustIsLoaded
  <1> QED
    BY <1>1, <1>2, <1>3, PTL DEF CaseSpec
================================================================================
