------------------------------- MODULE Algorithms -------------------------------
(***************************************************************************)
(* The pure algorithms of Model Work, of the extraction service and of the *)
(* backend's reads on bounded inputs, each compared with a definition that *)
(* is reached another way.  A behaviour is one input, a stratum that moves *)
(* along the cold-start ramp under any evidence, or a database session     *)
(* that loads closed sets between other statements.                        *)
(***************************************************************************)
EXTENDS Calibration, MapLane, TextLane, RecordReads

CONSTANTS
    Inputs,       \* for each kind, the records to judge
    Evidence,     \* what can be observed of a stratum between two evaluations
    MinSamples,   \* the samples each state of the ramp asks for
    MaxStatements \* a bound of the model

\* What a routing input can be: ThresholdPolicy and NoveltyPolicy refuse other
\* targets and thresholds, and a cluster has a name.
Routable(r) ==
    /\ r.answer \in Int /\ r.target \in 1..(Scale - 1)
    /\ r.detector # None => /\ r.detector.threshold \in 0..Scale
                           /\ \A s \in DOMAIN r.detector.prototypes : r.detector.prototypes[s] \in Int
    /\ DOMAIN r.x = {"id", "stratum", "writer", "doc", "embedding", "results", "pinned",
                     "novelty_score", "outside", "conflict"}
    /\ r.x.embedding \in Int \cup {None} /\ r.x.results \in Seq(Range(r.x.results))
    /\ ClusterId(r.x) # None

\* What a reading request and the rows it meets can be.
Readable(r) ==
    /\ r.route \in {"record", "provenance", "unmasked"} /\ r.purpose \in {"stated", "blank"}
    /\ r.roles = Absent \/ r.roles \subseteq Role
    /\ \A i \in DOMAIN r.db :
          /\ {r.db[i].value, r.db[i].raw} \subseteq {Absent, "text"}
          /\ \A e \in r.db[i].edits : {e.predicted, e.corrected} \subseteq {Absent, "text"}

\* What a corpus can be: rows of closed_set_entry, of the provenances of its enum.
IsCorpus(i) ==
    \A e \in i.entries :
        /\ {"provenance", "source", "version", "district", "code"} \subseteq DOMAIN e
        /\ e.provenance \in {"schema", "lgd", "lrms"}

IsSequence(s) == s \in Seq(Range(s))

\* Pages are ordered by their digests.  Only the default fraction, a fifth, is in
\* use; nothing refuses another, and one would leave no training data.
IsLabelled(i) ==
    /\ IsSequence(i.labels) /\ \A k \in DOMAIN i.labels : i.labels[k].page \in Int
    /\ i.num \in Nat /\ i.den \in Nat \ {0} /\ i.num < i.den /\ i.min \in Nat

\* The name of a category is field_class=, script= or doc_type= and a value.
IsEncodable(i) ==
    IsSequence(i.categories) /\ Range(i.categories) \cap Range(FeatureNames(<<>>, TRUE)) = {}

\* compute_ece bounds the predictions and refuses other numbers of bins.
IsPredicted(i) ==
    /\ IsSequence(i.predictions) /\ i.bins \in Nat \ {0}
    /\ \A k \in DOMAIN i.predictions :
          i.predictions[k].confidence \in 0..Scale /\ i.predictions[k].correct \in BOOLEAN

\* A stroke or a box is where it was found on the page; the buffer is some pixels.
IsDrawn(i) ==
    /\ {i.p, i.q, i.rect.lo, i.rect.hi} \subseteq Int \X Int
    /\ i.rect.lo[1] <= i.rect.hi[1] /\ i.rect.lo[2] <= i.rect.hi[2]
    /\ i.buffer \in Nat \ {0}

\* Heights, widths and lines are numbers of pixels from the corner of the page.
IsColumn(i) ==
    /\ IsSequence(i.parcels) /\ Range(i.parcels) \subseteq Nat
    /\ IsSequence(i.owners) /\ Range(i.owners) \subseteq Nat /\ i.slack \in Nat
IsTable(i) ==
    /\ IsFiniteSet(i.tokens) /\ \A t \in i.tokens : t.x \in Nat /\ t.w \in Nat \ {0}
    /\ IsFiniteSet(i.lines) /\ i.lines \subseteq Nat
    /\ i.tolerance \in Nat \ {0} /\ i.inset \in Nat

\* An extraction has an identifier of its own.
IsRecord(i) ==
    /\ IsSequence(i.extractions) /\ IsSequence(i.metas) /\ i.metas # <<>>
    /\ \A j, k \in DOMAIN i.extractions : i.extractions[j].id = i.extractions[k].id => j = k
    /\ \A k \in DOMAIN i.metas : i.metas[k].index \in Int

ASSUME InputsAssumption ==
    \A kind \in DOMAIN Inputs : \A i \in Inputs[kind] :
        /\ i.kind \notin {"ramp", "session"}
        /\ i.kind = "route" => Routable(i)
        /\ i.kind = "labels" => IsLabelled(i)
        /\ i.kind = "features" => IsEncodable(i)
        /\ i.kind = "predictions" => IsPredicted(i)
        /\ i.kind = "stroke" => IsDrawn(i)
        /\ i.kind = "owners" => IsColumn(i)
        /\ i.kind = "table" => IsTable(i)
        /\ i.kind = "record" => IsRecord(i)
        /\ i.kind = "page" => IsSequence(i.page.regions)
        /\ i.kind = "read" => Readable(i)
        /\ i.kind = "corpus" => IsCorpus(i)

VARIABLE
    case  \* the input, the stratum on the ramp, or the session

OnRamp == [kind |-> "ramp", state |-> "shadow", regressed |-> FALSE, seen |-> {}]

InSession == [kind |-> "session", done |-> <<>>, session |-> NewSession]

CaseInit == case \in {OnRamp, InSession} \/ \E kind \in DOMAIN Inputs : case \in Inputs[kind]

\* seen: what was observed, in which state, since the last regression.
ObservedOf(e) ==
    (IF e.verified /\ e.samples >= MinSamples.ramp /\ ~e.alert /\ case.state = "ramp"
     THEN {"proved"} ELSE {})
      \cup (IF e.recovered /\ e.samples >= MinSamples.recovery /\ ~e.alert /\ case.state = "regression"
            THEN {"recovered"} ELSE {})

Evaluate(e) ==
    /\ case.kind = "ramp"
    /\ LET next == ColdStartTransition(case.state, e, MinSamples)
           falls == next = "regression" /\ case.state # "regression"
       IN case' = [case EXCEPT !.state = next,
                               !.regressed = @ \/ falls,
                               !.seen = IF falls THEN {} ELSE @ \cup ObservedOf(e)]

Run(statement) ==
    /\ case.kind = "session" /\ Len(case.done) < MaxStatements
    /\ case' = [kind |-> "session", done |-> Append(case.done, statement),
                session |-> Execute(case.session, statement, Len(case.done) + 1)]

CaseNext == (\E e \in Evidence : Evaluate(e)) \/ (\E statement \in Statement : Run(statement))

CaseSpec == CaseInit /\ [][CaseNext]_case

-----------------------------------------------------------------------------
(* Model Work.                                                             *)

\* A stratum is steady only after a verified calibration on the ramp since its
\* last regression, and leaves a regression only on verified recovery, never
\* while an alert stands (cold_start.py, next_state and its evaluation).
SteadyIsEarned ==
    case.kind = "ramp" =>
        /\ case.state = "steady" => "proved" \in case.seen
        /\ case.regressed /\ AutoAcceptAllowed(case.state) => "recovered" \in case.seen

Accepted(x, answer, state) ==
    Decide(x, answer, case.detector, case.target, state, case.sample).outcome
        \in {"auto_accept", "audit_sample"}

\* A field accepted without review has no failing validator, is of a stratum
\* the detector knows and as near as its threshold says, unless that is 1, as far
\* as any distance is counted; it reaches the target, by versions that were pinned;
\* and nothing that speaks for it could have sent it to review: a surer answer, one
\* result less, or the steady state.  What a detector puts
\* outside has a cluster to be alerted on (process_extraction_for_decision).
RoutedSafely ==
    case.kind = "route" =>
        /\ LET d == Decide(case.x, case.answer, case.detector, case.target, case.state, case.sample)
           IN d.outcome = "outside_calibrated_regime" => case.x.outside \/ d.cluster # None
        /\ Accepted(case.x, case.answer, case.state) =>
            /\ Needed(case.detector) \subseteq case.x.pinned /\ ~case.x.outside
            /\ \A i \in DOMAIN case.x.results :
                   case.x.id \in case.x.results[i].fields => case.x.results[i].verdict # "fail"
            /\ (IF case.detector = None THEN FALSE ELSE DOMAIN case.detector.prototypes # {}) =>
                   /\ case.x.stratum \in DOMAIN case.detector.prototypes
                   /\ case.x.embedding # None /\ case.detector.threshold < Scale =>
                        case.x.embedding - case.detector.prototypes[case.x.stratum]
                            \in (-case.detector.threshold)..case.detector.threshold
            /\ Scale - case.answer <= case.target /\ case.state \notin {"shadow", "regression"}
            /\ Accepted(case.x, case.answer + 1, case.state)
            /\ Accepted(case.x, case.answer, "steady")
            /\ case.x.results # <<>> =>
                   Accepted([case.x EXCEPT !.results = Front(@)], case.answer, case.state)

\* What the name of a position says of the field.
Named(name, f) ==
    CASE name = "token_confidence" -> f.confidence
      [] name = "layout_certainty" -> Signal(f.layout)
      [] name = "layout_is_missing" -> Flag(f.layout = None)
      [] name = "normalization_confidence" -> Signal(f.norm)
      [] name = "normalization_is_missing" -> Flag(f.norm = None)
      [] name = "validator_pass_ratio" -> PassRatio(f.verdicts)
      [] name = "validator_has_failure" -> Flag(\E v \in f.verdicts : v[2] = "fail")
      [] name = "has_validators" -> Flag(f.verdicts # {})
      [] name = "is_handwritten" -> Flag(f.handwritten)
      [] name = "legibility_score" -> f.legibility
      [] OTHER -> Flag(name \in f.categories)

\* The verdicts a field's features rest on: the last one of each validator.
Verdicts(id, results) == {<<v, LastVerdict(id, results, v)>> : v \in Judging(id, results)}

\* Each position of the vector holds the feature that the list of names has there.
FeaturesAreNamed ==
    case.kind = "features" =>
        LET f == [case.f EXCEPT !.verdicts = Verdicts(case.id, case.results)]
            names == FeatureNames(case.categories, case.indicators)
            vector == Encode(f, case.categories, case.indicators)
        IN /\ Len(names) = Len(vector)
           /\ \A i \in DOMAIN names : vector[i] = Named(names[i], f)

\* No page is on both sides of the split and no label is lost.
PagesIsolated ==
    case.kind = "labels" =>
        LET split == Partition(case.labels, case.num, case.den, case.suite)
        IN /\ split.refused <=> \E l \in Range(case.labels) : l.page \in case.suite
           /\ ~Leaks(split.train, PagesOf(split.eval) \cup case.suite)
           /\ ~split.refused =>
                /\ DOMAIN split.train \cup DOMAIN split.eval = DOMAIN case.labels
                /\ Cardinality(PagesOf(case.labels)) > 1 => DOMAIN split.train # {} /\ DOMAIN split.eval # {}
           /\ \A s \in {l.stratum : l \in Range(case.labels)} :
                Regime(TrainPerStratum(split.train, case.min), s) = "stratum_specific" =>
                    Cardinality({i \in DOMAIN case.labels :
                        /\ case.labels[i].stratum = s
                        /\ case.labels[i].page \notin PagesOf(split.eval)}) >= case.min

\* The calibration error never hides an error: it is at least the difference
\* between what was promised and what came true over all predictions, does not
\* shrink when every bin is split in two, and is at most one (compute_ece).
ErrorsAreCounted ==
    case.kind = "predictions" =>
        LET promised == Total([i \in DOMAIN case.predictions |-> case.predictions[i].confidence])
            true == Total([i \in DOMAIN case.predictions |-> Flag(case.predictions[i].correct)])
            error == CalibrationError(case.predictions, case.bins)
        IN /\ error >= promised - true /\ error >= true - promised
           /\ error <= Scale * Len(case.predictions)
           /\ CalibrationError(case.predictions, 2 * case.bins) >= error

\* A model learns from what it is said to learn from and its error shows: no page
\* is on both sides of the split, a page of the regression suite on neither, a
\* stratum's own model has enough labels of pages that are not held out; a
\* weight never belongs to another feature, with and without the missingness
\* indicators, whose names and values are listed apart; and every prediction
\* counts in the error (partition_training_and_evaluation, encode, compute_ece).
CalibratorIsSound == PagesIsolated /\ FeaturesAreNamed /\ ErrorsAreCounted

-----------------------------------------------------------------------------
(* Maps and strokes.                                                       *)

\* A closed segment and a closed rectangle have a point in common: their boxes
\* meet, and the corners are not all on one side of the segment's line.
Touches(p, q, r) ==
    LET Side(c) == (q[1] - p[1]) * (c[2] - p[2]) - (q[2] - p[2]) * (c[1] - p[1])
        sides == {Side(c) : c \in Range(Corners(r))}
    IN BoxesMeet(p, q, r) /\ (\E s \in sides : s >= 0) /\ (\E s \in sides : s <= 0)

\* A stroke across a value is never missed: it cancels the entry, or, when it
\* only grazes the box, leaves it ambiguous; and only a stroke that touches the
\* box cancels; nothing else makes an entry live or leaves it so
\* (strikethrough.py decides by strict comparisons of cross products).
StrikeNeverMissed ==
    case.kind = "stroke" =>
        LET verdict == ClassifyCancellation(case.rect, {<<case.p, case.q>>}, case.status, case.buffer)
        IN /\ Touches(case.p, case.q, case.rect) => verdict.is_cancelled \/ verdict.is_ambiguous
           /\ verdict.is_cancelled => Touches(case.p, case.q, case.rect)
           /\ verdict.entry_status \in {"live", "amended"} =>
                case.status = verdict.entry_status /\ ~(verdict.is_cancelled \/ verdict.is_ambiguous)

\* At least 1 outside of the ring, and growing with the distance from its box.
DistanceFrom(p, ring) ==
    LET Off(k) == LET axis == {v[k] : v \in Range(ring)}
                  IN Max({0, Min(axis) - p[k], p[k] - Max(axis)})
    IN IF Holds(ring, p) THEN 0 ELSE Max({1, Off(1), Off(2)})

\* On which side of each edge of a convex ring a point is.
SidesOf(p, ring) == {Shoelace(<<ring[i], ring[i + 1], p, ring[i]>>) : i \in 1..(Len(ring) - 1)}
StrictlyIn(p, ring) == (\A s \in SidesOf(p, ring) : s > 0) \/ (\A s \in SidesOf(p, ring) : s < 0)
InOrOn(p, ring) == (\A s \in SidesOf(p, ring) : s >= 0) \/ (\A s \in SidesOf(p, ring) : s <= 0)

\* On parcels that tile the page no label names two of them, a label in or on the
\* border of one parcel never names another, and a parcel with one label, and
\* none of its neighbours' in reach, is named by it (bind_survey_labels takes a
\* label that touches a parcel for one inside it).
LabelsNameOneParcel ==
    case.kind = "bind" =>
        LET at == [p \in DOMAIN case.rings |->
                     [l \in DOMAIN case.labels |-> DistanceFrom(case.labels[l], case.rings[p])]]
            bound == [p \in DOMAIN case.rings |-> BindSurveyLabel(at, case.text, p, case.near)]
        IN \A p \in DOMAIN case.rings :
            /\ bound[p].label # 0 => \A q \in DOMAIN case.rings \ {p} :
                 /\ bound[q].label # bound[p].label
                 /\ ~InOrOn(case.labels[bound[p].label], case.rings[q])
            /\ (\E l \in DOMAIN case.labels : /\ StrictlyIn(case.labels[l], case.rings[p])
                                              /\ DOMAIN case.labels = {l}) =>
                 bound[p].status = "bound"

\* The edges between consecutive points of a line.
EdgesOf(points) ==
    {e \in {{points[i], points[i + 1]} : i \in 1..(Len(points) - 1)} : Cardinality(e) = 2}

\* A closed line that neither crosses nor touches itself, around an area.
IsProper(ring) ==
    LET Area(a, b, c) == Shoelace(<<a, b, c, a>>)
        On(v, a, b) == Area(a, b, v) = 0 /\ (v[1] - a[1]) * (v[1] - b[1]) + (v[2] - a[2]) * (v[2] - b[2]) <= 0
    IN /\ Head(ring) = Last(ring) /\ Cardinality(Range(ring)) = Len(ring) - 1
       /\ \E u, v, w \in Range(ring) : Area(u, v, w) # 0
       /\ \A i \in 1..(Len(ring) - 1) :
             /\ \A v \in Range(ring) \ {ring[i], ring[i + 1]} : ~On(v, ring[i], ring[i + 1])
             /\ \A j \in 1..(Len(ring) - 1) :
                   ~(/\ Area(ring[i], ring[i + 1], ring[j]) * Area(ring[i], ring[i + 1], ring[j + 1]) < 0
                     /\ Area(ring[j], ring[j + 1], ring[i]) * Area(ring[j], ring[j + 1], ring[i + 1]) < 0)

\* A parcel of a page is a proper ring along every edge of a boundary that is not
\* said to be open, with at most one more, from the line's end back to its start,
\* which is invented however long it is (vectorize_parcels closes any line); every
\* proper ring that was drawn is a parcel; others are invented only on a page
\* without boundaries; and a page whose control points lie on one line has none.
ParcelsAreDrawn ==
    case.kind = "map" =>
        LET out == ProcessMapPage(case.page, case.threshold)
            drawn == Range(case.page.boundaries)
        IN /\ drawn # {} =>
                /\ \A ring \in out.parcels : IsProper(ring) /\ \E b \in drawn :
                      /\ b.is_closed /\ EdgesOf(b.points) \subseteq EdgesOf(ring)
                      /\ EdgesOf(ring) \subseteq EdgesOf(b.points) \cup {{Head(b.points), Last(b.points)}}
                /\ case.page.gcps = <<>> => \A b \in drawn :
                      b.is_closed /\ IsProper(b.points) => b.points \in out.parcels
           /\ Len(case.page.gcps) >= 3 /\ out.parcels # {} =>
                \E a, b, c \in Range(case.page.gcps) : Shoelace(<<a, b, c, a>>) # 0
           /\ out.ulpin_eligible /\ Len(case.page.gcps) > 3 => case.page.error <= case.threshold

\* What stands on a sheet is what was drawn on it: a stroke over an entry, a
\* boundary, the label written in it (strikethrough.py, vectorize_parcels and
\* bind_survey_labels, each judged by another geometry).
MapIsFaithful == StrikeNeverMissed /\ LabelsNameOneParcel /\ ParcelsAreDrawn

-----------------------------------------------------------------------------
(* Text, tables and records.                                               *)

\* Every owner found on a page is in a binding, except on a page without
\* parcels; and is in two only just above a parcel, within the slack
\* (extract_relationships gives each parcel the owners of its band).
OwnersArePlaced ==
    case.kind = "owners" =>
        LET bindings == ExtractRelationships(case.parcels, case.owners, case.shares, case.slack)
            Of(o) == {b \in bindings : o \in b.owners}
        IN \A o \in DOMAIN case.owners :
            /\ case.parcels # <<>> \/ Len(case.owners) = 1 => Of(o) # {}
            /\ Cardinality(Of(o)) > 1 =>
                 \E p \in Range(case.parcels) : case.owners[o] \in (p - case.slack)..(p - 1)

\* Without ruled lines, every token at least as wide as the tolerance and the
\* inset is in a cell of the table, and no token is in a cell to the left of a
\* token that begins before it; a merged cell holds its tokens and ends within
\* the table, when they do (the cuts, the cells and their spans are found apart).
TokensAreKept ==
    case.kind = "table" =>
        LET cuts == Cuts(case.lines, case.tokens, case.tolerance)
            Cell(t) == CellOf(t, cuts, case.inset)
        IN /\ case.lines = {} =>
                \A t \in case.tokens : t.w >= case.tolerance + case.inset => Cell(t) # NoCell
           /\ \A t \in case.tokens :
                LET c == Cell(t)
                    span == ColSpan(c, {u \in case.tokens : Cell(u) = c}, cuts)
                    Width(k) == Cardinality({j \in cuts : c < j /\ j <= k})
                IN c # NoCell /\ (\A u \in case.tokens : u.x + u.w <= Max(cuts)) =>
                     Width(Max(cuts)) >= span /\ \A k \in cuts : Width(k) >= span => t.x + t.w <= k
           /\ \A t, u \in case.tokens :
                t.x < u.x /\ t.w >= 2 * case.inset /\ u.w >= 2 * case.inset
                  /\ Cell(t) # NoCell /\ Cell(u) # NoCell => Cell(t) <= Cell(u)

\* Nothing that was read falls between two rows, two columns or two parcels
\* (extract_relationships and the cells of table_extractor.py).
LayoutIsKept == OwnersArePlaced /\ TokensAreKept

\* The route of a page's regions decides what is read of it: no text of a page of
\* maps, every token of a page with print or a table on it, and under no field's
\* name what the missing handwriting engine answers.
PageIsRead ==
    case.kind = "page" =>
        LET routes == PageRoutes(case.page)
            read == {r[2] : r \in ProcessPageText(case.page)}
            tokens == case.page.tokens
        IN /\ case.page.route = {} => RoutesText(case.page) \/ RoutesMap(case.page)
           /\ Times("non_text_map", routes) = Len(routes) =>
                read = {} /\ DominantRoute(routes) = "non_text_map"
           /\ DominantRoute(routes) \in {"printed_text", "ruled_table"} /\ case.page.image
                /\ ~case.page.engine_fails => tokens \subseteq read
           /\ \A t \in read \ tokens : ClassifyFieldName(t, case.page.doc) = "text_line"

\* Missing pages, conflicts and the extractions kept, in any order of the pages.
AssemblyIsSound ==
    case.kind = "record" =>
        LET record == Assemble(case.extractions, case.metas)
            indices == {m.index : m \in Range(case.metas)}
            pages == {m.page : m \in Range(case.metas)}
            Values(f) == {e.value : e \in {d \in Range(case.extractions) :
                                             d.field = f /\ d.page \in pages}}
        IN /\ record.missing = {i \in Min(indices)..Max(indices) : i \notin indices}
           /\ \A f \in {e.field : e \in Range(case.extractions)} :
                /\ Cardinality(Values(f) \ {Unread}) > 1 => f \in record.conflicts
                /\ f \in record.conflicts => Cardinality(Values(f)) > 1
           /\ record.extraction_ids = {e.id : e \in {d \in Range(case.extractions) : d.page \in pages}}
           /\ record.strategy = "single_page" => \A d, e \in Range(case.extractions) :
                {d.id, e.id} \subseteq record.extraction_ids => d.page = e.page
           /\ case.extractions # <<>> =>
                LET own == Assemble(case.extractions, DefaultMetas(case.extractions))
                IN own.missing = {} /\ own.extraction_ids = {e.id : e \in Range(case.extractions)}

\* What is read reaches the record: the pages found missing are those between the
\* first and the last that are not there, in whatever order the pages came; two
\* different readings of a field are a conflict, and one reported without them
\* has an empty reading; only extractions of unknown pages are left out; and a
\* page's print is read unless its regions are maps (region_router.py,
\* pipeline.py and record_assembly.py, one after the other).
ReadingsReachTheRecord == PageIsRead /\ AssemblyIsSound

-----------------------------------------------------------------------------
(* Reads.                                                                  *)

\* One of the texts or crops of what is shown is as stored.
InClear(shown) == \E part \in DOMAIN shown : shown[part] \in {"text", "url"}

\* Personal data leaves in the clear only by the unmasked read, by a holder of its
\* permission, with a purpose, and with the check and the read in the audit log;
\* the log claims no read that was not answered; all parts of a field are shown or
\* none; and what is not personal is shown to every reader (access_control.py,
\* landmasking/policy.py, serializers.py and unmasked_read.py, one after the other).
DisclosureIsLogged ==
    case.kind = "read" =>
        LET answer == Read(case)
            personal == {i \in DOMAIN case.db : case.db[i].class \in {"owner_name", "relationship", "address"}}
            logged == Len(answer.audit) = 2
        IN /\ (DOMAIN case.db = personal /\ \E s \in answer.shown : InClear(s)) => logged
           /\ logged => /\ answer.status = 200
                        /\ answer.audit[2] = <<"field.unmasked_read", "stated">>
                        /\ \E role \in case.roles :
                             \A other \in Role \ case.roles :
                               "record.read.unmasked" \in PermissionMatrix[role] \ PermissionMatrix[other]
           /\ case.roles # Absent => answer.audit # <<>> /\ (answer.status = 403 <=> answer.audit[1][1] = "rbac.denied")
           /\ answer.status # 200 => answer.shown = {}
           /\ \A s \in answer.shown :
                InClear(s) => \A part \in DOMAIN s : s[part] # "masked"
           /\ case.route = "record" /\ answer.status = 200 =>
                \A i \in case.listed \cap DOMAIN case.db : i \notin personal =>
                    \E s \in answer.shown : s.value = case.db[i].value /\ s.raw = case.db[i].raw

\* Rows derived from the old records change no answer, nor does what a row says of
\* its source; a set that is served has the codes of one trusted provenance, all of
\* them and of its corpus alone; an unknown set and an empty one differ; and a set
\* for one district has no code of another (closed_sets.py).
CorpusIsLawful ==
    case.kind = "corpus" =>
        LET answer == GetClosedSet(case.entries, case.pointers, case.district)
            trusted == {e \in case.entries : e.provenance # "lrms"}
            Served(c) == {e \in trusted : e.code = c /\ e.version = answer.version}
        IN /\ answer = GetClosedSet({[e EXCEPT !.source = "lrms"] : e \in trusted}, case.pointers, case.district)
           /\ answer.error = "unknown" <=> {case.pointers.global, IF case.district = Absent THEN Absent
                                                                ELSE case.pointers.district} = {Absent}
           /\ answer.error = Absent =>
                /\ \A c \in answer.codes : \E e \in Served(c) :
                     /\ e.provenance = answer.source
                     /\ case.district # Absent => e.district \notin {"d1", "d2"} \ {case.district}
                /\ \A e \in trusted :
                     e.version = answer.version /\ e.district = Absent => e.code \in answer.codes

\* A row is of a trusted provenance only if its loader had run before it in the
\* same transaction, which was not rolled back (closed_set_loaders.py and the
\* trigger of migration 0008).
TrustIsLoaded ==
    case.kind = "session" =>
        \A row \in case.session.rows : row.provenance \in LawfulProvenances =>
            \E i \in 1..row.at :
                /\ case.done[i] = [op |-> "load", provenance |-> row.provenance]
                /\ \A j \in i..row.at : case.done[j].op \notin {"commit", "rollback"}

\* What leaves the backend has been earned: see the three parts.
ReadsAreLawful == DisclosureIsLogged /\ CorpusIsLawful /\ TrustIsLoaded
=============================================================================
