------------------------------ MODULE MCAlgorithms ------------------------------
(* Bounded inputs for the algorithms, one set of records for each kind.    *)
EXTENDS Algorithms

MCMin == [shadow |-> 1, ramp |-> 2, recovery |-> 1]
MCEvidence == [samples : 0..2, verified : BOOLEAN, alert : BOOLEAN, recovered : BOOLEAN]

\* A field "f" of stratum "s1" or "s2", with up to two results.
ResultsOf(validators, fields) ==
    BoundedSeq([validator : validators, verdict : {"pass", "fail"}, fields : fields], 2)
Detectors == {None} \cup {[prototypes |-> p, threshold |-> t] : t \in {1, Scale},
                p \in {<<>>} \cup [{"s1"} -> {0, 2}] \cup [{"s1", "s2"} -> {1}]}
Pinned == {"confidence_calibrator", "config", "novelty_detector"}
RouteInputs ==
    [kind : {"route"},
     x : [id : {"f"}, stratum : {"s1", "s2"}, writer : {None}, doc : {"d"}, embedding : {None, 3, 6},
          results : ResultsOf({"v1"}, {{"f"}, {"g"}}), pinned : {Pinned, Pinned \ {"novelty_detector"}},
          novelty_score : {0}, outside : BOOLEAN, conflict : {FALSE}],
     answer : {-1, 2, 3, 5}, detector : Detectors, target : {1, 2},
     state : {"shadow", "ramp", "steady", "regression"}, sample : {FALSE}]

FeatureInputs ==
    [kind : {"features"}, id : {"f"}, results : ResultsOf({"v1", "v2"}, {{"f"}, {"g"}, {"f", "g"}}),
     f : [confidence : {3}, layout : {None, 1}, norm : {None, 4}, verdicts : {{}},
          handwritten : BOOLEAN, legibility : {0}, categories : {{}, {"khasra"}}],
     categories : {<<"khasra", "jamabandi">>, <<>>}, indicators : BOOLEAN]

LabelInputs ==
    [kind : {"labels"}, labels : BoundedSeq([page : 1..3, stratum : {"s1", "s2"}], 4),
     num : {1, 4}, den : {5}, suite : {{}, {2}}, min : {2}]

PredictionInputs ==
    [kind : {"predictions"}, predictions : BoundedSeq([confidence : 0..4, correct : BOOLEAN], 3),
     bins : {1, 2, 3}]

Grid(n) == (0..n) \X (0..n)

StrokeInputs ==
    [kind : {"stroke"}, p : Grid(5), q : Grid(5), buffer : {1},
     rect : {[lo |-> <<1, 1>>, hi |-> <<2, 2>>], [lo |-> <<2, 1>>, hi |-> <<4, 2>>]},
     status : {"live", "superseded", "defaced"}]

\* A square cut in two along its diagonal, and a square beside it.
Tiling ==
    <<<<<<1, 1>>, <<3, 1>>, <<3, 3>>, <<1, 1>>>>,
      <<<<1, 1>>, <<3, 3>>, <<1, 3>>, <<1, 1>>>>,
      <<<<3, 1>>, <<5, 1>>, <<5, 3>>, <<3, 3>>, <<3, 1>>>>>>
\* Four times as large, so that the triangles have points within.
BindInputs ==
    [kind : {"bind"},
     rings : {[i \in 1..3 |-> [k \in DOMAIN Tiling[i] |-> <<2 * Tiling[i][k][1], 2 * Tiling[i][k][2]>>]]},
     labels : Grid(7) \X Grid(7), text : {<<"1", "1">>, <<"1", "2">>}, near : {2}]
       \cup [kind : {"bind"},
             rings : {[i \in 1..3 |-> [k \in DOMAIN Tiling[i] |-> <<2 * Tiling[i][k][1], 2 * Tiling[i][k][2]>>]]},
             labels : {<<p>> : p \in Grid(12)}, text : {<<"1">>}, near : {2}]

Lines(n) == {s \in BoundedSeq(Grid(2), n) : Len(s) >= 3}
MapInputs ==
    [kind : {"map"}, threshold : {1},
     page : [gcps : {<<>>}, error : {0},
             boundaries : {<<[points |-> s \o back, is_closed |-> c]>> :
                             s \in {t \in Lines(4) : t[1] = <<0, 0>>}, back \in {<<>>, <<<<0, 0>>>>}, c \in BOOLEAN}]
            \cup [gcps : BoundedSeq({<<0, 0>>, <<1, 1>>, <<2, 2>>, <<0, 2>>}, 4), error : {0, 2},
                  boundaries : {<<>>, <<[points |-> <<<<0, 0>>, <<2, 0>>, <<0, 2>>, <<0, 0>>>>, is_closed |-> TRUE]>>}]]

OwnerInputs ==
    [kind : {"owners"}, parcels : BoundedSeq({3, 5, 9}, 3), owners : BoundedSeq(1..10, 2),
     shares : {<<>>, <<4>>}, slack : {2}]

Token == [x : 0..5, w : 1..5]
Narrow == [x : 0..5, w : {2, 3}]
TableInputs ==
    [kind : {"table"}, lines : {{}, {0, 4}, {0, 3, 4, 7}}, tolerance : {2}, inset : {1},
     tokens : {{t, u} : t, u \in Token} \cup {{t, u, v} : t, u, v \in Narrow}]

Extractions ==
    {[i \in DOMAIN s |-> [id |-> i, page |-> s[i][1], field |-> "area", value |-> s[i][2]]] :
       s \in BoundedSeq({"p", "q", "r"} \X {Unread, "1", "2"}, 3)}
RecordInputs ==
    [kind : {"record"}, extractions : Extractions,
     metas : {<<[page |-> "p", index |-> i, role |-> "text"], [page |-> "q", index |-> j, role |-> r]>> :
                i, j \in 1..4, r \in {"text", "continuation"}}
             \cup {<<[page |-> "q", index |-> 5, role |-> "text"], [page |-> "p", index |-> i, role |-> "text"],
                     [page |-> "r", index |-> 2, role |-> "endorsement"]>> : i \in {1, 7}}]

Tokens == {{}, {[words |-> {"date", "area"}, shape |-> "text"], [words |-> {}, shape |-> "fraction"]}}
PageInputs ==
    [kind : {"page"},
     page : [role : {"text", "map_sheet", "tabular_register", "endorsement", "cover"},
             doc : {"ror", "jamabandi", "cadastral_map"}, route : SUBSET {"text", "map", "audit"},
             regions : BoundedSeq({{}, {"map"}, {"table", "handwritten"}, {"handwritten"}}, 3),
             image : BOOLEAN, engine_fails : BOOLEAN, tokens : Tokens]]

Edits == {{}, {[predicted |-> "text", corrected |-> Absent]}, {[predicted |-> "text", corrected |-> "text"]}}
Fields ==
    [class : {"owner_name", "area"}, value : {Absent, "text"}, raw : {Absent, "text"}, bbox : BOOLEAN,
     page : BOOLEAN, edits : Edits]
Databases ==
    {<<>>} \cup {<<e>> : e \in Fields}
      \cup {<<d, e>> : d, e \in {f \in Fields : f.bbox /\ f.page /\ f.value = "text" /\ f.edits = {}}}
ReadInputs ==
    [kind : {"read"}, route : {"record", "provenance", "unmasked"},
     roles : {Absent} \cup {R \in SUBSET Role : Cardinality(R) \in 1..2}, purpose : {"stated", "blank"},
     wanted : {Absent, 2}, versions : {{}, {1}, {1, 2}}, listed : {{1, 2, 3}}, id : {1}, db : Databases]

Rows ==
    [district : {Absent, "d1", "d2"}, provenance : {"schema", "lgd", "lrms"}, source : {"schema", "lrms"},
     version : {"v1", "v2"}, code : {"a", "b"}]
CorpusInputs ==
    [kind : {"corpus"}, entries : {{a, b} : a, b \in {r \in Rows : r.source = "schema" \/ r.code = "a"}},
     pointers : [global : {Absent, "v1"}, district : {Absent, "v2"}], district : {Absent, "d1"}]

MCInputs ==
    [route |-> RouteInputs, features |-> FeatureInputs, labels |-> LabelInputs,
     predictions |-> PredictionInputs, stroke |-> StrokeInputs, bind |-> BindInputs,
     map |-> MapInputs, owners |-> OwnerInputs, table |-> TableInputs, record |-> RecordInputs,
     page |-> PageInputs, read |-> ReadInputs, corpus |-> CorpusInputs]
=============================================================================
