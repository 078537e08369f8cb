------------------------------- MODULE TextLane -------------------------------
(***************************************************************************)
(* The text side of the extraction service: which lane and which engine    *)
(* read a page, the field a token belongs to, the binding of owners and    *)
(* shares to parcels, the cells of a ruled table, and the assembly of a    *)
(* record from its pages.                                                  *)
(*                                                                         *)
(* A position is a whole number; a reading is a value or Unread.  The      *)
(* pixel distances of the code are parameters.                             *)
(***************************************************************************)
EXTENDS Integers, Sequences, FiniteSetsExt, SequencesExt

Unread == "unread"

-----------------------------------------------------------------------------
(* Lanes and regions.                                                      *)

IsMapSheet(page) == page.role = "map_sheet" \/ page.doc \in {"cadastral_map", "fmb_sketch"}

RoutesText(page) ==
    \/ "text" \in page.route
    \/ page.role \in {"text", "tabular_register", "endorsement"}
    \/ page.route = {} /\ ~IsMapSheet(page)

RoutesMap(page) == page.route \cap {"map", "non_text_map", "map_lane"} # {} \/ IsMapSheet(page)

\* hints: what the region's flags and type say of it.
RegionRoute(hints) ==
    CASE "map" \in hints -> "non_text_map"
      [] "map" \notin hints /\ "table" \in hints -> "ruled_table"
      [] hints \cap {"map", "table"} = {} /\ "handwritten" \in hints -> "handwritten_text"
      [] OTHER -> "printed_text"

\* The routes of the page's regions; without regions, of the whole page.
PageRoutes(page) ==
    IF page.regions # <<>> THEN [i \in DOMAIN page.regions |-> RegionRoute(page.regions[i])]
    ELSE CASE IsMapSheet(page) -> <<"non_text_map">>
           [] ~IsMapSheet(page) /\ page.role = "tabular_register" -> <<"ruled_table">>
           [] ~IsMapSheet(page) /\ page.role = "endorsement" -> <<"handwritten_text">>
           [] OTHER -> <<"printed_text">>

Times(route, routes) == Cardinality({i \in DOMAIN routes : routes[i] = route})
DominantRoute(routes) ==
    routes[Min({i \in DOMAIN routes :
                 \A j \in DOMAIN routes : Times(routes[j], routes) <= Times(routes[i], routes)})]

\* A mutant: maps go through the printed engine as well.
TokensOfAnyRegion(route, tokens) ==
    IF route = "handwritten_text" THEN {[words |-> {}, shape |-> "unsupported"]} ELSE tokens

\* The printed engine, for a table too, is given the whole page's image.
TokensOfRegion(route, tokens) ==
    CASE route = "non_text_map" -> {}
      [] route = "handwritten_text" -> {[words |-> {}, shape |-> "unsupported"]}
      [] OTHER -> tokens

\* What is extracted, each with the region it was read for: tokens, a set, again
\* for every printed region.  One engine that raises leaves the page without.
ProcessPageText(page) ==
    LET routes == PageRoutes(page)
        Raises(route) == page.engine_fails /\ route \in {"printed_text", "ruled_table"}
    IN IF ~page.image \/ \E i \in DOMAIN routes : Raises(routes[i]) THEN {}
       ELSE UNION {{i} \X TokensOfRegion(routes[i], page.tokens) : i \in DOMAIN routes}

-----------------------------------------------------------------------------
(* Fields.  words: the keyword groups found in the token's text.           *)

Precedence ==
    <<"mutation_reference", "date", "relationship", "survey_number", "khata_number", "area",
      "land_classification", "share_fraction", "owner_name">>

ClassifyFieldName(token, doc) ==
    CASE token.words # {} ->
            Precedence[Min({i \in DOMAIN Precedence : Precedence[i] \in token.words})]
      [] token.words = {} /\ token.shape = "fraction" /\ doc \in {"ror", "khasra_khatauni"} -> "survey_number"
      [] token.words = {} /\ token.shape = "fraction" /\ doc = "jamabandi" -> "share_fraction"
      [] token.words = {} /\ token.shape = "number" /\ doc = "jamabandi" -> "khata_number"
      [] OTHER -> "text_line"

-----------------------------------------------------------------------------
(* Owners, shares and parcels, by their heights on the page.               *)

\* In the order of heights, in which sorted() leaves equal ones as they came.
Below(q, p, parcels) == parcels[q] > parcels[p] \/ (parcels[q] = parcels[p] /\ q > p)

\* A mutant: a band begins at its parcel.
BandBelow(heights, p, parcels, slack) ==
    {i \in DOMAIN heights :
        /\ heights[i] >= parcels[p]
        /\ \A q \in DOMAIN parcels : Below(q, p, parcels) => heights[i] < parcels[q]}

\* The band of a parcel begins a little above it and ends at the next parcel.
Band(heights, p, parcels, slack) ==
    {i \in DOMAIN heights :
        /\ heights[i] >= parcels[p] - slack
        /\ \A q \in DOMAIN parcels : Below(q, p, parcels) => heights[i] < parcels[q]}

FirstOf(S) == IF S = {} THEN 0 ELSE Min(S)

\* Parcel 0, share 0: none.
Binding(parcel, owners, share, ambiguous) ==
    [parcel |-> parcel, owners |-> owners, share |-> share, ambiguous |-> ambiguous]

ExtractRelationships(parcels, owners, shares, slack) ==
    LET first == IF parcels = <<>> THEN 0 ELSE Min(Range(parcels))
        Of(p) == Band(owners, p, parcels, slack)
        Share(p) == FirstOf(Band(shares, p, parcels, slack))
        above == {o \in DOMAIN owners : owners[o] < first - slack}
    IN IF Len(parcels) <= 1 /\ Len(owners) <= 1
       THEN {Binding(Len(parcels), DOMAIN owners, FirstOf(DOMAIN shares),
                     Len(parcels) = 0 \/ Len(owners) = 0)}
       ELSE {Binding(p, Of(p), Share(p),
                     Of(p) = {} \/ (Len(parcels) > 1 /\ Cardinality(Of(p)) > 2 /\ Share(p) = 0))
               : p \in DOMAIN parcels}
            \cup (IF above = {} THEN {} ELSE {Binding(0, above, 0, TRUE)})

-----------------------------------------------------------------------------
(* Ruled tables, one axis: a token is [x, w].  A cell is named by the cut  *)
(* it begins at.                                                           *)

\* A mutant: the cuts are compared with the first one of the axis.
ClusterFromFirst(coordinates, tolerance) ==
    {c \in coordinates : (c - Min(coordinates)) % tolerance = 0}

\* A coordinate closer than the tolerance to the cut before it is noise.
Cluster(coordinates, tolerance) ==
    CHOOSE cuts \in SUBSET coordinates :
        \A c \in coordinates : c \in cuts <=> \A k \in cuts : k < c => c - k >= tolerance

\* The cuts: the given lines, or the ends of the tokens (and of the table).
Cuts(lines, tokens, tolerance) ==
    LET ends == {t.x : t \in tokens} \cup {t.x + t.w : t \in tokens}
        cuts == Cluster(IF lines # {} THEN lines ELSE ends, tolerance)
    IN IF Cardinality(cuts) >= 2 THEN cuts ELSE {Min(ends), Max(ends)}

\* Where a token is looked for; times two, so that half of a width is whole.
Anchor(token, inset) == 2 * token.x + Min({2 * inset, token.w})

\* The cells that hold the anchor.  A token goes to the first of them.
CellsOf(token, cuts, inset) ==
    LET After(c) == {k \in cuts : k > c}
    IN {c \in cuts : /\ 2 * c <= Anchor(token, inset) /\ After(c) # {}
                     /\ \A k \in After(c) : Anchor(token, inset) <= 2 * k}

NoCell == -1
CellOf(token, cuts, inset) ==
    LET cells == CellsOf(token, cuts, inset) IN IF cells = {} THEN NoCell ELSE Min(cells)

ColSpan(cell, tokens, cuts) ==
    Max({1} \cup {1 + Cardinality({k \in cuts : cell < k /\ k < t.x + t.w}) : t \in tokens})

-----------------------------------------------------------------------------
(* Assembly.  An extraction is [id, page, field, value]; metas are indexed *)
(* by numbers, each is [page, index, role].                                *)

\* Without metadata the pages are numbered as they appear.
DefaultMetas(extractions) ==
    LET first == {i \in DOMAIN extractions : \A j \in 1..(i - 1) : extractions[j].page # extractions[i].page}
    IN [i \in first |-> [page |-> extractions[i].page, role |-> "none",
                         index |-> Cardinality({j \in first : j <= i})]]

\* A mutant: the gaps are looked for in the order the pages were given.
AsGiven(k, l, metas) == k < l

\* The order of the pages: by their index, and of one index as they were given.
Before(k, l, metas) ==
    metas[k].index < metas[l].index \/ (metas[k].index = metas[l].index /\ k < l)

\* The indices between two pages of which one follows the other.
MissingPages(metas) ==
    LET Follows(l, k) == /\ Before(k, l, metas)
                         /\ \A m \in DOMAIN metas : ~(Before(k, m, metas) /\ Before(m, l, metas))
        Gap(k, l) == IF Follows(l, k) THEN (metas[k].index + 1)..(metas[l].index - 1) ELSE {}
    IN UNION {Gap(k, l) : k, l \in DOMAIN metas}

\* The extractions that are kept, each at the page it is kept for; those of a
\* page that has no metadata are left out.
Kept(extractions, metas) ==
    {p \in (DOMAIN metas) \X (DOMAIN extractions) : extractions[p[2]].page = metas[p[1]].page}

Earlier(p, q, metas) == Before(p[1], q[1], metas) \/ (p[1] = q[1] /\ p[2] < q[2])

\* A later reading that is a value and was not read before.
Conflicting(field, extractions, metas) ==
    LET of == {p \in Kept(extractions, metas) : extractions[p[2]].field = field}
        Preceding(p) == {q \in of : Earlier(q, p, metas)}
    IN \E p \in of :
        /\ extractions[p[2]].value # Unread /\ Preceding(p) # {}
        /\ \A q \in Preceding(p) : extractions[q[2]].value # extractions[p[2]].value

Strategy(metas) ==
    CASE \E m \in Range(metas) : m.role = "carried_forward" -> "carried_forward"
      [] \A m \in Range(metas) : m.role # "carried_forward" ->
            IF Cardinality(DOMAIN metas) > 1 \/ \E m \in Range(metas) : m.role \in {"continuation", "endorsement"}
            THEN "continuation" ELSE "single_page"

Assemble(extractions, metas) ==
    LET kept == {extractions[p[2]] : p \in Kept(extractions, metas)}
    IN [extraction_ids |-> {e.id : e \in kept},
        missing |-> MissingPages(metas),
        strategy |-> Strategy(metas),
        conflicts |-> {f \in {e.field : e \in kept} : Conflicting(f, extractions, metas)}]
=============================================================================
