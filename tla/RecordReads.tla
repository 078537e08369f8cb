------------------------------- MODULE RecordReads -------------------------------
(***************************************************************************)
(* What leaves the backend: records, provenance and unmasked fields behind *)
(* the permission matrix and the masking policy, with the audit entries a  *)
(* request leaves, and the closed sets with the loaders that write them.   *)
(* A text is Absent, "text" as stored, or "masked"; a crop is Absent or "url". *)
(***************************************************************************)
EXTENDS Naturals, Sequences, FiniteSets, SequencesExt, FiniteSetsExt

CONSTANT Absent

ASSUME AbsentAssumption ==
    Absent \notin {"text", "url", "masked", "unknown", "inconsistent", "d1", "d2", "schema", "lgd"}

-----------------------------------------------------------------------------
(* Who may do what.                                                        *)

PermissionMatrix ==
    [operator |-> {"document.ingest", "review.claim", "review.submit", "record.read.masked"},
     verifier |-> {"review.claim", "review.submit", "review.confirm", "conflict.read",
                   "record.read.masked", "provenance.read"},
     supervisor |-> {"review.confirm", "conflict.read", "conflict.assign", "conflict.transition",
                     "record.read.masked", "record.publish", "provenance.read", "dashboard.read"},
     auditor |-> {"conflict.read", "record.read.masked", "provenance.read",
                  "record.read.unmasked", "chain.verify", "dashboard.read"},
     administrator |-> {"document.ingest", "config.write", "training_store.read",
                        "record.read.masked", "dashboard.read"}]

Role == DOMAIN PermissionMatrix

Has(roles, permission) == \E r \in roles : permission \in PermissionMatrix[r]

\* The first of the roles by name.
PrimaryRole(roles) ==
    LET names == <<"administrator", "auditor", "operator", "supervisor", "verifier">>
    IN names[Min({i \in DOMAIN names : names[i] \in roles})]

-----------------------------------------------------------------------------
(* Masking.                                                                *)

PersonalData == {"owner_name", "relationship", "address"}
Hidden(class, role) == class \in PersonalData /\ role # "auditor_unmasked_read"

Covered(text) == IF text = Absent THEN Absent ELSE "masked"

\* A mutant: the value is masked, its raw form and its crop are not.
MaskValueOnly(value, raw, crop, class, role) ==
    IF Hidden(class, role)
    THEN [value |-> Covered(value), raw |-> raw, crop |-> crop]
    ELSE [value |-> value, raw |-> raw, crop |-> crop]

MaskApply(value, raw, crop, class, role) ==
    IF Hidden(class, role)
    THEN [value |-> Covered(value), raw |-> Covered(raw), crop |-> Absent]
    ELSE [value |-> value, raw |-> raw, crop |-> crop]

Crop(e) == IF e.bbox /\ e.page THEN "url" ELSE Absent

\* A field of a record view: a crop is signed only for what is not masked.
MaskExtraction(e, role) ==
    MaskApply(e.value, e.raw, IF Hidden(e.class, role) THEN Absent ELSE Crop(e), e.class, role)

\* An edit of a field, masked as its raw form is.
MaskEdit(edit, class, role) ==
    [predicted |-> MaskApply(Absent, edit.predicted, Absent, class, role).raw,
     corrected |-> MaskApply(Absent, edit.corrected, Absent, class, role).raw]

-----------------------------------------------------------------------------
(* The three routes that read.  An answer is its status, what it shows and *)
(* the audit entries that are committed with it.                           *)

Answer(status, shown, audit) == [status |-> status, shown |-> shown, audit |-> audit]
Checked(permission) == <<"rbac.checked", permission>>
Denied(permission) == <<"rbac.denied", permission>>

\* require_permission: the check is committed before the route begins.
Guarded(roles, permission, answer) ==
    CASE roles = Absent              -> Answer(401, {}, <<>>)
      [] OTHER -> IF Has(roles, permission) THEN answer
                  ELSE Answer(403, {}, <<Denied(permission)>>)

GetRecord(r) ==
    LET permission == "record.read.masked"
        found == IF r.wanted = Absent THEN r.versions ELSE r.versions \cap {r.wanted}
        shown == {MaskExtraction(r.db[i], PrimaryRole(r.roles)) : i \in r.listed \cap DOMAIN r.db}
    IN Guarded(r.roles, permission,
               IF found = {} THEN Answer(404, {}, <<Checked(permission)>>)
               ELSE Answer(200, shown, <<Checked(permission)>>))

GetProvenance(r) ==
    LET permission == "provenance.read"
    IN Guarded(r.roles, permission,
               IF r.id \notin DOMAIN r.db THEN Answer(404, {}, <<Checked(permission)>>)
               ELSE Answer(200, {MaskEdit(h, r.db[r.id].class, PrimaryRole(r.roles)) : h \in r.db[r.id].edits},
                           <<Checked(permission)>>))

ReadUnmasked(r) ==
    LET permission == "record.read.unmasked"
        check == <<Checked(permission)>>
    IN Guarded(r.roles, permission,
               CASE r.purpose = "blank" -> Answer(422, {}, check)
                 [] r.purpose # "blank" /\ r.id \notin DOMAIN r.db -> Answer(404, {}, check)
                 [] OTHER ->
                      LET e == r.db[r.id]
                      IN Answer(200,
                                {MaskApply(e.value, e.raw, Crop(e), e.class, "auditor_unmasked_read")},
                                <<Checked(permission), <<"field.unmasked_read", r.purpose>>>>))

Read(r) ==
    CASE r.route = "record"     -> GetRecord(r)
      [] r.route = "provenance" -> GetProvenance(r)
      [] r.route = "unmasked"   -> ReadUnmasked(r)

-----------------------------------------------------------------------------
(* Closed sets.                                                            *)

LawfulProvenances == {"schema", "lgd"}

\* The configured corpus: the district's own, else the one for all; Absent when
\* there is neither.
CorpusVersion(pointers, district) ==
    IF district # Absent /\ pointers.district # Absent THEN pointers.district ELSE pointers.global

Visible(e, version, district) ==
    e.version = version /\ (district # Absent => e.district \in {district, Absent})

\* A mutant: what a row says of its own source is believed.
LawfulBySource(entries) == {e \in entries : e.source \in LawfulProvenances}

Lawful(entries) == {e \in entries : e.provenance \in LawfulProvenances}

GetClosedSet(entries, pointers, district) ==
    LET version == CorpusVersion(pointers, district)
        rows == {e \in Lawful(entries) : Visible(e, version, district)}
        provenances == {e.provenance : e \in rows}
    IN CASE version = Absent -> [error |-> "unknown"]
         [] version # Absent /\ (\E p, q \in provenances : p # q) -> [error |-> "inconsistent"]
         [] OTHER -> [error |-> Absent,
                      codes |-> {e.code : e \in rows},
                      source |-> IF rows = {} THEN "schema" ELSE CHOOSE p \in provenances : TRUE,
                      version |-> version]

\* A session writes entries: a loader sets the transaction's provenance and
\* inserts under it, any other code inserts as it likes, and the trigger
\* refuses a trusted provenance that is not the one set.
NewSession == [setting |-> Absent, pending |-> {}, rows |-> {}, broken |-> FALSE]

InsertEntry(s, provenance, i) ==
    IF provenance \in LawfulProvenances /\ s.setting # provenance
    THEN [s EXCEPT !.broken = TRUE]
    ELSE [s EXCEPT !.pending = @ \cup {[at |-> i, provenance |-> provenance]}]

\* A mutant: SET in the place of SET LOCAL.
EndKeepingSetting(s, keep) ==
    [s EXCEPT !.pending = {}, !.broken = FALSE,
              !.rows = @ \cup (IF keep /\ ~s.broken THEN s.pending ELSE {})]

EndTransaction(s, keep) ==
    [s EXCEPT !.setting = Absent, !.pending = {}, !.broken = FALSE,
              !.rows = @ \cup (IF keep /\ ~s.broken THEN s.pending ELSE {})]

Statement ==
    [op : {"load"}, provenance : LawfulProvenances]
      \cup [op : {"insert"}, provenance : LawfulProvenances \cup {"lrms"}]
      \cup [op : {"commit", "rollback"}, provenance : {Absent}]

\* The i-th statement of a session; in a broken transaction only its end counts.
Execute(s, statement, i) ==
    CASE statement.op = "commit"   -> EndTransaction(s, TRUE)
      [] statement.op = "rollback" -> EndTransaction(s, FALSE)
      [] statement.op = "load" /\ ~s.broken ->
           InsertEntry([s EXCEPT !.setting = statement.provenance], statement.provenance, i)
      [] statement.op = "insert" /\ ~s.broken -> InsertEntry(s, statement.provenance, i)
      [] OTHER -> s
=============================================================================
