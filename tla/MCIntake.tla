------------------------------- MODULE MCIntake -------------------------------
(* One file comes twice, once by the API (a) and once by the drop folder (f). *)
EXTENDS Intake

CONSTANTS a, f, g

MCDigestOf == [s \in Source |-> g]
MCClassOf == <<[doc_type |-> "fmb_sketch", page_role |-> "text"]>>
=============================================================================
