----------------------------- MODULE MCExtraction -----------------------------
(* Two callers, two verticals, and texts that fit in one chunk or do not.   *)
EXTENDS Extraction

CONSTANTS d1, u1, e1, e2, brief, revised, long

MCLengthOf == [t \in Text |-> IF t = long THEN 9 ELSE 3]
MCMentions == [t \in Text |-> IF t = brief THEN {e1} ELSE {e1, e2}]
MCRelated == {<<e1, e2>>}
MCBatch == {<<>>, <<[doc |-> d1, text |-> brief], [doc |-> d1, text |-> revised]>>}
=============================================================================
