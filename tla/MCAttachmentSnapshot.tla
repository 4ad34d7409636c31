------------------------- MODULE MCAttachmentSnapshot -------------------------
(* Bounded instance of AttachmentSnapshot: every upload declares one unit.   *)
EXTENDS AttachmentSnapshot

MCDeclared == [S \in SUBSET Uploads |-> Cardinality(S)]
=============================================================================
