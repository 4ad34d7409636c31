------------------------------ MODULE MCUploads ------------------------------
(* Bounded instances of Uploads.                                            *)
EXTENDS Uploads, TLC

CONSTANTS DeclaredSize, ActualSize   \* bytes of one upload, in units

MCDeclared == [S \in SUBSET Uploads |-> DeclaredSize * Cardinality(S)]
MCActual   == [S \in SUBSET Uploads |-> ActualSize * Cardinality(S)]

\* All the uploads belong to one service.
OneService == {Uploads}

ClientSymmetry == Permutations(Clients)
UploadSymmetry == Permutations(Uploads) \union ClientSymmetry
=============================================================================
