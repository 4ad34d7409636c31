----------------------------- MODULE MCStoredFiles -----------------------------
(* The small instances of StoredFiles that TLC checks. *)
EXTENDS StoredFiles, TLC

CONSTANTS a1, o1, s1

\* What is new is a service, an asset or an owner.
SmallMixes ==
  {[a \in Rows |-> CASE a = a1 -> "asset" [] a = o1 -> "organization" [] OTHER -> "service"],
   [a \in Rows |-> CASE a = a1 -> "user" [] a = o1 -> "owner" [] OTHER -> "asset"],
   [a \in Rows |-> CASE a = a1 -> "user" [] a = o1 -> "organization" [] OTHER -> "owner"]}
SmallFirst == [a \in Rows |-> CASE a = a1 -> {1} [] a = o1 -> {2} [] OTHER -> {}]

\* The organisation starts at its quota of five bytes; a new picture has two
\* bytes or three.
SmallBytes == [S \in SUBSET Files |-> 2 * Cardinality(S) + Cardinality(S \intersect {1, 4})]

\* Requests are alike.
Alike == Permutations(Requests)

================================================================================
