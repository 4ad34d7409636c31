------------------------------- MODULE MCTrash -------------------------------
(* Bounded instances of Trash: two owners, an asset, two services, a user.  *)
EXTENDS Trash, TLC

CONSTANTS o1, o2, a1, s1, s2, u1

MCOwners == {o1, o2}
MCAssets == {a1}
MCServices == {s1, s2}
MCUsers == {u1}
MCAssetOf == [s \in MCServices |-> a1]
MCFirstOwner == [a \in MCAssets |-> o1]
MCOwnerOf == [u \in MCUsers |-> o1]

Symmetry == Permutations(Stamps) \union Permutations(Requests)
=============================================================================
