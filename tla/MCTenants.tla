------------------------------- MODULE MCTenants -------------------------------
(* The small instances of Tenants that TLC checks. *)
EXTENDS Tenants, TLC

\* A demo has room for one more; the other plan is a smaller one.
SmallLimit == [p \in Plans |-> IF p = "DEMO" THEN 2 ELSE 1]

================================================================================
