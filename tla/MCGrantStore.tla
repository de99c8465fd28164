----------------------------- MODULE MCGrantStore -----------------------------
(* GrantStore for TLC: a once grant, two revokes of it, a revoke of the    *)
(* first revoke, and an enroll whose id collides with a revoke's.          *)
EXTENDS GrantStore, TLC

Env(i, k, t) == [id |-> i, kind |-> k, target |-> t]

MCEnvelopes == {Env(1, "once", None), Env(2, "revoke", 1), Env(3, "revoke", 1),
                Env(4, "revoke", 2), Env(3, "enroll", None)}

Symmetry == Permutations(Handlers) \cup Permutations(Agents)
=============================================================================
