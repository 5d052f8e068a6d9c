----------------------------- MODULE MCResolver -----------------------------
(* Resolver for TLC: two callers that ask for the same name, for two names, *)
(* for a service and one of its targets, or for an address; n3 cannot be    *)
(* asked for, but an alias may name it.                                      *)
EXTENDS Resolver
CONSTANTS n1, n2, n3, s1, a1, u1, u2

MCNames == {n1, n2, n3}
MCServices == {s1}
MCAddresses == {a1}
MCUsers == {u1, u2}
Plan(x, y, ipv6) == [asks |-> u1 :> x @@ u2 :> y, ipv6 |-> ipv6]
MCPlans == {Plan(n1, n1, TRUE), Plan(n1, n2, FALSE), Plan(n1, s1, FALSE), Plan(a1, a1, FALSE)}
MCTargets == { << n1 >>, << n1, n2 >> }
MCUnfit == {n3}

Spec == ResolverInit /\ [][ResolverNext]_resolverVars /\ ResolverFairness
=============================================================================
