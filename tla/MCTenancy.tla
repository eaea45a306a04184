----------------------------- MODULE MCTenancy -----------------------------
(* Two tenants, an instance, a key and two requests at a time.                 *)
EXTENDS Tenancy, TLC

CONSTANTS t1, t2, i1, k1, n1, n2, m1, c1, c2

Mix(ops1, ops2) == (c1 :> ops1) @@ (c2 :> ops2)

\* Commands and changes of status while tenants and instances come and go; the
\* same while keys are issued and revoked; keys alone, through two requests;
\* commands and changes of status through two requests.
MCMixes == {Mix({"command", "status"}, {"tenant", "purge", "instance"}),
            Mix({"command", "status", "key"}, {"purge", "instance", "key"}),
            Mix({"key", "purge", "instance"}, {"tenant", "purge", "instance", "key"}),
            Mix({"command", "status"}, {"command", "status", "instance"})}
\* Every request may carry anything.
MCMixesAll == {[c \in Calls |-> {"tenant", "purge", "instance", "key", "command", "status"}]}

Symmetry == Permutations(Tenants) \cup Permutations(Names)
=============================================================================
