------------------------------ MODULE MCSSEProxy ------------------------------
(* SSEProxy for TLC: who sends which request. *)
EXTENDS SSEProxy, TLC

CONSTANTS r1, r2, r3, acme, chat, feed

\* Three requests of one tenant, on two routes.
MCRequest3  == {r1, r2, r3}
MCTenantOf3 == [r \in MCRequest3 |-> acme]
MCRouteOf3  == [r \in MCRequest3 |-> IF r = r3 THEN feed ELSE chat]

\* Two requests of one tenant.
MCRequest2  == {r1, r2}
MCTenantOf2 == [r \in MCRequest2 |-> acme]
MCRouteOf2  == [r \in MCRequest2 |-> chat]

\* One request with a stream of several chunks.
MCRequest1  == {r1}
MCTenantOf1 == [r \in MCRequest1 |-> acme]
MCRouteOf1  == [r \in MCRequest1 |-> chat]

\* r1 and r2 differ in nothing.
MCSymmetry12 == Permutations({r1, r2})
=============================================================================
