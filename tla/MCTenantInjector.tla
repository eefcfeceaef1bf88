--------------------------- MODULE MCTenantInjector ---------------------------
(* TenantInjector for TLC: who asks, and for which principal. *)
EXTENDS TenantInjector

CONSTANTS r1, r2, r3, ann, bob, acme, beta, none

MCRequest == {r1, r2, r3}

Asks(a, b, c) == [r \in MCRequest |-> CASE r = r1 -> a [] r = r2 -> b [] r = r3 -> c]

\* Three requests for one principal; two principals on a cache of one entry, the
\* first asking again; and one without claims between them.
MCAskings == {Asks(ann, ann, ann), Asks(ann, bob, ann), Asks(ann, none, bob)}

\* The tenant of the first principal changes.
MCVersions == [p \in {ann, bob} |-> IF p = ann THEN 2 ELSE 1]
MCSays == [p \in {ann, bob} |-> IF p = ann THEN {acme, beta, NoTenant} ELSE {acme}]
=============================================================================
