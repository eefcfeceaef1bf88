------------------------------- MODULE SlotPool -------------------------------
(***************************************************************************)
(* What the per-tenant SSE limiter promises, with no counter and no       *)
(* atomics in sight: a tenant never has more than Limit requests inside,  *)
(* and a request is turned away only while the requests inside, together  *)
(* with those on their way out of a refusal, fill the pool.  A request of *)
(* another tenant never matters.  SSEProxy is shown to implement it.      *)
(***************************************************************************)
EXTENDS Integers, FiniteSets

CONSTANTS Request, TenantOf, Limit

VARIABLE place  \* where each request is: outside, inside, refusing or gone

Place == {"outside", "inside", "refusing", "gone"}

At(t, where) == {r \in Request : TenantOf[r] = t /\ place[r] = where}

Move(r, from, to) ==
    /\ place[r] = from
    /\ place' = [place EXCEPT ![r] = to]

-----------------------------------------------------------------------------
Init == place = [r \in Request |-> "outside"]

Admit(r) ==
    /\ Cardinality(At(TenantOf[r], "inside")) < Limit
    /\ Move(r, "outside", "inside")

TurnAway(r) ==
    /\ Cardinality(At(TenantOf[r], "inside"))
         + Cardinality(At(TenantOf[r], "refusing")) >= Limit
    /\ Move(r, "outside", "refusing")

Leave(r) == Move(r, "inside", "gone")

Forget(r) == Move(r, "refusing", "gone")

Next == \E r \in Request : Admit(r) \/ TurnAway(r) \/ Leave(r) \/ Forget(r)

Spec == Init /\ [][Next]_place
=============================================================================
