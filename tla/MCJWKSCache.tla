------------------------------ MODULE MCJWKSCache ------------------------------
(* JWKSCache for TLC: whose token was signed with which key. *)
EXTENDS JWKSCache

CONSTANTS r1, r2, r3, old, new

\* Two tokens of the key that stays, one of the key that is rotated.
MCRequest == {r1, r2, r3}
MCKidOf == [r \in MCRequest |-> IF r = r3 THEN new ELSE old]
=============================================================================
