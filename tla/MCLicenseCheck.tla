----------------------------- MODULE MCLicenseCheck -----------------------------
(* LicenseCheck for TLC: three requests carry the same license token. *)
EXTENDS LicenseCheck

CONSTANTS r1, r2, r3, gold

MCRequest == {r1, r2, r3}
MCTokenOf == [r \in MCRequest |-> gold]
=============================================================================
