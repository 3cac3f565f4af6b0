---------------------------- MODULE ClaimParties ----------------------------
(* Whom claims are about: what the modules of the claim pipeline share. *)
EXTENDS FiniteSets

CONSTANTS
    Users,          \* Stake user names
    Codes,
    Licenses,       \* licence keys under which userscripts connect
    None

ASSUME PartiesAssumption ==
    /\ IsFiniteSet(Users) /\ IsFiniteSet(Codes) /\ IsFiniteSet(Licenses)
    /\ None \notin Users \cup Codes \cup Licenses
=============================================================================
