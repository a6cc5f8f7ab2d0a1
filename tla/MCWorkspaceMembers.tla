------------------------- MODULE MCWorkspaceMembers -------------------------
(* Constants for model-checking WorkspaceMembers.                          *)
EXTENDS WorkspaceMembers, TLC

CONSTANTS a1, a2, w1, w2, c1, c2, r1, t1, t2, ADVISOR, CONTRIBUTOR

MCPair       == {a1, a2}
MCMemberIds  == <<a1, a2>>
MCWorkers    == {w1, w2}
MCRoles      == {ADVISOR, CONTRIBUTOR}
MCChallenges == {c1, c2}
MCTransfers  == {t1, t2}

MCMembershipSymmetry ==
    Permutations(MCWorkers) \cup Permutations(MCRoles) \cup Permutations(MCChallenges)
MCOwnershipSymmetry == Permutations(MCWorkers) \cup Permutations(MCTransfers)

MCMembershipKinds ==
    Mutations \cup {"BOOTSTRAP", "PROVISION", "RESTART", "ACTIVATE", "LOGIN"}
MCOwnershipKinds ==
    {"INITIATE", "CONFIRM", "CANCEL", "SETTINGS", "SUSPEND", "LOGIN",
     "RECOVER", "CONFIRM_RECOVERY"}
=============================================================================
