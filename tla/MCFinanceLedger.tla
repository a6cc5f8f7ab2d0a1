--------------------------- MODULE MCFinanceLedger ---------------------------
(***************************************************************************)
(* A small instance of FinanceLedger: one Admin, one Contributor and one   *)
(* Advisor, as in a household.                                             *)
(***************************************************************************)
EXTENDS FinanceLedger, FiniteSets, TLC

CONSTANTS admin, ann, adv,
          c2,              \* the second of two categories
          farm             \* the second of two activities

MCMembers == {admin, ann, adv}
MCRole == (admin :> "ADMIN") @@ (ann :> "CONTRIBUTOR") @@ (adv :> "ADVISOR")

\* Bound: several events live in one category that admits them all, without
\* the second activity and reviews, which appear beside one event only; the
\* second category appears beside one event without reviews and amount 2.
Small ==
    /\ category[c2] # None =>
        /\ \A v \in Reviews : review[v] = None
        /\ \A e \in Rows : event[e].amount = 1
    /\ Cardinality(Rows) > 1 =>
        /\ category[c2] = None
        /\ \A e \in Rows : event[e].activity # farm
        /\ \A c \in Categories \ {c2} : category[c].applicability = "BOTH" /\ category[c].activity = None
        /\ \A v \in Reviews : review[v] = None
MCSpec == Init /\ [][Next /\ Small']_vars

\* Identifiers of events are interchangeable.
Symmetry == Permutations(Events)
=============================================================================
