-------------------------- MODULE MCFinanceCommands --------------------------
(***************************************************************************)
(* Small instances of FinanceCommands: the requests of one Admin and one   *)
(* Contributor, a scenario for each run.                                   *)
(***************************************************************************)
EXTENDS FinanceCommands, TLC

CONSTANTS admin, ann,        \* the members
          n1, n2,            \* category names
          home,              \* an activity
          p1, p2, p3, p4     \* operations

MCRole == (admin :> "ADMIN") @@ (ann :> "CONTRIBUTOR")

EmptyBody == [kind |-> "APPROVE", direction |-> None, activity |-> None, amount |-> None,
              name |-> None, applicability |-> None]
Do(kind) == [EmptyBody EXCEPT !.kind = kind]
Post(kind, amount) == [Do(kind) EXCEPT !.direction = "OUTFLOW", !.activity = home, !.amount = amount]
Edit(amount) == [Do("UPDATE") EXCEPT !.activity = home, !.amount = amount]
NewCategory == [Do("CREATE_CATEGORY") EXCEPT !.name = n1, !.applicability = "EXPENSE"]
Rename == [Do("RENAME_CATEGORY") EXCEPT !.name = n2]

Only(requests) == [m \in Members |-> IF m \in DOMAIN requests THEN requests[m] ELSE {}]

\* A submission is edited while it is decided, reversed, corrected, archived,
\* and while its category is archived.
EventRequests == Only(
    (admin :> {<<None, NewCategory>>, <<None, Do("ARCHIVE_CATEGORY")>>,
               <<p1, Do("APPROVE")>>, <<p1, Do("REJECT")>>,
               <<p2, Do("REVERSE")>>, <<p2, Do("CORRECT")>>, <<p3, Do("ARCHIVE")>>})
    @@ (ann :> {<<p4, Post("CREATE", 1)>>, <<None, Edit(2)>>}))

\* An edit and a correction lock event and category in opposite orders; both
\* members use one operation.
CategoryRequests == Only(
    (admin :> {<<None, NewCategory>>, <<None, Rename>>, <<None, Do("ARCHIVE_CATEGORY")>>,
               <<p1, Do("APPROVE")>>, <<p2, Post("CORRECT", 2)>>,
               <<p3, Do("COMMENT")>>, <<None, Do("RESOLVE")>>})
    @@ (ann :> {<<p3, Post("CREATE", 1)>>, <<None, Edit(2)>>}))

\* Row identifiers are interchangeable.
Symmetry == Permutations(Events) \cup Permutations(Reviews)
=============================================================================
