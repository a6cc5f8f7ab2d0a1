---------------------------- MODULE FinanceLedger ----------------------------
(***************************************************************************)
(* The committed finance tables of one workspace: categories, canonical    *)
(* financial events, reviews, and the audit rows written with them.  An    *)
(* action is what one successful command commits; refused commands change  *)
(* none of these tables.  FinanceCommands shows how concurrent             *)
(* transactions implement these atomic steps.                              *)
(***************************************************************************)
EXTENDS Integers, Sequences, FiniteSetsExt

CONSTANTS
    Members,      \* workspace memberships that act
    Role,         \* the role of every membership
    Categories,   \* identifiers of finance_categories rows
    Names,        \* normalized category names
    Activities,   \* activity classifications
    Events,       \* identifiers of financial_events rows
    Amounts,      \* exact positive magnitudes
    Reviews,      \* identifiers of financial_event_reviews rows
    MaxVersion,   \* bound on renames and pending edits of one row
    None          \* SQL NULL, and the content of an identifier not yet used

Roles == {"ADMIN", "CONTRIBUTOR", "ADVISOR"}
Directions == {"INFLOW", "OUTFLOW"}
Version == Nat \ {0}

CategoryRow ==
    [name : Names, applicability : {"INCOME", "EXPENSE", "BOTH"},
     activity : Activities \cup {None}, status : {"ACTIVE", "ARCHIVED"},
     version : Version]

EventRow ==
    [approval : {"PENDING", "APPROVED", "REJECTED"},
     posting : {"NOT_EFFECTIVE", "EFFECTIVE", "REVERSED"},
     direction : Directions, activity : Activities, category : Categories,
     amount : Amounts, creator : Members, reverses : Events \cup {None},
     replaces : Events \cup {None}, archived : BOOLEAN, version : Version]

ReviewRow ==
    [event : Events, kind : {"COMMENT", "FLAG"},
     flag : {"OPEN", "RESOLVED", None}, author : Members, version : Version]

ASSUME LedgerAssumption ==
    /\ Role \in [Members -> Roles]
    /\ Amounts \subseteq Nat \ {0}
    /\ MaxVersion \in Nat
    /\ None \notin Events \cup Activities \cup {"OPEN", "RESOLVED"}
    /\ None \notin CategoryRow \cup EventRow \cup ReviewRow
    /\ Categories \cap Events = {} /\ Events \cap Reviews = {} /\ Categories \cap Reviews = {}

VARIABLES
    category,  \* finance_categories: identifier -> row or None
    event,     \* financial_events: identifier -> row or None
    review,    \* financial_event_reviews: identifier -> row or None
    audit      \* SUCCEEDED audit rows of each resource, oldest first

vars == <<category, event, review, audit>>

Resources == Categories \cup Events \cup Reviews

AuditActions ==
    {"CATEGORY_CREATED", "CATEGORY_UPDATED", "CATEGORY_ARCHIVED",
     "CREATED_APPROVED", "SUBMITTED", "PENDING_UPDATED", "APPROVED",
     "REJECTED", "REVERSED", "CORRECTED", "ARCHIVED",
     "COMMENTED", "FLAGGED", "FLAG_RESOLVED"}

TypeOK ==
    /\ category \in [Categories -> CategoryRow \cup {None}]
    /\ event \in [Events -> EventRow \cup {None}]
    /\ review \in [Reviews -> ReviewRow \cup {None}]
    /\ audit \in [Resources -> Seq(AuditActions)]

Init ==
    /\ category = [c \in Categories |-> None]
    /\ event = [e \in Events |-> None]
    /\ review = [v \in Reviews |-> None]
    /\ audit = [x \in Resources |-> <<>>]

-----------------------------------------------------------------------------
(* Capabilities and category selection.                                    *)

RolesWith(capability) ==
    CASE capability = "MANAGE_FINANCE_CATEGORIES"     -> {"ADMIN"}
      [] capability = "APPROVE_OR_REJECT_SUBMISSIONS" -> {"ADMIN"}
      [] capability = "CREATE_FINANCIAL_SUBMISSION"   -> {"ADMIN", "CONTRIBUTOR"}
      [] capability = "EDIT_OWN_PENDING_SUBMISSION"   -> {"ADMIN", "CONTRIBUTOR"}
      [] capability = "COMMENT_OR_FLAG"               -> {"ADMIN", "ADVISOR"}

Can(m, capability) == Role[m] \in RolesWith(capability)

Applicability(direction) == IF direction = "INFLOW" THEN "INCOME" ELSE "EXPENSE"

\* Whether a category row admits an event of this direction and activity.
Fits(row, direction, activity) ==
    /\ row.applicability \in {Applicability(direction), "BOTH"}
    /\ row.activity \in {None, activity}

\* What validate_event_category accepts.
Selectable(c, direction, activity) ==
    /\ category[c] # None
    /\ category[c].status = "ACTIVE"
    /\ Fits(category[c], direction, activity)

\* The partial unique index on the names of Active categories.
ScopeNameFree(c, name, applicability, activity) ==
    \A d \in Categories \ {c} :
        (category[d] # None /\ category[d].status = "ACTIVE") =>
            <<category[d].name, category[d].applicability, category[d].activity>>
                # <<name, applicability, activity>>

Record(x, action) == [audit EXCEPT ![x] = Append(@, action)]

-----------------------------------------------------------------------------
(* Category commands.                                                      *)

CreateCategory(m, c, name, applicability, activity) ==
    /\ Can(m, "MANAGE_FINANCE_CATEGORIES")
    /\ category[c] = None
    /\ ScopeNameFree(c, name, applicability, activity)
    /\ category' = [category EXCEPT ![c] =
           [name |-> name, applicability |-> applicability, activity |-> activity,
            status |-> "ACTIVE", version |-> 1]]
    /\ audit' = Record(c, "CATEGORY_CREATED")
    /\ UNCHANGED <<event, review>>

RenameCategory(m, c, name) ==
    /\ Can(m, "MANAGE_FINANCE_CATEGORIES")
    /\ category[c] # None
    /\ category[c].status = "ACTIVE"
    /\ category[c].version < MaxVersion
    /\ ScopeNameFree(c, name, category[c].applicability, category[c].activity)
    /\ category' = [category EXCEPT ![c].name = name, ![c].version = @ + 1]
    /\ audit' = Record(c, "CATEGORY_UPDATED")
    /\ UNCHANGED <<event, review>>

ArchiveCategory(m, c) ==
    /\ Can(m, "MANAGE_FINANCE_CATEGORIES")
    /\ category[c] # None
    /\ category[c].status = "ACTIVE"
    /\ category' = [category EXCEPT ![c].status = "ARCHIVED", ![c].version = @ + 1]
    /\ audit' = Record(c, "CATEGORY_ARCHIVED")
    /\ UNCHANGED <<event, review>>

-----------------------------------------------------------------------------
(* Event commands.                                                         *)

\* Bug: versions count from zero.
NewEventVersionZero(m, c, direction, activity, amount) ==
    [approval |-> IF Role[m] = "ADMIN" THEN "APPROVED" ELSE "PENDING",
     posting |-> IF Role[m] = "ADMIN" THEN "EFFECTIVE" ELSE "NOT_EFFECTIVE",
     direction |-> direction, activity |-> activity, category |-> c,
     amount |-> amount, creator |-> m, reverses |-> None, replaces |-> None,
     archived |-> FALSE, version |-> 0]

\* A new manual event: an Admin's is Approved at once, a Contributor's waits.
NewEvent(m, c, direction, activity, amount) ==
    [approval |-> IF Role[m] = "ADMIN" THEN "APPROVED" ELSE "PENDING",
     posting |-> IF Role[m] = "ADMIN" THEN "EFFECTIVE" ELSE "NOT_EFFECTIVE",
     direction |-> direction, activity |-> activity, category |-> c,
     amount |-> amount, creator |-> m, reverses |-> None, replaces |-> None,
     archived |-> FALSE, version |-> 1]

CreateEvent(m, e, c, direction, activity, amount) ==
    /\ Can(m, "CREATE_FINANCIAL_SUBMISSION")
    /\ event[e] = None
    /\ Selectable(c, direction, activity)
    /\ event' = [event EXCEPT ![e] = NewEvent(m, c, direction, activity, amount)]
    /\ audit' = Record(e, IF Role[m] = "ADMIN" THEN "CREATED_APPROVED" ELSE "SUBMITTED")
    /\ UNCHANGED <<category, review>>

\* Bug: anything not archived counts as pending.
IsPendingUnlessArchived(row) == ~row.archived

IsPending(row) ==
    /\ row.approval = "PENDING"
    /\ row.posting = "NOT_EFFECTIVE"
    /\ ~row.archived

\* Bug: the category is validated against the activity before the edit.
UpdateValidatesOldActivity(m, e, c, activity, amount) ==
    /\ Role[m] = "CONTRIBUTOR"
    /\ event[e] # None
    /\ event[e].creator = m
    /\ IsPending(event[e])
    /\ event[e].version < MaxVersion
    /\ Selectable(c, event[e].direction, event[e].activity)
    /\ event' = [event EXCEPT ![e].category = c, ![e].activity = activity,
                              ![e].amount = amount, ![e].version = @ + 1]
    /\ audit' = Record(e, "PENDING_UPDATED")
    /\ UNCHANGED <<category, review>>

\* The edit keeps kind and direction; an omitted field keeps its value.
UpdatePendingEvent(m, e, c, activity, amount) ==
    /\ Role[m] = "CONTRIBUTOR"
    /\ event[e] # None
    /\ event[e].creator = m
    /\ IsPending(event[e])
    /\ event[e].version < MaxVersion
    /\ Selectable(c, event[e].direction, activity)
    /\ event' = [event EXCEPT ![e].category = c, ![e].activity = activity,
                              ![e].amount = amount, ![e].version = @ + 1]
    /\ audit' = Record(e, "PENDING_UPDATED")
    /\ UNCHANGED <<category, review>>

DecidePendingEvent(m, e, approval) ==
    /\ Can(m, "APPROVE_OR_REJECT_SUBMISSIONS")
    /\ event[e] # None
    /\ IsPending(event[e])
    /\ event' = [event EXCEPT
           ![e].approval = approval,
           ![e].posting = IF approval = "APPROVED" THEN "EFFECTIVE" ELSE "NOT_EFFECTIVE",
           ![e].version = @ + 1]
    /\ audit' = Record(e, approval)
    /\ UNCHANGED <<category, review>>

Opposite(direction) == IF direction = "INFLOW" THEN "OUTFLOW" ELSE "INFLOW"

\* The trigger tr_financial_event_history_guard on a row that reverses another.
HistoryGuard(row) ==
    row.reverses # None =>
        LET target == event[row.reverses] IN
        /\ target # None
        /\ target.approval = "APPROVED"
        /\ target.posting = "EFFECTIVE"
        /\ target.reverses = None
        /\ target.amount = row.amount
        /\ target.direction # row.direction

IsReversible(row) ==
    /\ row.approval = "APPROVED"
    /\ row.posting = "EFFECTIVE"
    /\ row.reverses = None

\* Bug: the reversal row is not effective itself.
ReversalNotEffective(m, e) ==
    [event[e] EXCEPT !.posting = "REVERSED", !.direction = Opposite(@), !.creator = m,
                     !.reverses = e, !.replaces = None, !.archived = FALSE, !.version = 1]

ReversalOf(m, e) ==
    [event[e] EXCEPT !.direction = Opposite(@), !.creator = m, !.reverses = e,
                     !.replaces = None, !.archived = FALSE, !.version = 1]

\* Bug: the original stays effective next to its reversal.
ReverseLeavesOriginal(m, e, r, action) ==
    /\ Can(m, "APPROVE_OR_REJECT_SUBMISSIONS")
    /\ event[e] # None
    /\ IsReversible(event[e])
    /\ event[r] = None
    /\ HistoryGuard(ReversalOf(m, e))
    /\ event' = [event EXCEPT ![e].version = @ + 1, ![r] = ReversalOf(m, e)]
    /\ audit' = Record(e, action)
    /\ UNCHANGED <<category, review>>

ReverseEvent(m, e, r, action) ==
    /\ Can(m, "APPROVE_OR_REJECT_SUBMISSIONS")
    /\ event[e] # None
    /\ IsReversible(event[e])
    /\ event[r] = None
    /\ HistoryGuard(ReversalOf(m, e))
    /\ event' = [event EXCEPT ![e].posting = "REVERSED", ![e].version = @ + 1,
                              ![r] = ReversalOf(m, e)]
    /\ audit' = Record(e, action)
    /\ UNCHANGED <<category, review>>

ReplacementFor(m, e, c, direction, activity, amount) ==
    [NewEvent(m, c, direction, activity, amount) EXCEPT !.replaces = e]

\* Bug: the corrected original stays effective next to its replacement.
CorrectLeavesOriginal(m, e, r, p, c, direction, activity, amount) ==
    /\ Can(m, "APPROVE_OR_REJECT_SUBMISSIONS")
    /\ event[e] # None
    /\ IsReversible(event[e])
    /\ r # p
    /\ event[r] = None
    /\ event[p] = None
    /\ Selectable(c, direction, activity)
    /\ HistoryGuard(ReversalOf(m, e))
    /\ event' = [event EXCEPT
           ![e].version = @ + 1,
           ![r] = ReversalOf(m, e),
           ![p] = ReplacementFor(m, e, c, direction, activity, amount)]
    /\ audit' = Record(e, "CORRECTED")
    /\ UNCHANGED <<category, review>>

\* A correction that also posts a replacement event.
CorrectEvent(m, e, r, p, c, direction, activity, amount) ==
    /\ Can(m, "APPROVE_OR_REJECT_SUBMISSIONS")
    /\ event[e] # None
    /\ IsReversible(event[e])
    /\ r # p
    /\ event[r] = None
    /\ event[p] = None
    /\ Selectable(c, direction, activity)
    /\ HistoryGuard(ReversalOf(m, e))
    /\ event' = [event EXCEPT
           ![e].posting = "REVERSED", ![e].version = @ + 1,
           ![r] = ReversalOf(m, e),
           ![p] = ReplacementFor(m, e, c, direction, activity, amount)]
    /\ audit' = Record(e, "CORRECTED")
    /\ UNCHANGED <<category, review>>

\* Bug: archiving leaves no evidence.
ArchiveUnaudited(m, e) ==
    /\ Can(m, "APPROVE_OR_REJECT_SUBMISSIONS")
    /\ event[e] # None
    /\ event[e].approval # "PENDING"
    /\ ~event[e].archived
    /\ HistoryGuard(event[e])
    /\ event' = [event EXCEPT ![e].archived = TRUE, ![e].version = @ + 1]
    /\ UNCHANGED <<category, review, audit>>

\* Bug: archiving keeps the version.
ArchiveKeepsVersion(m, e) ==
    /\ Can(m, "APPROVE_OR_REJECT_SUBMISSIONS")
    /\ event[e] # None
    /\ event[e].approval # "PENDING"
    /\ ~event[e].archived
    /\ HistoryGuard(event[e])
    /\ event' = [event EXCEPT ![e].archived = TRUE]
    /\ audit' = Record(e, "ARCHIVED")
    /\ UNCHANGED <<category, review>>

\* The update fires the trigger again, so a reversal row is never archived.
ArchiveEvent(m, e) ==
    /\ Can(m, "APPROVE_OR_REJECT_SUBMISSIONS")
    /\ event[e] # None
    /\ event[e].approval # "PENDING"
    /\ ~event[e].archived
    /\ HistoryGuard(event[e])
    /\ event' = [event EXCEPT ![e].archived = TRUE, ![e].version = @ + 1]
    /\ audit' = Record(e, "ARCHIVED")
    /\ UNCHANGED <<category, review>>

-----------------------------------------------------------------------------
(* Review commands.                                                        *)

CreateReview(m, v, e, kind) ==
    /\ Can(m, "COMMENT_OR_FLAG")
    /\ Role[m] = "ADMIN" => kind = "COMMENT"
    /\ review[v] = None
    /\ event[e] # None
    /\ event[e].approval = "APPROVED"
    /\ review' = [review EXCEPT ![v] =
           [event |-> e, kind |-> kind, author |-> m, version |-> 1,
            flag |-> IF kind = "FLAG" THEN "OPEN" ELSE None]]
    /\ audit' = Record(v, IF kind = "FLAG" THEN "FLAGGED" ELSE "COMMENTED")
    /\ UNCHANGED <<category, event>>

ResolveReview(m, v) ==
    /\ Role[m] = "ADMIN"
    /\ review[v] # None
    /\ event[review[v].event].approval = "APPROVED"
    /\ review[v].kind = "FLAG"
    /\ review[v].flag = "OPEN"
    /\ review' = [review EXCEPT ![v].flag = "RESOLVED", ![v].version = @ + 1]
    /\ audit' = Record(v, "FLAG_RESOLVED")
    /\ UNCHANGED <<category, event>>

-----------------------------------------------------------------------------
CategoryStep ==
    \E m \in Members, c \in Categories :
        \/ \E name \in Names, applicability \in {"INCOME", "EXPENSE", "BOTH"},
              activity \in Activities \cup {None} :
                CreateCategory(m, c, name, applicability, activity)
        \/ \E name \in Names : RenameCategory(m, c, name)
        \/ ArchiveCategory(m, c)

\* Events that are stored, and identifiers that are not used yet.
Rows == {e \in Events : event[e] # None}
Fresh == Events \ Rows

EventStep ==
    \E m \in Members :
        \/ \E e \in Fresh, c \in Categories, direction \in Directions,
              activity \in Activities, amount \in Amounts :
                CreateEvent(m, e, c, direction, activity, amount)
        \/ \E e \in Rows, c \in Categories, activity \in Activities, amount \in Amounts :
                UpdatePendingEvent(m, e, c, activity, amount)
        \/ \E e \in Rows, approval \in {"APPROVED", "REJECTED"} :
                DecidePendingEvent(m, e, approval)
        \/ \E e \in Rows, r \in Fresh, action \in {"REVERSED", "CORRECTED"} :
                ReverseEvent(m, e, r, action)
        \/ \E e \in Rows, r \in Fresh, p \in Fresh, c \in Categories,
              direction \in Directions, activity \in Activities, amount \in Amounts :
                CorrectEvent(m, e, r, p, c, direction, activity, amount)
        \/ \E e \in Rows : ArchiveEvent(m, e)

ReviewStep ==
    \E m \in Members, v \in Reviews :
        \/ \E e \in Events, kind \in {"COMMENT", "FLAG"} : CreateReview(m, v, e, kind)
        \/ ResolveReview(m, v)

Next == CategoryStep \/ EventStep \/ ReviewStep

Spec == Init /\ [][Next]_vars

-----------------------------------------------------------------------------
(* Safety.                                                                 *)

ReversalsOf(e) == {r \in Rows : event[r].reverses = e}
ReplacementsFor(e) == {p \in Rows : event[p].replaces = e}
IsDerived(row) == row.reverses # None \/ row.replaces # None

\* Only an Approved fact is ever effective or reversed: the combinations the
\* table admits (valid_approval_posting_state, reversal_is_effective).
StatesCombine ==
    \A e \in Rows :
        /\ (event[e].approval = "APPROVED") <=> (event[e].posting # "NOT_EFFECTIVE")
        /\ event[e].reverses # None => event[e].posting = "EFFECTIVE"
        /\ event[e].approval = "PENDING" => ~event[e].archived

\* A fact is Reversed exactly when one effective reversal cancels it: same
\* amount, category and activity, opposite direction; reversals are never
\* reversed (reverse_event and the history guard, over every later command).
ReversalPairing ==
    \A e \in Rows :
        /\ event[e].posting = "REVERSED" <=> ReversalsOf(e) # {}
        /\ \A r \in ReversalsOf(e) :
              /\ ReversalsOf(e) = {r}
              /\ ReversalsOf(r) = {}
              /\ event[r].posting = "EFFECTIVE"
              /\ event[r].amount = event[e].amount
              /\ event[r].direction = Opposite(event[e].direction)
              /\ event[r].category = event[e].category
              /\ event[r].activity = event[e].activity

\* A corrected fact has at most one replacement, and is Reversed: following
\* replacement links from any fact reaches at most one that still counts.
OneStandingReplacement ==
    \A e \in Rows :
        \A p \in ReplacementsFor(e) :
            /\ ReplacementsFor(e) = {p}
            /\ event[e].posting = "REVERSED"

Signed(e) == IF event[e].direction = "INFLOW" THEN event[e].amount ELSE -event[e].amount

\* The official dataset predicate: Approved, and Effective or Reversed.
Official == {e \in Rows : /\ event[e].approval = "APPROVED"
                          /\ event[e].posting \in {"EFFECTIVE", "REVERSED"}}

\* Facts nobody reversed, reversals left out.
Standing == {e \in Official : event[e].posting = "EFFECTIVE" /\ event[e].reverses = None}

\* Adding every official row, Reversed originals included, gives the total of
\* the facts that still stand, whatever was reversed, corrected or archived.
OfficialTotalIsStandingTotal ==
    MapThenSumSet(Signed, Official) = MapThenSumSet(Signed, Standing)

\* Every event that is not a reversal still fits the category it names, after
\* any edit of activity or category (update_pending_event validates the pair).
EventsFitTheirCategory ==
    \A e \in Rows :
        event[e].reverses = None =>
            /\ category[event[e].category] # None
            /\ Fits(category[event[e].category], event[e].direction, event[e].activity)

\* Every version of a row was written together with one audit row; rows that
\* reverse_event inserts are evidenced by the audit row of their original.
EveryVersionAudited ==
    /\ \A c \in Categories : Len(audit[c]) = IF category[c] = None THEN 0 ELSE category[c].version
    /\ \A v \in Reviews : Len(audit[v]) = IF review[v] = None THEN 0 ELSE review[v].version
    /\ \A e \in Events :
          Len(audit[e]) = IF event[e] = None THEN 0
                          ELSE event[e].version - (IF IsDerived(event[e]) THEN 1 ELSE 0)

\* list_event_status_history: the audit rows that name an approval status.
StatusOf(action) ==
    CASE action \in {"SUBMITTED", "PENDING_UPDATED"}  -> "PENDING"
      [] action \in {"CREATED_APPROVED", "APPROVED"}  -> "APPROVED"
      [] action = "REJECTED"                          -> "REJECTED"
StatusActions == {"SUBMITTED", "PENDING_UPDATED", "CREATED_APPROVED", "APPROVED", "REJECTED"}
\* The rows of an audit trail it shows, by position: it keeps their order.
StatusHistory(trail) == {i \in DOMAIN trail : trail[i] \in StatusActions}
EndsWith(trail, approval) ==
    \E last \in StatusHistory(trail) :
        /\ \A i \in StatusHistory(trail) : i <= last
        /\ StatusOf(trail[last]) = approval

\* The status history of a submitted event ends with its current status; a
\* reversal or replacement row has none.
HistoryEndsWithStatus ==
    \A e \in Rows :
        IF IsDerived(event[e]) THEN StatusHistory(audit[e]) = {}
        ELSE EndsWith(audit[e], event[e].approval)

\* Audit and rows agree after every command: each version has its evidence,
\* and the status history a reader is shown is that of the row.
EvidenceIsComplete == EveryVersionAudited /\ HistoryEndsWithStatus

-----------------------------------------------------------------------------
(* What one step may do.                                                   *)

Facts(row) == <<row.direction, row.activity, row.category, row.amount, row.creator,
                row.reverses, row.replaces, row.approval>>

\* A decided event keeps its facts and its decision for ever; its effect can
\* only go from Effective to Reversed, and archiving is never undone.
DecidedStep ==
    \A e \in Rows :
        event[e].approval # "PENDING" =>
            /\ event'[e] # None
            /\ Facts(event'[e]) = Facts(event[e])
            /\ event'[e].posting # event[e].posting =>
                  event[e].posting = "EFFECTIVE" /\ event'[e].posting = "REVERSED"
            /\ event[e].archived => event'[e].archived
DecidedFactsFrozen == [][DecidedStep]_vars

\* A row changes only together with its version, by one: an ETag names one
\* content of the row.
VersionStep ==
    /\ \A e \in Rows : event'[e] # event[e] => event'[e].version = event[e].version + 1
    /\ \A c \in Categories :
          category[c] # None /\ category'[c] # category[c] =>
              category'[c].version = category[c].version + 1
    /\ \A v \in Reviews :
          review[v] # None /\ review'[v] # review[v] => review'[v].version = review[v].version + 1
EtagsNameContent == [][VersionStep]_vars
=============================================================================
