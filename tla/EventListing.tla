---------------------------- MODULE EventListing ----------------------------
(***************************************************************************)
(* The list of financial events one member reads page by page, while       *)
(* events are submitted, edited, decided, corrected and archived, and the  *)
(* member's role changes.  A page is one SELECT over the committed rows,   *)
(* so reading it is one step; the role is checked just before, without a   *)
(* lock, and does not change in between here.  The cursor of the next page *)
(* is opaque and signed: what it holds is the position of the last row     *)
(* shown and the scope it was issued for.                                  *)
(*                                                                         *)
(* Of a row only what the list looks at is kept; the filters on category,  *)
(* kind, direction, activity, payment method and currency select by a      *)
(* column as the one on the status does.  A cursor that is refused,        *)
(* because its scope is another or its 24 hours are over, changes nothing, *)
(* and the client may start again at any time.  FinanceLedger models the   *)
(* commands in full.                                                       *)
(***************************************************************************)
EXTENDS Integers, Sequences, FiniteSets, Functions

CONSTANTS
    Events,      \* identifiers, as numbers in their order
    Days,        \* values of occurred_on
    Instants,    \* values of created_at
    Reader,      \* the member that reads
    Other,       \* everyone else
    Filters,     \* the queries that are asked: [statuses, archived]
    PageSizes,   \* the page sizes that are asked for
    MaxChanges,  \* bound on the changes of events and role
    None         \* SQL NULL, no cursor, and an identifier not yet used

VARIABLES
    row,        \* financial_events, as far as the list looks at it
    role,       \* the role of Reader's membership
    traversal,  \* the pages read since the last start: see Started
    changes     \* changes so far

vars == <<row, role, traversal, changes>>

Roles == {"ADMIN", "CONTRIBUTOR", "ADVISOR"}
Statuses == {"PENDING", "APPROVED", "REJECTED"}
ArchiveScopes == {"ACTIVE", "ARCHIVED", "ALL"}

Row ==
    [creator : {Reader, Other}, approval : Statuses, reversible : BOOLEAN,
     archived : BOOLEAN, on : Days, at : Instants]

Cursor == [on : Days, at : Instants, id : Events]

Traversal ==
    [scope : [role : Roles, filter : Filters], after : Cursor \cup {None},
     shown : Seq(Events), steady : SUBSET Events]

ASSUME ListingAssumption ==
    /\ IsFiniteSet(Events)
    /\ Events \cup Days \cup Instants \subseteq Int
    /\ Reader # Other
    /\ Filters \subseteq [statuses : SUBSET Statuses, archived : ArchiveScopes]
    /\ PageSizes \subseteq 1..100
    /\ MaxChanges \in Nat
    /\ None \notin Row \cup Cursor \cup Traversal

\* create_manual: an Admin's event is Approved at once.
Submitted(creator, approval, on, at) ==
    [creator |-> creator, approval |-> approval, reversible |-> approval = "APPROVED",
     archived |-> FALSE, on |-> on, at |-> at]

\* Events that Reader, as a Contributor, and the Admin have submitted.
FirstRows ==
    UNION {{Submitted(Reader, "PENDING", on, at), Submitted(Other, "APPROVED", on, at)} :
               on \in Days, at \in Instants}

Init ==
    /\ row \in [Events -> FirstRows \cup {None}]
    /\ role = "CONTRIBUTOR"
    /\ traversal = None
    /\ changes = 0

Stored == {e \in Events : row[e] # None}

-----------------------------------------------------------------------------
(* The list.                                                               *)

Position(e) == [on |-> row[e].on, at |-> row[e].at, id |-> e]

\* Bug: rows of one day and instant have no order.
PrecedesByTime(p, q) == p.on > q.on \/ (p.on = q.on /\ p.at > q.at)

\* occurred_on DESC, created_at DESC, id ASC.
Precedes(p, q) ==
    \/ p.on > q.on
    \/ p.on = q.on /\ p.at > q.at
    \/ p.on = q.on /\ p.at = q.at /\ p.id < q.id

Visible(r, as) ==
    /\ as = "CONTRIBUTOR" => r.creator = Reader
    /\ as = "ADVISOR" => r.approval = "APPROVED"

Matches(r, filter) ==
    /\ filter.archived = "ACTIVE" => ~r.archived
    /\ filter.archived = "ARCHIVED" => r.archived
    /\ filter.statuses # {} => r.approval \in filter.statuses

\* An Advisor may not even ask for other statuses.
Permitted(filter) == role = "ADVISOR" => filter.statuses \subseteq {"APPROVED"}

Selected(filter) == {e \in Stored : Visible(row[e], role) /\ Matches(row[e], filter)}

\* The order the SELECT returns rows in, if any (that of ties is arbitrary).
InOrder(events) ==
    {rows \in Bijection(1 .. Cardinality(events), events) :
        \A i, j \in DOMAIN rows : i < j => ~Precedes(Position(rows[j]), Position(rows[i]))}

After(cursor, events) == {e \in events : cursor # None => Precedes(cursor, Position(e))}

\* What a cursor is bound to; the page size is not part of it.
Scope(filter) == [role |-> role, filter |-> filter]

\* Bug: the row that tells whether there is a next page counts as part of it.
PageWithoutLast(filter, cursor, size) ==
    {[shown |-> SubSeq(rows, 1, IF Len(rows) < size THEN Len(rows) ELSE size - 1),
      after |-> IF Len(rows) > size THEN Position(rows[size]) ELSE None] :
        rows \in InOrder(After(cursor, Selected(filter)))}

\* One row more than the page is read, to know whether there is a next one.
Page(filter, cursor, size) ==
    {[shown |-> SubSeq(rows, 1, IF Len(rows) < size THEN Len(rows) ELSE size),
      after |-> IF Len(rows) > size THEN Position(rows[size]) ELSE None] :
        rows \in InOrder(After(cursor, Selected(filter)))}

\* The first page.  `steady` is history: the rows that matched from here on
\* and kept their place.
Started(filter, page) ==
    [scope |-> Scope(filter), after |-> page.after, shown |-> page.shown,
     steady |-> Selected(filter)]

List(filter, size) ==
    /\ Permitted(filter)
    /\ \E page \in Page(filter, None, size) : traversal' = Started(filter, page)
    /\ UNCHANGED <<row, role, changes>>

\* The signed scope of a cursor must be that of the query it comes with.
Accepted(filter) == traversal.after # None /\ traversal.scope = Scope(filter)

\* A page with `after`.
Continue(filter, size) ==
    /\ traversal # None
    /\ Permitted(filter)
    /\ Accepted(filter)
    /\ \E page \in Page(filter, traversal.after, size) :
          traversal' = [traversal EXCEPT !.after = page.after, !.shown = @ \o page.shown]
    /\ UNCHANGED <<row, role, changes>>

-----------------------------------------------------------------------------
(* What commits between two pages.                                         *)

\* A row that still matches the query the traversal began with, in place.
Unmoved(e, new) ==
    /\ Visible(new[e], traversal.scope.role)
    /\ Matches(new[e], traversal.scope.filter)
    /\ new[e].on = row[e].on

Change(new) ==
    /\ changes < MaxChanges
    /\ changes' = changes + 1
    /\ row' = new
    /\ traversal' = IF traversal = None THEN None
                    ELSE [traversal EXCEPT !.steady = {e \in @ : Unmoved(e, new)}]
    /\ UNCHANGED role

\* created_at is the start of the transaction, so an event may become visible
\* behind, at or before any position.
CreateEvent(e, creator, approval, on, at) ==
    /\ e \notin Stored
    /\ creator = Reader => role # "ADVISOR" /\ (approval = "APPROVED" <=> role = "ADMIN")
    /\ creator = Other /\ approval = "APPROVED" => role # "ADMIN"
    /\ Change([row EXCEPT ![e] = Submitted(creator, approval, on, at)])

UpdatePendingEvent(e, on) ==
    /\ e \in Stored
    /\ row[e].approval = "PENDING"
    /\ row[e].creator = Reader => role = "CONTRIBUTOR"
    /\ Change([row EXCEPT ![e].on = on])

DecidePendingEvent(e, approval) ==
    /\ e \in Stored
    /\ row[e].approval = "PENDING"
    /\ Change([row EXCEPT ![e].approval = approval, ![e].reversible = approval = "APPROVED"])

\* The reversal and a replacement are rows of one instant.
Posted(on, at) ==
    [Submitted(IF role = "ADMIN" THEN Reader ELSE Other, "APPROVED", on, at) EXCEPT !.reversible = FALSE]

ReverseEvent(e, r, on, at) ==
    /\ e \in Stored
    /\ row[e].reversible
    /\ r \notin Stored
    /\ Change([row EXCEPT ![e].reversible = FALSE, ![r] = Posted(on, at)])

CorrectEvent(e, r, p, on, replaced, at) ==
    /\ e \in Stored
    /\ row[e].reversible
    /\ {r, p} \cap Stored = {}
    /\ r # p
    /\ Change([row EXCEPT ![e].reversible = FALSE, ![r] = Posted(on, at),
                          ![p] = [Posted(replaced, at) EXCEPT !.reversible = TRUE]])

ArchiveEvent(e) ==
    /\ e \in Stored
    /\ row[e].approval # "PENDING"
    /\ ~row[e].archived
    /\ Change([row EXCEPT ![e].archived = TRUE])

\* The Admin changes the role of the member, or ownership moves.
ChangeRole ==
    /\ changes < MaxChanges
    /\ changes' = changes + 1
    /\ role' \in Roles \ {role}
    /\ UNCHANGED <<row, traversal>>

Next ==
    \/ \E filter \in Filters, size \in PageSizes : List(filter, size) \/ Continue(filter, size)
    \/ \E e \in Events, on \in Days :
          \/ UpdatePendingEvent(e, on)
          \/ \E at \in Instants :
                \/ \E creator \in {Reader, Other}, approval \in {"PENDING", "APPROVED"} :
                      CreateEvent(e, creator, approval, on, at)
                \/ \E r \in Events : ReverseEvent(e, r, on, at)
                \/ \E r, p \in Events, replaced \in Days : CorrectEvent(e, r, p, on, replaced, at)
    \/ \E e \in Events : ArchiveEvent(e) \/ DecidePendingEvent(e, "APPROVED") \/ DecidePendingEvent(e, "REJECTED")
    \/ ChangeRole

Spec == Init /\ [][Next]_vars

-----------------------------------------------------------------------------
(* Properties.                                                             *)

TypeOK ==
    /\ row \in [Events -> Row \cup {None}]
    /\ role \in Roles
    /\ traversal \in Traversal \cup {None}
    /\ changes \in 0 .. MaxChanges
    /\ traversal # None =>
          /\ traversal.steady \cup Range(traversal.shown) \subseteq Stored
          /\ traversal.after # None => traversal.shown # <<>>

\* Whatever is submitted, decided, archived or reversed between two pages,
\* and whatever page sizes are asked for, the rows that matched all along and
\* whose date was not edited are shown once and in order, none of them after
\* one that is still to come, and all of them once no cursor is left ("Stable
\* order, no duplicate/skip under updates", docs/09_API_Design.md:822).
ListedOnce ==
    traversal # None =>
        LET shown == traversal.shown
            steady == traversal.steady
        IN
        /\ \A i, j \in DOMAIN shown :
              (i < j /\ shown[i] \in steady /\ shown[j] \in steady) =>
                  Precedes(Position(shown[i]), Position(shown[j]))
        /\ \A e \in steady \ Range(shown) :
              /\ traversal.after # None
              /\ \A d \in steady \cap Range(shown) : Precedes(Position(d), Position(e))
=============================================================================
