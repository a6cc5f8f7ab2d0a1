------------------------- MODULE FinanceLedgerProofs -------------------------
(***************************************************************************)
(* Theorems about FinanceLedger, for every workspace, every set of rows    *)
(* and every bound.                                                        *)
(***************************************************************************)
EXTENDS FinanceLedger, FiniteSetTheorems, WellFoundedInduction, TLAPS

-----------------------------------------------------------------------------
(* Type correctness.                                                       *)

\* Appending a known action keeps the audit trail typed.
LEMMA RecordTyped ==
    ASSUME TypeOK, NEW x \in Resources, NEW action \in AuditActions
    PROVE  Record(x, action) \in [Resources -> Seq(AuditActions)]
BY DEF TypeOK, Record

\* The initial tables are typed.
LEMMA InitTyped == Init => TypeOK
BY DEF Init, TypeOK, Resources

\* A command on a category keeps the tables typed.
LEMMA CategoryStepTyped ==
    ASSUME TypeOK, CategoryStep
    PROVE  TypeOK'
<1>1. PICK m \in Members, c \in Categories :
        \/ \E name \in Names, applicability \in {"INCOME", "EXPENSE", "BOTH"},
              activity \in Activities \cup {None} :
                CreateCategory(m, c, name, applicability, activity)
        \/ \E name \in Names : RenameCategory(m, c, name)
        \/ ArchiveCategory(m, c)
  BY DEF CategoryStep
<1>2. c \in Resources
  BY DEF Resources
<1>3. CASE \E name \in Names, applicability \in {"INCOME", "EXPENSE", "BOTH"},
              activity \in Activities \cup {None} :
                CreateCategory(m, c, name, applicability, activity)
  <2>1. "CATEGORY_CREATED" \in AuditActions
    BY DEF AuditActions
  <2>2. audit' \in [Resources -> Seq(AuditActions)]
    BY <1>2, <1>3, <2>1, RecordTyped DEF CreateCategory
  <2>3. category' \in [Categories -> CategoryRow \cup {None}]
    BY <1>3 DEF CreateCategory, TypeOK, CategoryRow, Version
  <2> QED
    BY <1>3, <2>2, <2>3 DEF CreateCategory, TypeOK
<1>4. CASE \E name \in Names : RenameCategory(m, c, name)
  <2>1. "CATEGORY_UPDATED" \in AuditActions
    BY DEF AuditActions
  <2>2. audit' \in [Resources -> Seq(AuditActions)]
    BY <1>2, <1>4, <2>1, RecordTyped DEF RenameCategory
  <2>3. category' \in [Categories -> CategoryRow \cup {None}]
    BY <1>4 DEF RenameCategory, TypeOK, CategoryRow, Version
  <2> QED
    BY <1>4, <2>2, <2>3 DEF RenameCategory, TypeOK
<1>5. CASE ArchiveCategory(m, c)
  <2>1. "CATEGORY_ARCHIVED" \in AuditActions
    BY DEF AuditActions
  <2>2. audit' \in [Resources -> Seq(AuditActions)]
    BY <1>2, <1>5, <2>1, RecordTyped DEF ArchiveCategory
  <2>3. category' \in [Categories -> CategoryRow \cup {None}]
    BY <1>5 DEF ArchiveCategory, TypeOK, CategoryRow, Version
  <2> QED
    BY <1>5, <2>2, <2>3 DEF ArchiveCategory, TypeOK
<1> QED
  BY <1>1, <1>3, <1>4, <1>5

\* A command on a review keeps the tables typed.
LEMMA ReviewStepTyped ==
    ASSUME TypeOK, ReviewStep
    PROVE  TypeOK'
<1>1. PICK m \in Members, v \in Reviews :
        \/ \E e \in Events, kind \in {"COMMENT", "FLAG"} : CreateReview(m, v, e, kind)
        \/ ResolveReview(m, v)
  BY DEF ReviewStep
<1>2. v \in Resources
  BY DEF Resources
<1>3. {"COMMENTED", "FLAGGED", "FLAG_RESOLVED"} \subseteq AuditActions
  BY DEF AuditActions
<1>4. CASE \E e \in Events, kind \in {"COMMENT", "FLAG"} : CreateReview(m, v, e, kind)
  <2>1. audit' \in [Resources -> Seq(AuditActions)]
    BY <1>2, <1>3, <1>4, RecordTyped DEF CreateReview
  <2>2. review' \in [Reviews -> ReviewRow \cup {None}]
    BY <1>4 DEF CreateReview, TypeOK, ReviewRow, Version
  <2> QED
    BY <1>4, <2>1, <2>2 DEF CreateReview, TypeOK
<1>5. CASE ResolveReview(m, v)
  <2>1. audit' \in [Resources -> Seq(AuditActions)]
    BY <1>2, <1>3, <1>5, RecordTyped DEF ResolveReview
  <2>2. review' \in [Reviews -> ReviewRow \cup {None}]
    BY <1>5 DEF ResolveReview, TypeOK, ReviewRow, Version
  <2> QED
    BY <1>5, <2>1, <2>2 DEF ResolveReview, TypeOK
<1> QED
  BY <1>1, <1>4, <1>5

\* A new manual event is an event row.
LEMMA NewEventTyped ==
    ASSUME NEW m \in Members, NEW c \in Categories, NEW direction \in Directions,
           NEW activity \in Activities, NEW amount \in Amounts
    PROVE  NewEvent(m, c, direction, activity, amount) \in EventRow
BY DEF NewEvent, EventRow, Version

\* The row that reverses an existing event is an event row.
LEMMA ReversalTyped ==
    ASSUME TypeOK, NEW m \in Members, NEW e \in Events, event[e] # None
    PROVE  ReversalOf(m, e) \in EventRow
<1>1. event[e] \in EventRow
  BY DEF TypeOK
<1>2. Opposite(event[e].direction) \in Directions
  BY DEF Opposite, Directions
<1>3. 1 \in Version
  BY DEF Version
<1> QED
  BY <1>1, <1>2, <1>3 DEF ReversalOf, EventRow

\* A replacement is an event row.
LEMMA ReplacementTyped ==
    ASSUME NEW m \in Members, NEW e \in Events, NEW c \in Categories,
           NEW direction \in Directions, NEW activity \in Activities, NEW amount \in Amounts
    PROVE  ReplacementFor(m, e, c, direction, activity, amount) \in EventRow
BY NewEventTyped DEF ReplacementFor, EventRow

\* The disjuncts of EventStep, with the names the cases below use.
LEMMA EventStepCases ==
    ASSUME EventStep
    PROVE  \E m \in Members, e \in Events :
        \/ \E c \in Categories, direction \in Directions, activity \in Activities,
              amount \in Amounts : CreateEvent(m, e, c, direction, activity, amount)
        \/ \E c \in Categories, activity \in Activities, amount \in Amounts :
                UpdatePendingEvent(m, e, c, activity, amount)
        \/ \E approval \in {"APPROVED", "REJECTED"} : DecidePendingEvent(m, e, approval)
        \/ \E r \in Events, action \in {"REVERSED", "CORRECTED"} :
                ReverseEvent(m, e, r, action)
        \/ \E r \in Events, p \in Events, c \in Categories, direction \in Directions,
              activity \in Activities, amount \in Amounts :
                CorrectEvent(m, e, r, p, c, direction, activity, amount)
        \/ ArchiveEvent(m, e)
BY DEF EventStep, Rows, Fresh

\* A command on an event keeps the tables typed.
LEMMA EventStepTyped ==
    ASSUME TypeOK, EventStep
    PROVE  TypeOK'
<1>1. PICK m \in Members, e \in Events :
        \/ \E c \in Categories, direction \in Directions, activity \in Activities,
              amount \in Amounts : CreateEvent(m, e, c, direction, activity, amount)
        \/ \E c \in Categories, activity \in Activities, amount \in Amounts :
                UpdatePendingEvent(m, e, c, activity, amount)
        \/ \E approval \in {"APPROVED", "REJECTED"} : DecidePendingEvent(m, e, approval)
        \/ \E r \in Events, action \in {"REVERSED", "CORRECTED"} :
                ReverseEvent(m, e, r, action)
        \/ \E r \in Events, p \in Events, c \in Categories, direction \in Directions,
              activity \in Activities, amount \in Amounts :
                CorrectEvent(m, e, r, p, c, direction, activity, amount)
        \/ ArchiveEvent(m, e)
  BY EventStepCases
<1>2. e \in Resources
  BY DEF Resources
<1>3. {"CREATED_APPROVED", "SUBMITTED", "PENDING_UPDATED", "APPROVED", "REJECTED",
       "REVERSED", "CORRECTED", "ARCHIVED"} \subseteq AuditActions
  BY DEF AuditActions
<1>4. ASSUME NEW c \in Categories, NEW direction \in Directions, NEW activity \in Activities,
             NEW amount \in Amounts, CreateEvent(m, e, c, direction, activity, amount)
      PROVE  TypeOK'
  <2>1. audit' \in [Resources -> Seq(AuditActions)]
    BY <1>2, <1>3, <1>4, RecordTyped DEF CreateEvent
  <2>2. event' \in [Events -> EventRow \cup {None}]
    BY <1>4, NewEventTyped DEF CreateEvent, TypeOK
  <2> QED
    BY <1>4, <2>1, <2>2 DEF CreateEvent, TypeOK
<1>5. ASSUME NEW c \in Categories, NEW activity \in Activities, NEW amount \in Amounts,
             UpdatePendingEvent(m, e, c, activity, amount)
      PROVE  TypeOK'
  <2>1. audit' \in [Resources -> Seq(AuditActions)]
    BY <1>2, <1>3, <1>5, RecordTyped DEF UpdatePendingEvent
  <2>2. event' \in [Events -> EventRow \cup {None}]
    BY <1>5 DEF UpdatePendingEvent, TypeOK, EventRow, Version
  <2> QED
    BY <1>5, <2>1, <2>2 DEF UpdatePendingEvent, TypeOK
<1>6. ASSUME NEW approval \in {"APPROVED", "REJECTED"}, DecidePendingEvent(m, e, approval)
      PROVE  TypeOK'
  <2>1. audit' \in [Resources -> Seq(AuditActions)]
    BY <1>2, <1>3, <1>6, RecordTyped DEF DecidePendingEvent
  <2>2. event' \in [Events -> EventRow \cup {None}]
    BY <1>6 DEF DecidePendingEvent, TypeOK, EventRow, Version
  <2> QED
    BY <1>6, <2>1, <2>2 DEF DecidePendingEvent, TypeOK
<1>7. ASSUME NEW r \in Events, NEW action \in {"REVERSED", "CORRECTED"},
             ReverseEvent(m, e, r, action)
      PROVE  TypeOK'
  <2>1. audit' \in [Resources -> Seq(AuditActions)]
    BY <1>2, <1>3, <1>7, RecordTyped DEF ReverseEvent
  <2>2. [event[e] EXCEPT !.posting = "REVERSED", !.version = @ + 1] \in EventRow
    BY <1>7 DEF ReverseEvent, TypeOK, EventRow, Version
  <2>3. ReversalOf(m, e) \in EventRow
    BY <1>7, ReversalTyped DEF ReverseEvent
  <2>4. event' \in [Events -> EventRow \cup {None}]
    BY <1>7, <2>2, <2>3 DEF ReverseEvent, TypeOK
  <2> QED
    BY <1>7, <2>1, <2>4 DEF ReverseEvent, TypeOK
<1>8. ASSUME NEW r \in Events, NEW p \in Events, NEW c \in Categories,
             NEW direction \in Directions, NEW activity \in Activities, NEW amount \in Amounts,
             CorrectEvent(m, e, r, p, c, direction, activity, amount)
      PROVE  TypeOK'
  <2>1. audit' \in [Resources -> Seq(AuditActions)]
    BY <1>2, <1>3, <1>8, RecordTyped DEF CorrectEvent
  <2>2. [event[e] EXCEPT !.posting = "REVERSED", !.version = @ + 1] \in EventRow
    BY <1>8 DEF CorrectEvent, TypeOK, EventRow, Version
  <2>3. ReversalOf(m, e) \in EventRow
    BY <1>8, ReversalTyped DEF CorrectEvent
  <2>4. ReplacementFor(m, e, c, direction, activity, amount) \in EventRow
    BY ReplacementTyped
  <2>5. event' \in [Events -> EventRow \cup {None}]
    BY <1>8, <2>2, <2>3, <2>4 DEF CorrectEvent, TypeOK
  <2> QED
    BY <1>8, <2>1, <2>5 DEF CorrectEvent, TypeOK
<1>9. ASSUME ArchiveEvent(m, e)
      PROVE  TypeOK'
  <2>1. audit' \in [Resources -> Seq(AuditActions)]
    BY <1>2, <1>3, <1>9, RecordTyped DEF ArchiveEvent
  <2>2. event' \in [Events -> EventRow \cup {None}]
    BY <1>9 DEF ArchiveEvent, TypeOK, EventRow, Version
  <2> QED
    BY <1>9, <2>1, <2>2 DEF ArchiveEvent, TypeOK
<1> QED
  BY <1>1, <1>4, <1>5, <1>6, <1>7, <1>8, <1>9

\* Every table of every reachable ledger holds rows of its type.
THEOREM TypeCorrect == Spec => []TypeOK
<1>1. Init => TypeOK
  BY InitTyped
<1>2. TypeOK /\ [Next]_vars => TypeOK'
  <2> SUFFICES ASSUME TypeOK, [Next]_vars PROVE TypeOK'
    OBVIOUS
  <2>1. CASE CategoryStep
    BY <2>1, CategoryStepTyped
  <2>2. CASE EventStep
    BY <2>2, EventStepTyped
  <2>3. CASE ReviewStep
    BY <2>3, ReviewStepTyped
  <2>4. CASE UNCHANGED vars
    BY <2>4 DEF vars, TypeOK
  <2> QED
    BY <2>1, <2>2, <2>3, <2>4 DEF Next
<1> QED
  BY <1>1, <1>2, PTL DEF Spec

-----------------------------------------------------------------------------
(* Reversals and replacements.  ReversalPairing and OneStandingReplacement  *)
(* speak of sets of rows; the inductive invariant says the same of one or   *)
(* two rows at a time, and adds that links lead to existing rows: without   *)
(* it, creating a row could meet a link that was already there.             *)

\* A reversal is effective, and cancels an existing Reversed fact.
Cancels(row, original) ==
    /\ row.posting = "EFFECTIVE"
    /\ original # None
    /\ original.posting = "REVERSED"
    /\ original.reverses = None
    /\ row.amount = original.amount
    /\ row.direction = Opposite(original.direction)
    /\ row.category = original.category
    /\ row.activity = original.activity

\* Every reversal cancels the row it reverses.
ReversalsCancel ==
    \A r \in Events :
        (event[r] # None /\ event[r].reverses # None) =>
            Cancels(event[r], event[event[r].reverses])

\* No two reversals reverse the same row.
OneReversalEach ==
    \A r, s \in Events :
        (/\ event[r] # None /\ event[s] # None
         /\ event[r].reverses # None
         /\ event[r].reverses = event[s].reverses) => r = s

\* A Reversed row has a reversal.
ReversedHasReversal ==
    \A e \in Events :
        (event[e] # None /\ event[e].posting = "REVERSED") =>
            \E r \in Events : event[r] # None /\ event[r].reverses = e

\* A replacement replaces an existing Reversed row.
ReplacementsOfReversed ==
    \A p \in Events :
        (event[p] # None /\ event[p].replaces # None) =>
            LET original == event[event[p].replaces] IN
            original # None /\ original.posting = "REVERSED"

\* No two rows replace the same row.
OneReplacementEach ==
    \A p, q \in Events :
        (/\ event[p] # None /\ event[q] # None
         /\ event[p].replaces # None
         /\ event[p].replaces = event[q].replaces) => p = q

\* The inductive invariant.
Linked ==
    /\ StatesCombine
    /\ ReversalsCancel
    /\ OneReversalEach
    /\ ReversedHasReversal
    /\ ReplacementsOfReversed
    /\ OneReplacementEach

\* A row and a link out of it are never mistaken for None.
LEMMA RowsAreNotNone ==
    ASSUME LedgerAssumption
    PROVE  /\ None \notin EventRow
           /\ None \notin Events
BY DEF LedgerAssumption

\* The empty table has no link at all.
LEMMA InitLinked == Init => Linked
BY DEF Init, Linked, StatesCombine, Rows, ReversalsCancel, OneReversalEach,
       ReversedHasReversal, ReplacementsOfReversed, OneReplacementEach

\* Changing one row keeps the links, if the row keeps its own, stays or stays
\* not Reversed, and, being a reversal or Reversed, keeps its facts.
LEMMA ChangeKeepsLinks ==
    ASSUME TypeOK, Linked, NEW e \in Events,
           event[e] # None,
           event'[e] # None,
           \A x \in Events : x # e => event'[x] = event[x],
           event'[e].reverses = event[e].reverses,
           event'[e].replaces = event[e].replaces,
           event'[e].posting = "REVERSED" <=> event[e].posting = "REVERSED",
           event'[e].approval = "APPROVED" <=> event'[e].posting # "NOT_EFFECTIVE",
           event'[e].approval = "PENDING" => ~event'[e].archived,
           (event[e].reverses # None \/ event[e].posting = "REVERSED") =>
               /\ event'[e].posting = event[e].posting
               /\ event'[e].amount = event[e].amount
               /\ event'[e].direction = event[e].direction
               /\ event'[e].category = event[e].category
               /\ event'[e].activity = event[e].activity
    PROVE  Linked'
<1>1. \A x \in Events : /\ event'[x] # None <=> event[x] # None
                        /\ event'[x].reverses = event[x].reverses
                        /\ event'[x].replaces = event[x].replaces
                        /\ event'[x].posting = "REVERSED" <=> event[x].posting = "REVERSED"
  OBVIOUS
<1>2. \A x \in Events : event[x] # None =>
          event[x].reverses \in Events \cup {None} /\ event[x].replaces \in Events \cup {None}
  BY DEF TypeOK, EventRow
<1>3. StatesCombine'
  <2> SUFFICES ASSUME NEW x \in Events, event'[x] # None
               PROVE  /\ event'[x].approval = "APPROVED" <=> event'[x].posting # "NOT_EFFECTIVE"
                      /\ event'[x].reverses # None => event'[x].posting = "EFFECTIVE"
                      /\ event'[x].approval = "PENDING" => ~event'[x].archived
    BY DEF StatesCombine, Rows
  <2>1. CASE x = e
    BY <2>1 DEF Linked, StatesCombine, Rows
  <2>2. CASE x # e
    BY <2>2 DEF Linked, StatesCombine, Rows
  <2> QED
    BY <2>1, <2>2
<1>4. ReversalsCancel'
  <2> SUFFICES ASSUME NEW r \in Events, event'[r] # None, event'[r].reverses # None
               PROVE  Cancels(event'[r], event'[event'[r].reverses])
    BY DEF ReversalsCancel
  <2>1. event[r].reverses \in Events /\ event'[r].reverses = event[r].reverses
    BY <1>1, <1>2
  <2>2. Cancels(event[r], event[event[r].reverses])
    BY <1>1 DEF Linked, ReversalsCancel
  <2>3. /\ event'[r].posting = event[r].posting
        /\ event'[r].amount = event[r].amount
        /\ event'[r].direction = event[r].direction
        /\ event'[r].category = event[r].category
        /\ event'[r].activity = event[r].activity
    BY <1>1
  <2>4. LET o == event[r].reverses IN
        /\ event'[o] # None
        /\ event'[o].posting = event[o].posting
        /\ event'[o].reverses = event[o].reverses
        /\ event'[o].amount = event[o].amount
        /\ event'[o].direction = event[o].direction
        /\ event'[o].category = event[o].category
        /\ event'[o].activity = event[o].activity
    BY <1>1, <2>1, <2>2 DEF Cancels
  <2> QED
    BY <2>1, <2>2, <2>3, <2>4 DEF Cancels
<1>5. OneReversalEach'
  BY <1>1 DEF Linked, OneReversalEach
<1>6. ReversedHasReversal'
  BY <1>1 DEF Linked, ReversedHasReversal
<1>7. ReplacementsOfReversed'
  BY <1>1, <1>2 DEF Linked, ReplacementsOfReversed
<1>8. OneReplacementEach'
  BY <1>1 DEF Linked, OneReplacementEach
<1> QED
  BY <1>3, <1>4, <1>5, <1>6, <1>7, <1>8 DEF Linked

\* A new row without links joins the existing ones; no link led to it before.
LEMMA PlainInsertKeepsLinks ==
    ASSUME TypeOK, Linked, NEW e \in Events,
           event[e] = None,
           event'[e] # None,
           \A x \in Events : x # e => event'[x] = event[x],
           event'[e].reverses = None,
           event'[e].replaces = None,
           event'[e].posting # "REVERSED",
           event'[e].approval = "APPROVED" <=> event'[e].posting # "NOT_EFFECTIVE",
           ~event'[e].archived
    PROVE  Linked'
<1>1. \A x \in Events : event[x] # None =>
          /\ x # e
          /\ event'[x] = event[x]
          /\ event[x].reverses \in Events \cup {None}
          /\ event[x].replaces \in Events \cup {None}
  BY DEF TypeOK, EventRow
<1>2. \A x \in Events : event'[x] # None /\ x # e => event[x] # None /\ event'[x] = event[x]
  OBVIOUS
<1>3. StatesCombine'
  <2> SUFFICES ASSUME NEW x \in Events, event'[x] # None
               PROVE  /\ event'[x].approval = "APPROVED" <=> event'[x].posting # "NOT_EFFECTIVE"
                      /\ event'[x].reverses # None => event'[x].posting = "EFFECTIVE"
                      /\ event'[x].approval = "PENDING" => ~event'[x].archived
    BY DEF StatesCombine, Rows
  <2>1. CASE x = e
    BY <2>1
  <2>2. CASE x # e
    BY <1>2, <2>2 DEF Linked, StatesCombine, Rows
  <2> QED
    BY <2>1, <2>2
<1>4. ReversalsCancel'
  BY <1>1, <1>2 DEF Linked, ReversalsCancel, Cancels
<1>5. OneReversalEach'
  BY <1>2 DEF Linked, OneReversalEach
<1>6. ReversedHasReversal'
  BY <1>1, <1>2 DEF Linked, ReversedHasReversal
<1>7. ReplacementsOfReversed'
  BY <1>1, <1>2 DEF Linked, ReplacementsOfReversed
<1>8. OneReplacementEach'
  BY <1>2 DEF Linked, OneReplacementEach
<1> QED
  BY <1>3, <1>4, <1>5, <1>6, <1>7, <1>8 DEF Linked

\* What reversing e leaves in the rows of e and of its reversal r.
Reverses(e, r) ==
    /\ event'[e] # None
    /\ event'[e].approval = "APPROVED"
    /\ event'[e].posting = "REVERSED"
    /\ event'[e].reverses = None
    /\ event'[e].replaces = event[e].replaces
    /\ event'[r] # None
    /\ event'[r].approval = "APPROVED"
    /\ event'[r].reverses = e
    /\ event'[r].replaces = None
    /\ Cancels(event'[r], event'[e])

\* The rows of P, one at most, are new replacements of e.
Replaces(e, r, P) ==
    /\ P \subseteq Events \ {e, r}
    /\ \A p, q \in P : p = q
    /\ \A p \in P : /\ event[p] = None
                     /\ event'[p] # None
                     /\ event'[p].approval = "APPROVED"
                     /\ event'[p].posting = "EFFECTIVE"
                     /\ event'[p].reverses = None
                     /\ event'[p].replaces = e
    /\ \A x \in Events \ ({e, r} \cup P) : event'[x] = event[x]

\* Reversing an effective fact that is no reversal keeps the links: the fact
\* had no reversal and no replacement, and now has one reversal.
LEMMA ReversalKeepsLinks ==
    ASSUME TypeOK, LedgerAssumption, Linked,
           NEW e \in Events, NEW r \in Events, NEW P,
           event[e] # None, IsReversible(event[e]), event[r] = None,
           Reverses(e, r), Replaces(e, r, P)
    PROVE  Linked'
<1> USE DEF Reverses, Replaces, IsReversible
<1>1. e # r /\ e \notin P /\ r \notin P /\ e # None
  BY RowsAreNotNone
<1>2. \A x \in Events : event[x] # None =>
          /\ x = e \/ (x # r /\ x \notin P /\ event'[x] = event[x])
          /\ event[x].reverses \in Events \cup {None}
          /\ event[x].replaces \in Events \cup {None}
  BY DEF TypeOK, EventRow
<1>3. \A x \in Events : event'[x] # None =>
          \/ x = e
          \/ x = r
          \/ x \in P
          \/ event[x] # None /\ event'[x] = event[x]
  OBVIOUS
<1>4. \A x \in Events : event[x] # None => event[x].reverses # e /\ event[x].replaces # e
  BY <1>1 DEF Linked, ReversalsCancel, Cancels, ReplacementsOfReversed
<1>5. StatesCombine'
  <2> SUFFICES ASSUME NEW x \in Events, event'[x] # None
               PROVE  /\ event'[x].approval = "APPROVED" <=> event'[x].posting # "NOT_EFFECTIVE"
                      /\ event'[x].reverses # None => event'[x].posting = "EFFECTIVE"
                      /\ event'[x].approval = "PENDING" => ~event'[x].archived
    BY DEF StatesCombine, Rows
  <2>1. CASE x \in {e, r} \cup P
    BY <2>1 DEF Cancels
  <2>2. CASE event[x] # None /\ event'[x] = event[x]
    BY <2>2 DEF Linked, StatesCombine, Rows
  <2> QED
    BY <1>3, <2>1, <2>2
<1>6. ReversalsCancel'
  <2> SUFFICES ASSUME NEW x \in Events, event'[x] # None, event'[x].reverses # None
               PROVE  Cancels(event'[x], event'[event'[x].reverses])
    BY DEF ReversalsCancel
  <2>1. CASE x = r
    BY <2>1
  <2>2. CASE event[x] # None /\ event'[x] = event[x]
    <3>1. /\ event[x].reverses \in Events
          /\ event[x].reverses # e
          /\ Cancels(event[x], event[event[x].reverses])
      BY <1>2, <1>4, <2>2 DEF Linked, ReversalsCancel
    <3>2. event'[event[x].reverses] = event[event[x].reverses]
      BY <1>2, <3>1 DEF Cancels
    <3> QED
      BY <2>2, <3>1, <3>2
  <2> QED
    BY <1>3, <2>1, <2>2
<1>7. OneReversalEach'
  <2> SUFFICES ASSUME NEW x \in Events, NEW y \in Events, event'[x] # None, event'[y] # None,
                      event'[x].reverses # None, event'[x].reverses = event'[y].reverses
               PROVE  x = y
    BY DEF OneReversalEach
  <2>1. x = r \/ (event[x] # None /\ event'[x] = event[x])
    BY <1>3
  <2>2. y = r \/ (event[y] # None /\ event'[y] = event[y])
    BY <1>3
  <2> QED
    BY <1>4, <2>1, <2>2 DEF Linked, OneReversalEach
<1>8. ReversedHasReversal'
  <2> SUFFICES ASSUME NEW x \in Events, event'[x] # None, event'[x].posting = "REVERSED"
               PROVE  \E y \in Events : event'[y] # None /\ event'[y].reverses = x
    BY DEF ReversedHasReversal
  <2>1. CASE x = e
    BY <2>1
  <2>2. CASE event[x] # None /\ event'[x] = event[x]
    <3>1. PICK y \in Events : event[y] # None /\ event[y].reverses = x
      BY <2>2 DEF Linked, ReversedHasReversal
    <3>2. y # e
      BY <3>1, RowsAreNotNone
    <3> QED
      BY <1>2, <3>1, <3>2
  <2> QED
    BY <1>3, <2>1, <2>2 DEF Cancels
<1>9. ReplacementsOfReversed'
  <2> SUFFICES ASSUME NEW x \in Events, event'[x] # None, event'[x].replaces # None
               PROVE  /\ event'[event'[x].replaces] # None
                      /\ event'[event'[x].replaces].posting = "REVERSED"
    BY DEF ReplacementsOfReversed
  <2>1. CASE x \in P
    BY <2>1
  <2>2. CASE event[x] # None /\ event'[x].replaces = event[x].replaces
    <3>1. /\ event[x].replaces \in Events
          /\ event[x].replaces # e
          /\ event[event[x].replaces] # None
          /\ event[event[x].replaces].posting = "REVERSED"
      BY <1>2, <1>4, <2>2 DEF Linked, ReplacementsOfReversed
    <3>2. event'[event[x].replaces] = event[event[x].replaces]
      BY <1>2, <3>1
    <3> QED
      BY <2>2, <3>1, <3>2
  <2> QED
    BY <1>3, <2>1, <2>2
<1>10. OneReplacementEach'
  <2> SUFFICES ASSUME NEW x \in Events, NEW y \in Events, event'[x] # None, event'[y] # None,
                      event'[x].replaces # None, event'[x].replaces = event'[y].replaces
               PROVE  x = y
    BY DEF OneReplacementEach
  <2>1. x \in P \/ (event[x] # None /\ event'[x].replaces = event[x].replaces)
    BY <1>3
  <2>2. y \in P \/ (event[y] # None /\ event'[y].replaces = event[y].replaces)
    BY <1>3
  <2> QED
    BY <1>4, <2>1, <2>2 DEF Linked, OneReplacementEach
<1> QED
  BY <1>5, <1>6, <1>7, <1>8, <1>9, <1>10 DEF Linked

\* Editing an event row gives an event row.
LEMMA EditedRowTyped ==
    ASSUME NEW row \in EventRow, NEW c \in Categories, NEW activity \in Activities,
           NEW amount \in Amounts
    PROVE  [row EXCEPT !.category = c, !.activity = activity, !.amount = amount,
                       !.version = @ + 1] \in EventRow
<1>1. row.version + 1 \in Version
  BY DEF EventRow, Version
<1> QED
  BY <1>1 DEF EventRow

\* So does a decision.
LEMMA DecidedRowTyped ==
    ASSUME NEW row \in EventRow, NEW approval \in {"APPROVED", "REJECTED"}
    PROVE  [row EXCEPT
              !.approval = approval,
              !.posting = IF approval = "APPROVED" THEN "EFFECTIVE" ELSE "NOT_EFFECTIVE",
              !.version = @ + 1] \in EventRow
<1>1. row.version + 1 \in Version
  BY DEF EventRow, Version
<1> QED
  BY <1>1 DEF EventRow

\* So does being reversed.
LEMMA ReversedRowTyped ==
    ASSUME NEW row \in EventRow
    PROVE  [row EXCEPT !.posting = "REVERSED", !.version = @ + 1] \in EventRow
<1>1. row.version + 1 \in Version
  BY DEF EventRow, Version
<1> QED
  BY <1>1 DEF EventRow

\* So does archiving.
LEMMA ArchivedRowTyped ==
    ASSUME NEW row \in EventRow
    PROVE  [row EXCEPT !.archived = TRUE, !.version = @ + 1] \in EventRow
<1>1. row.version + 1 \in Version
  BY DEF EventRow, Version
<1> QED
  BY <1>1 DEF EventRow

\* Those facts follow from the two rows reverse_event writes.
LEMMA ReversalFacts ==
    ASSUME TypeOK, LedgerAssumption,
           NEW m \in Members, NEW e \in Events, NEW r \in Events,
           event[e] # None, IsReversible(event[e]),
           event'[e] = [event[e] EXCEPT !.posting = "REVERSED", !.version = @ + 1],
           event'[r] = ReversalOf(m, e)
    PROVE  Reverses(e, r)
<1>1. event[e] \in EventRow
  BY DEF TypeOK
<1>2. [event[e] EXCEPT !.posting = "REVERSED", !.version = @ + 1] \in EventRow
  BY <1>1, ReversedRowTyped
<1>3. ReversalOf(m, e) \in EventRow
  BY ReversalTyped
<1>4. event'[e] # None /\ event'[r] # None
  BY <1>2, <1>3, RowsAreNotNone
<1>5. /\ event'[e].approval = "APPROVED"
      /\ event'[e].posting = "REVERSED"
      /\ event'[e].reverses = None
      /\ event'[e].replaces = event[e].replaces
      /\ event'[e].amount = event[e].amount
      /\ event'[e].direction = event[e].direction
      /\ event'[e].category = event[e].category
      /\ event'[e].activity = event[e].activity
  BY <1>1 DEF EventRow, IsReversible
<1>6. /\ event'[r].approval = "APPROVED"
      /\ event'[r].posting = "EFFECTIVE"
      /\ event'[r].reverses = e
      /\ event'[r].replaces = None
      /\ event'[r].amount = event[e].amount
      /\ event'[r].direction = Opposite(event[e].direction)
      /\ event'[r].category = event[e].category
      /\ event'[r].activity = event[e].activity
  BY <1>1 DEF EventRow, IsReversible, ReversalOf
<1> QED
  BY <1>4, <1>5, <1>6 DEF Reverses, Cancels

\* A command on an event keeps the links: edits, decisions and archiving change
\* one row, creation adds a plain one, reversal and correction add linked ones.
LEMMA EventStepLinked ==
    ASSUME LedgerAssumption, TypeOK, Linked, EventStep
    PROVE  Linked'
<1>0. None \notin EventRow /\ None \notin Events
  BY RowsAreNotNone
<1>1. PICK m \in Members, e \in Events :
        \/ \E c \in Categories, direction \in Directions, activity \in Activities,
              amount \in Amounts : CreateEvent(m, e, c, direction, activity, amount)
        \/ \E c \in Categories, activity \in Activities, amount \in Amounts :
                UpdatePendingEvent(m, e, c, activity, amount)
        \/ \E approval \in {"APPROVED", "REJECTED"} : DecidePendingEvent(m, e, approval)
        \/ \E r \in Events, action \in {"REVERSED", "CORRECTED"} :
                ReverseEvent(m, e, r, action)
        \/ \E r \in Events, p \in Events, c \in Categories, direction \in Directions,
              activity \in Activities, amount \in Amounts :
                CorrectEvent(m, e, r, p, c, direction, activity, amount)
        \/ ArchiveEvent(m, e)
  BY EventStepCases
<1>2. event \in [Events -> EventRow \cup {None}] /\ event' \in [Events -> EventRow \cup {None}]
  BY EventStepTyped DEF TypeOK
<1>3. event[e] # None =>
          /\ event[e] \in EventRow
          /\ event[e].approval = "APPROVED" <=> event[e].posting # "NOT_EFFECTIVE"
          /\ event[e].reverses # None => event[e].posting = "EFFECTIVE"
  BY <1>2 DEF Linked, StatesCombine, Rows
<1>4. ASSUME NEW c \in Categories, NEW direction \in Directions, NEW activity \in Activities,
             NEW amount \in Amounts, CreateEvent(m, e, c, direction, activity, amount)
      PROVE  Linked'
  <2>1. event'[e] = NewEvent(m, c, direction, activity, amount)
    BY <1>2, <1>4 DEF CreateEvent
  <2>2. event'[e] # None
    BY <1>0, <2>1, NewEventTyped
  <2>3. \A x \in Events : x # e => event'[x] = event[x]
    BY <1>2, <1>4 DEF CreateEvent
  <2> QED
    BY <1>4, <2>1, <2>2, <2>3, PlainInsertKeepsLinks DEF CreateEvent, NewEvent
<1>5. ASSUME NEW c \in Categories, NEW activity \in Activities, NEW amount \in Amounts,
             UpdatePendingEvent(m, e, c, activity, amount)
      PROVE  Linked'
  <2>1. event'[e] = [event[e] EXCEPT !.category = c, !.activity = activity,
                                     !.amount = amount, !.version = @ + 1]
    BY <1>2, <1>5 DEF UpdatePendingEvent
  <2>2. event[e] # None /\ IsPending(event[e])
    BY <1>5 DEF UpdatePendingEvent
  <2>3. /\ event'[e].reverses = event[e].reverses
        /\ event'[e].replaces = event[e].replaces
        /\ event'[e].posting = event[e].posting
        /\ event'[e].approval = event[e].approval
        /\ event'[e].archived = event[e].archived
    BY <1>3, <2>1, <2>2 DEF EventRow
  <2>4. event'[e] # None
    <3>1. [event[e] EXCEPT !.category = c, !.activity = activity,
                         !.amount = amount, !.version = @ + 1] \in EventRow
      BY <1>3, <2>2, EditedRowTyped
    <3> QED
      BY <1>0, <2>1, <3>1
  <2>5. \A x \in Events : x # e => event'[x] = event[x]
    BY <1>2, <1>5 DEF UpdatePendingEvent
  <2>6. event[e].reverses = None /\ event[e].posting # "REVERSED"
    BY <1>3, <2>2 DEF IsPending
  <2> QED
    BY <1>3, <2>2, <2>3, <2>4, <2>5, <2>6, ChangeKeepsLinks DEF IsPending
<1>6. ASSUME NEW approval \in {"APPROVED", "REJECTED"}, DecidePendingEvent(m, e, approval)
      PROVE  Linked'
  <2>1. event'[e] = [event[e] EXCEPT
           !.approval = approval,
           !.posting = IF approval = "APPROVED" THEN "EFFECTIVE" ELSE "NOT_EFFECTIVE",
           !.version = @ + 1]
    BY <1>2, <1>6 DEF DecidePendingEvent
  <2>2. event[e] # None /\ IsPending(event[e])
    BY <1>6 DEF DecidePendingEvent
  <2>3. /\ event'[e].reverses = event[e].reverses
        /\ event'[e].replaces = event[e].replaces
        /\ event'[e].posting =
               IF approval = "APPROVED" THEN "EFFECTIVE" ELSE "NOT_EFFECTIVE"
        /\ event'[e].approval = approval
    BY <1>3, <2>1, <2>2 DEF EventRow
  <2>4. event'[e] # None
    <3>1. [event[e] EXCEPT
           !.approval = approval,
           !.posting = IF approval = "APPROVED" THEN "EFFECTIVE" ELSE "NOT_EFFECTIVE",
           !.version = @ + 1] \in EventRow
      BY <1>3, <2>2, DecidedRowTyped
    <3> QED
      BY <1>0, <2>1, <3>1
  <2>5. \A x \in Events : x # e => event'[x] = event[x]
    BY <1>2, <1>6 DEF DecidePendingEvent
  <2>6. event[e].reverses = None /\ event[e].posting # "REVERSED"
    BY <1>3, <2>2 DEF IsPending
  <2> QED
    BY <1>3, <2>2, <2>3, <2>4, <2>5, <2>6, ChangeKeepsLinks
<1>7. ASSUME NEW r \in Events, NEW action \in {"REVERSED", "CORRECTED"},
             ReverseEvent(m, e, r, action)
      PROVE  Linked'
  <2>1. event[e] # None /\ IsReversible(event[e]) /\ event[r] = None
    BY <1>7 DEF ReverseEvent
  <2>2. e # r
    BY <2>1
  <2>3. /\ event'[e] = [event[e] EXCEPT !.posting = "REVERSED", !.version = @ + 1]
        /\ event'[r] = ReversalOf(m, e)
        /\ \A x \in Events \ {e, r} : event'[x] = event[x]
    BY <1>2, <1>7, <2>2 DEF ReverseEvent
  <2>4. Reverses(e, r)
    BY <2>1, <2>3, ReversalFacts
  <2>5. Replaces(e, r, {})
    BY <2>3 DEF Replaces
  <2> QED
    BY <2>1, <2>4, <2>5, ReversalKeepsLinks
<1>8. ASSUME NEW r \in Events, NEW p \in Events, NEW c \in Categories,
             NEW direction \in Directions, NEW activity \in Activities, NEW amount \in Amounts,
             CorrectEvent(m, e, r, p, c, direction, activity, amount)
      PROVE  Linked'
  <2>1. event[e] # None /\ IsReversible(event[e]) /\ event[r] = None /\ event[p] = None
    BY <1>8 DEF CorrectEvent
  <2>2. e # r /\ e # p /\ r # p
    BY <1>8, <2>1 DEF CorrectEvent
  <2>3. /\ event'[e] = [event[e] EXCEPT !.posting = "REVERSED", !.version = @ + 1]
        /\ event'[r] = ReversalOf(m, e)
        /\ event'[p] = ReplacementFor(m, e, c, direction, activity, amount)
        /\ \A x \in Events \ {e, r, p} : event'[x] = event[x]
    BY <1>2, <1>8, <2>2 DEF CorrectEvent
  <2>4. Reverses(e, r)
    BY <2>1, <2>3, ReversalFacts
  <2>5. event'[p] # None
    BY <1>0, <2>3, ReplacementTyped
  <2>6. Role[m] = "ADMIN"
    BY <1>8 DEF CorrectEvent, Can, RolesWith
  <2>7. /\ event'[p].approval = "APPROVED"
        /\ event'[p].posting = "EFFECTIVE"
        /\ event'[p].reverses = None
        /\ event'[p].replaces = e
    BY <2>3, <2>6 DEF ReplacementFor, NewEvent
  <2>8. Replaces(e, r, {p})
    BY <2>1, <2>2, <2>3, <2>5, <2>7 DEF Replaces
  <2> QED
    BY <2>1, <2>4, <2>8, ReversalKeepsLinks
<1>9. ASSUME ArchiveEvent(m, e)
      PROVE  Linked'
  <2>1. event'[e] = [event[e] EXCEPT !.archived = TRUE, !.version = @ + 1]
    BY <1>2, <1>9 DEF ArchiveEvent
  <2>2. event[e] # None /\ event[e].approval # "PENDING"
    BY <1>9 DEF ArchiveEvent
  <2>3. /\ event'[e].reverses = event[e].reverses
        /\ event'[e].replaces = event[e].replaces
        /\ event'[e].posting = event[e].posting
        /\ event'[e].approval = event[e].approval
        /\ event'[e].amount = event[e].amount
        /\ event'[e].direction = event[e].direction
        /\ event'[e].category = event[e].category
        /\ event'[e].activity = event[e].activity
    BY <1>3, <2>1, <2>2 DEF EventRow
  <2>4. event'[e] # None
    <3>1. [event[e] EXCEPT !.archived = TRUE, !.version = @ + 1] \in EventRow
      BY <1>3, <2>2, ArchivedRowTyped
    <3> QED
      BY <1>0, <2>1, <3>1
  <2>5. \A x \in Events : x # e => event'[x] = event[x]
    BY <1>2, <1>9 DEF ArchiveEvent
  <2> QED
    BY <1>3, <2>2, <2>3, <2>4, <2>5, ChangeKeepsLinks
<1> QED
  BY <1>1, <1>4, <1>5, <1>6, <1>7, <1>8, <1>9

\* The links are an invariant: only commands on events touch event rows.
THEOREM LinkedInvariant == Spec => []Linked
<1>1. Init => Linked
  BY InitLinked
<1>2. LedgerAssumption /\ TypeOK /\ Linked /\ [Next]_vars => Linked'
  <2> SUFFICES ASSUME LedgerAssumption, TypeOK, Linked, [Next]_vars PROVE Linked'
    OBVIOUS
  <2>1. CASE EventStep
    BY <2>1, EventStepLinked
  <2>2. CASE UNCHANGED event
    BY <2>2 DEF Linked, StatesCombine, Rows, ReversalsCancel, OneReversalEach,
                ReversedHasReversal, ReplacementsOfReversed, OneReplacementEach
  <2>3. CategoryStep \/ ReviewStep \/ UNCHANGED vars => UNCHANGED event
    BY DEF CategoryStep, CreateCategory, RenameCategory, ArchiveCategory,
           ReviewStep, CreateReview, ResolveReview, vars
  <2> QED
    BY <2>1, <2>2, <2>3 DEF Next
<1> QED
  BY <1>1, <1>2, TypeCorrect, LedgerAssumption, PTL DEF Spec

\* Only Approved facts are effective or reversed, in every reachable ledger.
THEOREM StatesAlwaysCombine == Spec => []StatesCombine
<1>1. Linked => StatesCombine
  BY DEF Linked
<1> QED
  BY <1>1, LinkedInvariant, PTL

\* A fact is Reversed exactly when one effective reversal cancels it.
THEOREM ReversalsPaired == Spec => []ReversalPairing
<1>1. Linked => ReversalPairing
  <2> SUFFICES ASSUME Linked, NEW e \in Rows
               PROVE  /\ event[e].posting = "REVERSED" <=> ReversalsOf(e) # {}
                      /\ \A r \in ReversalsOf(e) :
                            /\ ReversalsOf(e) = {r}
                            /\ ReversalsOf(r) = {}
                            /\ event[r].posting = "EFFECTIVE"
                            /\ event[r].amount = event[e].amount
                            /\ event[r].direction = Opposite(event[e].direction)
                            /\ event[r].category = event[e].category
                            /\ event[r].activity = event[e].activity
    BY DEF ReversalPairing
  <2>0. e # None
    BY LedgerAssumption, RowsAreNotNone DEF Rows
  <2>1. \A r \in ReversalsOf(e) :
           /\ r \in Rows
           /\ event[r].reverses = e
           /\ Cancels(event[r], event[e])
    BY <2>0 DEF ReversalsOf, Rows, Linked, ReversalsCancel
  <2>2. event[e].posting = "REVERSED" => ReversalsOf(e) # {}
    BY DEF Linked, ReversedHasReversal, ReversalsOf, Rows
  <2>3. ReversalsOf(e) # {} => event[e].posting = "REVERSED"
    BY <2>1 DEF Cancels
  <2>4. \A r \in ReversalsOf(e) : ReversalsOf(e) = {r}
    BY <2>0, <2>1 DEF ReversalsOf, Rows, Linked, OneReversalEach
  <2>5. \A r \in ReversalsOf(e) : ReversalsOf(r) = {}
    <3> SUFFICES ASSUME NEW r \in ReversalsOf(e), NEW s \in ReversalsOf(r) PROVE FALSE
      OBVIOUS
    <3>1. r \in Events /\ event[r] # None /\ event[r].reverses = e
      BY <2>1 DEF Rows
    <3>2. s \in Events /\ event[s] # None /\ event[s].reverses = r /\ r # None
      BY <3>1, LedgerAssumption, RowsAreNotNone DEF ReversalsOf, Rows
    <3>3. event[r].reverses = None
      BY <3>2 DEF Linked, ReversalsCancel, Cancels
    <3> QED
      BY <2>0, <3>1, <3>3
  <2> QED
    BY <2>1, <2>2, <2>3, <2>4, <2>5 DEF Cancels
<1> QED
  BY <1>1, LinkedInvariant, PTL

\* A corrected fact is Reversed and has one replacement at most.
THEOREM ReplacementStandsAlone == Spec => []OneStandingReplacement
<1>1. Linked => OneStandingReplacement
  <2> SUFFICES ASSUME Linked, NEW e \in Rows, NEW p \in ReplacementsFor(e)
               PROVE  ReplacementsFor(e) = {p} /\ event[e].posting = "REVERSED"
    BY DEF OneStandingReplacement
  <2>1. e # None
    BY LedgerAssumption, RowsAreNotNone DEF Rows
  <2> QED
    BY <2>1 DEF ReplacementsFor, Rows, Linked, ReplacementsOfReversed, OneReplacementEach
<1> QED
  BY <1>1, LinkedInvariant, PTL

-----------------------------------------------------------------------------
(* What one step may do to a row.                                          *)

\* A changed row has the next version, and is pending or keeps its facts.
RowMoves(old, new) ==
    /\ new \in EventRow
    /\ new.version = old.version + 1
    /\ old.approval # "PENDING" =>
          /\ Facts(new) = Facts(old)
          /\ new.posting # old.posting =>
                old.posting = "EFFECTIVE" /\ new.posting = "REVERSED"
          /\ old.archived => new.archived

\* Every command on events leaves an existing row alone or moves it that way.
LEMMA EventRowsMove ==
    ASSUME TypeOK, EventStep, NEW x \in Rows
    PROVE  event'[x] = event[x] \/ RowMoves(event[x], event'[x])
<1>1. PICK m \in Members, e \in Events :
        \/ \E c \in Categories, direction \in Directions, activity \in Activities,
              amount \in Amounts : CreateEvent(m, e, c, direction, activity, amount)
        \/ \E c \in Categories, activity \in Activities, amount \in Amounts :
                UpdatePendingEvent(m, e, c, activity, amount)
        \/ \E approval \in {"APPROVED", "REJECTED"} : DecidePendingEvent(m, e, approval)
        \/ \E r \in Events, action \in {"REVERSED", "CORRECTED"} :
                ReverseEvent(m, e, r, action)
        \/ \E r \in Events, p \in Events, c \in Categories, direction \in Directions,
              activity \in Activities, amount \in Amounts :
                CorrectEvent(m, e, r, p, c, direction, activity, amount)
        \/ ArchiveEvent(m, e)
  BY EventStepCases
<1>2. x \in Events /\ event[x] # None /\ event[x] \in EventRow
  BY DEF Rows, TypeOK
<1>3. event \in [Events -> EventRow \cup {None}]
  BY DEF TypeOK
<1>4. ASSUME NEW c \in Categories, NEW direction \in Directions, NEW activity \in Activities,
             NEW amount \in Amounts, CreateEvent(m, e, c, direction, activity, amount)
      PROVE  event'[x] = event[x]
  BY <1>2, <1>3, <1>4 DEF CreateEvent
<1>5. ASSUME NEW c \in Categories, NEW activity \in Activities, NEW amount \in Amounts,
             UpdatePendingEvent(m, e, c, activity, amount)
      PROVE  event'[x] = event[x] \/ RowMoves(event[x], event'[x])
  <2>1. CASE x = e
    <3>1. event'[x] = [event[x] EXCEPT !.category = c, !.activity = activity,
                                       !.amount = amount, !.version = @ + 1]
      BY <1>2, <1>3, <1>5, <2>1 DEF UpdatePendingEvent
    <3>2. event'[x] \in EventRow
      <4>1. [event[x] EXCEPT !.category = c, !.activity = activity,
                           !.amount = amount, !.version = @ + 1] \in EventRow
        BY <1>2, EditedRowTyped
      <4> QED
        BY <3>1, <4>1
    <3>3. event'[x].version = event[x].version + 1
      BY <1>2, <3>1 DEF EventRow
    <3>4. event[x].approval = "PENDING"
      BY <1>5, <2>1 DEF UpdatePendingEvent, IsPending
    <3> QED
      BY <3>2, <3>3, <3>4 DEF RowMoves
  <2>2. CASE x # e
    BY <1>2, <1>3, <1>5, <2>2 DEF UpdatePendingEvent
  <2> QED
    BY <2>1, <2>2
<1>6. ASSUME NEW approval \in {"APPROVED", "REJECTED"}, DecidePendingEvent(m, e, approval)
      PROVE  event'[x] = event[x] \/ RowMoves(event[x], event'[x])
  <2>1. CASE x = e
    <3>1. event'[x] = [event[x] EXCEPT
             !.approval = approval,
             !.posting = IF approval = "APPROVED" THEN "EFFECTIVE" ELSE "NOT_EFFECTIVE",
             !.version = @ + 1]
      BY <1>2, <1>3, <1>6, <2>1 DEF DecidePendingEvent
    <3>2. event'[x] \in EventRow
      <4>1. [event[x] EXCEPT
             !.approval = approval,
             !.posting = IF approval = "APPROVED" THEN "EFFECTIVE" ELSE "NOT_EFFECTIVE",
             !.version = @ + 1] \in EventRow
        BY <1>2, DecidedRowTyped
      <4> QED
        BY <3>1, <4>1
    <3>3. event'[x].version = event[x].version + 1
      BY <1>2, <3>1, <3>2 DEF EventRow
    <3>4. event[x].approval = "PENDING"
      BY <1>6, <2>1 DEF DecidePendingEvent, IsPending
    <3> QED
      BY <3>2, <3>3, <3>4 DEF RowMoves
  <2>2. CASE x # e
    BY <1>2, <1>3, <1>6, <2>2 DEF DecidePendingEvent
  <2> QED
    BY <2>1, <2>2
<1>7. ASSUME event'[e] = [event[e] EXCEPT !.posting = "REVERSED", !.version = @ + 1],
             x = e, IsReversible(event[e])
      PROVE  RowMoves(event[x], event'[x])
  <2>1. event'[x] \in EventRow
    <3>1. [event[x] EXCEPT !.posting = "REVERSED", !.version = @ + 1] \in EventRow
      BY <1>2, ReversedRowTyped
    <3> QED
      BY <1>7, <3>1
  <2>2. event'[x].version = event[x].version + 1
    BY <1>2, <1>7 DEF EventRow
  <2>3. /\ Facts(event'[x]) = Facts(event[x])
        /\ event[x].posting = "EFFECTIVE" /\ event'[x].posting = "REVERSED"
        /\ event'[x].archived = event[x].archived
    BY <1>2, <1>7 DEF EventRow, Facts, IsReversible
  <2> QED
    BY <2>1, <2>2, <2>3 DEF RowMoves
<1>8. ASSUME NEW r \in Events, NEW action \in {"REVERSED", "CORRECTED"},
             ReverseEvent(m, e, r, action)
      PROVE  event'[x] = event[x] \/ RowMoves(event[x], event'[x])
  <2>1. e # r /\ x # r /\ IsReversible(event[e])
    BY <1>2, <1>8 DEF ReverseEvent
  <2>2. /\ event'[e] = [event[e] EXCEPT !.posting = "REVERSED", !.version = @ + 1]
        /\ x # e => event'[x] = event[x]
    BY <1>2, <1>3, <1>8, <2>1 DEF ReverseEvent
  <2> QED
    BY <1>7, <2>1, <2>2
<1>9. ASSUME NEW r \in Events, NEW p \in Events, NEW c \in Categories,
             NEW direction \in Directions, NEW activity \in Activities, NEW amount \in Amounts,
             CorrectEvent(m, e, r, p, c, direction, activity, amount)
      PROVE  event'[x] = event[x] \/ RowMoves(event[x], event'[x])
  <2>1. e # r /\ e # p /\ x # r /\ x # p /\ IsReversible(event[e])
    BY <1>2, <1>9 DEF CorrectEvent
  <2>2. /\ event'[e] = [event[e] EXCEPT !.posting = "REVERSED", !.version = @ + 1]
        /\ x # e => event'[x] = event[x]
    BY <1>2, <1>3, <1>9, <2>1 DEF CorrectEvent
  <2> QED
    BY <1>7, <2>1, <2>2
<1>10. ASSUME ArchiveEvent(m, e)
       PROVE  event'[x] = event[x] \/ RowMoves(event[x], event'[x])
  <2>1. CASE x = e
    <3>1. event'[x] = [event[x] EXCEPT !.archived = TRUE, !.version = @ + 1]
      BY <1>2, <1>3, <1>10, <2>1 DEF ArchiveEvent
    <3>2. event'[x] \in EventRow
      <4>1. [event[x] EXCEPT !.archived = TRUE, !.version = @ + 1] \in EventRow
        BY <1>2, ArchivedRowTyped
      <4> QED
        BY <3>1, <4>1
    <3>3. event'[x].version = event[x].version + 1
      BY <1>2, <3>1 DEF EventRow
    <3>4. /\ Facts(event'[x]) = Facts(event[x])
          /\ event'[x].posting = event[x].posting
          /\ event'[x].archived
      BY <1>2, <3>1 DEF EventRow, Facts
    <3> QED
      BY <3>2, <3>3, <3>4 DEF RowMoves
  <2>2. CASE x # e
    BY <1>2, <1>3, <1>10, <2>2 DEF ArchiveEvent
  <2> QED
    BY <2>1, <2>2
<1> QED
  BY <1>1, <1>4, <1>5, <1>6, <1>8, <1>9, <1>10

\* Commands on categories and reviews leave the events alone.
LEMMA OtherStepsKeepEvents ==
    ASSUME CategoryStep \/ ReviewStep
    PROVE  UNCHANGED event
BY DEF CategoryStep, CreateCategory, RenameCategory, ArchiveCategory,
       ReviewStep, CreateReview, ResolveReview

\* Commands on events leave the categories and the reviews alone.
LEMMA EventStepKeepsOthers ==
    ASSUME EventStep
    PROVE  UNCHANGED category /\ UNCHANGED review
<1>1. PICK m \in Members, e \in Events :
        \/ \E c \in Categories, direction \in Directions, activity \in Activities,
              amount \in Amounts : CreateEvent(m, e, c, direction, activity, amount)
        \/ \E c \in Categories, activity \in Activities, amount \in Amounts :
                UpdatePendingEvent(m, e, c, activity, amount)
        \/ \E approval \in {"APPROVED", "REJECTED"} : DecidePendingEvent(m, e, approval)
        \/ \E r \in Events, action \in {"REVERSED", "CORRECTED"} :
                ReverseEvent(m, e, r, action)
        \/ \E r \in Events, p \in Events, c \in Categories, direction \in Directions,
              activity \in Activities, amount \in Amounts :
                CorrectEvent(m, e, r, p, c, direction, activity, amount)
        \/ ArchiveEvent(m, e)
  BY EventStepCases
<1>2. \A c \in Categories, direction \in Directions, activity \in Activities, amount \in Amounts :
        CreateEvent(m, e, c, direction, activity, amount) => UNCHANGED category /\ UNCHANGED review
  BY Zenon DEF CreateEvent
<1>3. \A c \in Categories, activity \in Activities, amount \in Amounts :
        UpdatePendingEvent(m, e, c, activity, amount) => UNCHANGED category /\ UNCHANGED review
  BY Zenon DEF UpdatePendingEvent
<1>4. \A approval \in {"APPROVED", "REJECTED"} :
        DecidePendingEvent(m, e, approval) => UNCHANGED category /\ UNCHANGED review
  BY Zenon DEF DecidePendingEvent
<1>5. \A r \in Events, action \in {"REVERSED", "CORRECTED"} :
        ReverseEvent(m, e, r, action) => UNCHANGED category /\ UNCHANGED review
  BY Zenon DEF ReverseEvent
<1>6. \A r \in Events, p \in Events, c \in Categories, direction \in Directions,
         activity \in Activities, amount \in Amounts :
        CorrectEvent(m, e, r, p, c, direction, activity, amount) =>
            UNCHANGED category /\ UNCHANGED review
  BY Zenon DEF CorrectEvent
<1>7. ArchiveEvent(m, e) => UNCHANGED category /\ UNCHANGED review
  BY Zenon DEF ArchiveEvent
<1> QED
  BY <1>1, <1>2, <1>3, <1>4, <1>5, <1>6, <1>7

\* Every step of the ledger moves existing event rows that way.
LEMMA RowsMove ==
    ASSUME TypeOK, [Next]_vars, NEW x \in Rows
    PROVE  event'[x] = event[x] \/ RowMoves(event[x], event'[x])
<1>1. CASE EventStep
  BY <1>1, EventRowsMove
<1>2. CASE CategoryStep \/ ReviewStep
  BY <1>2, OtherStepsKeepEvents
<1>3. CASE UNCHANGED vars
  BY <1>3 DEF vars
<1> QED
  BY <1>1, <1>2, <1>3 DEF Next

\* A decided event keeps its facts and its decision, in every reachable ledger.
THEOREM DecidedFactsStay == Spec => DecidedFactsFrozen
<1>1. LedgerAssumption /\ TypeOK /\ [Next]_vars => [DecidedStep]_vars
  <2> SUFFICES ASSUME LedgerAssumption, TypeOK, [Next]_vars,
                      NEW e \in Rows, event[e].approval # "PENDING"
               PROVE  /\ event'[e] # None
                      /\ Facts(event'[e]) = Facts(event[e])
                      /\ event'[e].posting # event[e].posting =>
                            event[e].posting = "EFFECTIVE" /\ event'[e].posting = "REVERSED"
                      /\ event[e].archived => event'[e].archived
    BY DEF DecidedStep
  <2>1. CASE event'[e] = event[e]
    BY <2>1 DEF Rows
  <2>2. CASE RowMoves(event[e], event'[e])
    BY <2>2, RowsAreNotNone DEF RowMoves
  <2> QED
    BY <2>1, <2>2, RowsMove
<1> QED
  BY <1>1, TypeCorrect, LedgerAssumption, PTL DEF Spec, DecidedFactsFrozen

\* A category that a step changes gets the next version.
LEMMA CategoryVersions ==
    ASSUME TypeOK, [Next]_vars, NEW c \in Categories,
           category[c] # None, category'[c] # category[c]
    PROVE  category'[c].version = category[c].version + 1
<1>1. category \in [Categories -> CategoryRow \cup {None}] /\ category[c] \in CategoryRow
  BY DEF TypeOK
<1>2. CASE CategoryStep
  <2>1. PICK m \in Members, d \in Categories :
          \/ \E name \in Names, applicability \in {"INCOME", "EXPENSE", "BOTH"},
                activity \in Activities \cup {None} :
                  CreateCategory(m, d, name, applicability, activity)
          \/ \E name \in Names : RenameCategory(m, d, name)
          \/ ArchiveCategory(m, d)
    BY <1>2 DEF CategoryStep
  <2>2. ASSUME NEW name \in Names, RenameCategory(m, d, name)
        PROVE  category'[c].version = category[c].version + 1
    <3>1. category' = [category EXCEPT ![d].name = name, ![d].version = @ + 1]
      BY <2>2 DEF RenameCategory
    <3> QED
      BY <1>1, <3>1 DEF CategoryRow
  <2>3. ASSUME ArchiveCategory(m, d)
        PROVE  category'[c].version = category[c].version + 1
    <3>1. category' = [category EXCEPT ![d].status = "ARCHIVED", ![d].version = @ + 1]
      BY <2>3 DEF ArchiveCategory
    <3> QED
      BY <1>1, <3>1 DEF CategoryRow
  <2>4. ASSUME NEW name \in Names, NEW applicability \in {"INCOME", "EXPENSE", "BOTH"},
               NEW activity \in Activities \cup {None},
               CreateCategory(m, d, name, applicability, activity)
        PROVE  FALSE
    BY <1>1, <2>4 DEF CreateCategory
  <2> QED
    BY <2>1, <2>2, <2>3, <2>4
<1>3. EventStep => UNCHANGED category
  BY EventStepKeepsOthers
<1>4. ReviewStep => UNCHANGED category
  BY DEF ReviewStep, CreateReview, ResolveReview
<1>5. UNCHANGED vars => UNCHANGED category
  BY DEF vars
<1> QED
  BY <1>2, <1>3, <1>4, <1>5 DEF Next

\* A review that a step changes gets the next version.
LEMMA ReviewVersions ==
    ASSUME TypeOK, [Next]_vars, NEW v \in Reviews,
           review[v] # None, review'[v] # review[v]
    PROVE  review'[v].version = review[v].version + 1
<1>1. review \in [Reviews -> ReviewRow \cup {None}] /\ review[v] \in ReviewRow
  BY DEF TypeOK
<1>2. CASE ReviewStep
  <2>1. PICK m \in Members, w \in Reviews :
          \/ \E e \in Events, kind \in {"COMMENT", "FLAG"} : CreateReview(m, w, e, kind)
          \/ ResolveReview(m, w)
    BY <1>2 DEF ReviewStep
  <2>2. ASSUME ResolveReview(m, w)
        PROVE  review'[v].version = review[v].version + 1
    <3>1. review' = [review EXCEPT ![w].flag = "RESOLVED", ![w].version = @ + 1]
      BY <2>2 DEF ResolveReview
    <3> QED
      BY <1>1, <3>1 DEF ReviewRow
  <2>3. ASSUME NEW e \in Events, NEW kind \in {"COMMENT", "FLAG"}, CreateReview(m, w, e, kind)
        PROVE  FALSE
    BY <1>1, <2>3 DEF CreateReview
  <2> QED
    BY <2>1, <2>2, <2>3
<1>3. EventStep => UNCHANGED review
  BY EventStepKeepsOthers
<1>4. CategoryStep => UNCHANGED review
  BY DEF CategoryStep, CreateCategory, RenameCategory, ArchiveCategory
<1>5. UNCHANGED vars => UNCHANGED review
  BY DEF vars
<1> QED
  BY <1>2, <1>3, <1>4, <1>5 DEF Next

\* An ETag names one content: no row of any table changes without its version.
THEOREM VersionsName == Spec => EtagsNameContent
<1>1. TypeOK /\ [Next]_vars => [VersionStep]_vars
  <2> SUFFICES ASSUME TypeOK, [Next]_vars PROVE VersionStep
    OBVIOUS
  <2>1. \A e \in Rows : event'[e] # event[e] => event'[e].version = event[e].version + 1
    BY RowsMove DEF RowMoves
  <2> QED
    BY <2>1, CategoryVersions, ReviewVersions DEF VersionStep
<1> QED
  BY <1>1, TypeCorrect, PTL DEF Spec, EtagsNameContent

-----------------------------------------------------------------------------
(* Events and their categories.                                            *)

\* Whether a row that is not a reversal fits its category.
RowFits(row) ==
    row.reverses = None =>
        /\ category[row.category] # None
        /\ Fits(category[row.category], row.direction, row.activity)

\* No command takes away what a category admits.
LEMMA CategoriesKeepScope ==
    ASSUME LedgerAssumption, TypeOK, [Next]_vars, NEW c \in Categories, category[c] # None
    PROVE  /\ category'[c] # None
           /\ category'[c].applicability = category[c].applicability
           /\ category'[c].activity = category[c].activity
<1> DEFINE Kept == /\ category'[c] \in CategoryRow
                   /\ category'[c].applicability = category[c].applicability
                   /\ category'[c].activity = category[c].activity
<1> SUFFICES Kept
  BY DEF LedgerAssumption
<1>1. category \in [Categories -> CategoryRow \cup {None}] /\ category[c] \in CategoryRow
  BY DEF TypeOK
<1>2. category[c].version + 1 \in Version
  BY <1>1 DEF CategoryRow, Version
<1>3. CASE CategoryStep
  <2>1. PICK m \in Members, d \in Categories :
          \/ \E name \in Names, applicability \in {"INCOME", "EXPENSE", "BOTH"},
                activity \in Activities \cup {None} :
                  CreateCategory(m, d, name, applicability, activity)
          \/ \E name \in Names : RenameCategory(m, d, name)
          \/ ArchiveCategory(m, d)
    BY <1>3 DEF CategoryStep
  <2>2. ASSUME NEW name \in Names, RenameCategory(m, d, name)
        PROVE  Kept
    <3>1. category' = [category EXCEPT ![d].name = name, ![d].version = @ + 1]
      BY <2>2 DEF RenameCategory
    <3> QED
      BY <1>1, <1>2, <3>1 DEF CategoryRow
  <2>3. ASSUME ArchiveCategory(m, d)
        PROVE  Kept
    <3>1. category' = [category EXCEPT ![d].status = "ARCHIVED", ![d].version = @ + 1]
      BY <2>3 DEF ArchiveCategory
    <3> QED
      BY <1>1, <1>2, <3>1 DEF CategoryRow
  <2>4. ASSUME NEW name \in Names, NEW applicability \in {"INCOME", "EXPENSE", "BOTH"},
               NEW activity \in Activities \cup {None},
               CreateCategory(m, d, name, applicability, activity)
        PROVE  Kept
    BY <1>1, <2>4 DEF CreateCategory
  <2> QED
    BY <2>1, <2>2, <2>3, <2>4
<1>4. ASSUME UNCHANGED category PROVE Kept
  BY <1>1, <1>4
<1>5. CASE EventStep
  BY <1>4, <1>5, EventStepKeepsOthers
<1>6. CASE ReviewStep
  BY <1>4, <1>6 DEF ReviewStep, CreateReview, ResolveReview
<1>7. CASE UNCHANGED vars
  BY <1>4, <1>7 DEF vars
<1> QED
  BY <1>3, <1>5, <1>6, <1>7 DEF Next

\* The rows a command on events writes fit the categories it validated.
LEMMA EventStepFits ==
    ASSUME LedgerAssumption, TypeOK, EventsFitTheirCategory, EventStep,
           NEW x \in Events, event'[x] # None
    PROVE  RowFits(event'[x])
<1>1. PICK m \in Members, e \in Events :
        \/ \E c \in Categories, direction \in Directions, activity \in Activities,
              amount \in Amounts : CreateEvent(m, e, c, direction, activity, amount)
        \/ \E c \in Categories, activity \in Activities, amount \in Amounts :
                UpdatePendingEvent(m, e, c, activity, amount)
        \/ \E approval \in {"APPROVED", "REJECTED"} : DecidePendingEvent(m, e, approval)
        \/ \E r \in Events, action \in {"REVERSED", "CORRECTED"} :
                ReverseEvent(m, e, r, action)
        \/ \E r \in Events, p \in Events, c \in Categories, direction \in Directions,
              activity \in Activities, amount \in Amounts :
                CorrectEvent(m, e, r, p, c, direction, activity, amount)
        \/ ArchiveEvent(m, e)
  BY EventStepCases
<1>2. event \in [Events -> EventRow \cup {None}]
  BY DEF TypeOK
<1>3. event[x] # None => event[x] \in EventRow /\ RowFits(event[x])
  BY DEF TypeOK, EventsFitTheirCategory, Rows, RowFits
<1>4. ASSUME NEW row \in EventRow, NEW new, RowFits(row),
             new.reverses = row.reverses, new.category = row.category,
             new.direction = row.direction, new.activity = row.activity
      PROVE  RowFits(new)
  BY <1>4 DEF RowFits
<1>5. ASSUME NEW c \in Categories, NEW direction \in Directions, NEW activity \in Activities,
             NEW amount \in Amounts, CreateEvent(m, e, c, direction, activity, amount)
      PROVE  RowFits(event'[x])
  <2>1. CASE x = e
    BY <1>2, <1>5, <2>1 DEF CreateEvent, NewEvent, Selectable, RowFits
  <2>2. CASE x # e
    BY <1>2, <1>3, <1>5, <2>2 DEF CreateEvent
  <2> QED
    BY <2>1, <2>2
<1>6. ASSUME NEW c \in Categories, NEW activity \in Activities, NEW amount \in Amounts,
             UpdatePendingEvent(m, e, c, activity, amount)
      PROVE  RowFits(event'[x])
  <2>1. CASE x = e
    <3>1. event'[x] = [event[x] EXCEPT !.category = c, !.activity = activity,
                                       !.amount = amount, !.version = @ + 1]
      BY <1>2, <1>6, <2>1 DEF UpdatePendingEvent
    <3>2. event[x] \in EventRow /\ Selectable(c, event[x].direction, activity)
      BY <1>3, <1>6, <2>1 DEF UpdatePendingEvent
    <3>3. /\ event'[x].category = c
          /\ event'[x].activity = activity
          /\ event'[x].direction = event[x].direction
      BY <3>1, <3>2 DEF EventRow
    <3> QED
      BY <3>2, <3>3 DEF Selectable, RowFits
  <2>2. CASE x # e
    BY <1>2, <1>3, <1>6, <2>2 DEF UpdatePendingEvent
  <2> QED
    BY <2>1, <2>2
<1>7. ASSUME NEW approval \in {"APPROVED", "REJECTED"}, DecidePendingEvent(m, e, approval)
      PROVE  RowFits(event'[x])
  <2>1. CASE x = e
    <3>1. event[x] \in EventRow /\ RowFits(event[x])
      BY <1>3, <1>7, <2>1 DEF DecidePendingEvent
    <3>2. event'[x] = [event[x] EXCEPT
             !.approval = approval,
             !.posting = IF approval = "APPROVED" THEN "EFFECTIVE" ELSE "NOT_EFFECTIVE",
             !.version = @ + 1]
      BY <1>2, <1>7, <2>1 DEF DecidePendingEvent
    <3>3. /\ event'[x].reverses = event[x].reverses
          /\ event'[x].category = event[x].category
          /\ event'[x].direction = event[x].direction
          /\ event'[x].activity = event[x].activity
      BY <3>1, <3>2 DEF EventRow
    <3> QED
      BY <1>4, <3>1, <3>3
  <2>2. CASE x # e
    BY <1>2, <1>3, <1>7, <2>2 DEF DecidePendingEvent
  <2> QED
    BY <2>1, <2>2
<1>8. ASSUME event[x] # None, event'[x] = [event[x] EXCEPT !.posting = "REVERSED", !.version = @ + 1]
      PROVE  RowFits(event'[x])
  <2>1. /\ event'[x].reverses = event[x].reverses
        /\ event'[x].category = event[x].category
        /\ event'[x].direction = event[x].direction
        /\ event'[x].activity = event[x].activity
    BY <1>3, <1>8 DEF EventRow
  <2> QED
    BY <1>3, <1>4, <1>8, <2>1
<1>9. ASSUME event[e] # None, event'[x] = ReversalOf(m, e)
      PROVE  RowFits(event'[x])
  <2>1. event[e] \in EventRow
    BY <1>9 DEF TypeOK
  <2>2. event'[x].reverses = e
    BY <1>9, <2>1 DEF ReversalOf, EventRow
  <2> QED
    BY <2>2, RowsAreNotNone DEF RowFits
<1>10. ASSUME NEW r \in Events, NEW action \in {"REVERSED", "CORRECTED"},
              ReverseEvent(m, e, r, action)
       PROVE  RowFits(event'[x])
  <2>1. event' = [event EXCEPT ![e].posting = "REVERSED", ![e].version = @ + 1,
                               ![r] = ReversalOf(m, e)]
    BY <1>10 DEF ReverseEvent
  <2>2. event[e] # None /\ event[r] = None
    BY <1>10 DEF ReverseEvent
  <2>3. CASE x = e
    BY <1>2, <1>8, <2>1, <2>2, <2>3
  <2>4. CASE x = r
    BY <1>2, <1>9, <2>1, <2>2, <2>4
  <2>5. CASE x # e /\ x # r
    BY <1>2, <1>3, <2>1, <2>5
  <2> QED
    BY <2>3, <2>4, <2>5
<1>11. ASSUME NEW r \in Events, NEW p \in Events, NEW c \in Categories,
              NEW direction \in Directions, NEW activity \in Activities, NEW amount \in Amounts,
              CorrectEvent(m, e, r, p, c, direction, activity, amount)
       PROVE  RowFits(event'[x])
  <2>1. event' = [event EXCEPT
           ![e].posting = "REVERSED", ![e].version = @ + 1,
           ![r] = ReversalOf(m, e),
           ![p] = ReplacementFor(m, e, c, direction, activity, amount)]
    BY <1>11 DEF CorrectEvent
  <2>2. /\ event[e] # None /\ event[r] = None /\ event[p] = None /\ r # p
        /\ Selectable(c, direction, activity)
    BY <1>11 DEF CorrectEvent
  <2>3. CASE x = e
    BY <1>2, <1>8, <2>1, <2>2, <2>3
  <2>4. CASE x = r
    BY <1>2, <1>9, <2>1, <2>2, <2>4
  <2>5. CASE x = p
    <3>1. event'[x] = ReplacementFor(m, e, c, direction, activity, amount)
      BY <1>2, <2>1, <2>5
    <3> QED
      BY <2>2, <3>1 DEF ReplacementFor, NewEvent, Selectable, RowFits
  <2>6. CASE x # e /\ x # r /\ x # p
    BY <1>2, <1>3, <2>1, <2>6
  <2> QED
    BY <2>3, <2>4, <2>5, <2>6
<1>12. ASSUME ArchiveEvent(m, e)
       PROVE  RowFits(event'[x])
  <2>1. CASE x = e
    <3>1. event[x] \in EventRow /\ RowFits(event[x])
      BY <1>3, <1>12, <2>1 DEF ArchiveEvent
    <3>2. event'[x] = [event[x] EXCEPT !.archived = TRUE, !.version = @ + 1]
      BY <1>2, <1>12, <2>1 DEF ArchiveEvent
    <3>3. /\ event'[x].reverses = event[x].reverses
          /\ event'[x].category = event[x].category
          /\ event'[x].direction = event[x].direction
          /\ event'[x].activity = event[x].activity
      BY <3>1, <3>2 DEF EventRow
    <3> QED
      BY <1>4, <3>1, <3>3
  <2>2. CASE x # e
    BY <1>2, <1>3, <1>12, <2>2 DEF ArchiveEvent
  <2> QED
    BY <2>1, <2>2
<1> QED
  BY <1>1, <1>5, <1>6, <1>7, <1>10, <1>11, <1>12

\* Every step leaves rows that fit the categories as they were before it.
LEMMA StepFits ==
    ASSUME LedgerAssumption, TypeOK, EventsFitTheirCategory, [Next]_vars,
           NEW x \in Events, event'[x] # None
    PROVE  RowFits(event'[x])
<1>1. event[x] # None => RowFits(event[x])
  BY DEF EventsFitTheirCategory, Rows, RowFits
<1>2. CASE EventStep
  BY <1>2, EventStepFits
<1>3. CASE CategoryStep \/ ReviewStep
  BY <1>1, <1>3, OtherStepsKeepEvents
<1>4. CASE UNCHANGED vars
  BY <1>1, <1>4 DEF vars
<1> QED
  BY <1>2, <1>3, <1>4 DEF Next

\* Whatever is edited, corrected, renamed or archived, in any order, an event
\* that is not a reversal fits the category it names.
THEOREM EventsAlwaysFit == Spec => []EventsFitTheirCategory
<1>1. Init => EventsFitTheirCategory
  BY DEF Init, EventsFitTheirCategory, Rows
<1>2. LedgerAssumption /\ TypeOK /\ TypeOK' /\ EventsFitTheirCategory /\ [Next]_vars
          => EventsFitTheirCategory'
  <2> SUFFICES ASSUME LedgerAssumption, TypeOK, TypeOK', EventsFitTheirCategory, [Next]_vars,
                      NEW x \in Events, event'[x] # None, event'[x].reverses = None
               PROVE  /\ category'[event'[x].category] # None
                      /\ Fits(category'[event'[x].category],
                              event'[x].direction, event'[x].activity)
    BY DEF EventsFitTheirCategory, Rows, Fits
  <2>1. event'[x].category \in Categories
    BY DEF TypeOK, EventRow
  <2>2. /\ category[event'[x].category] # None
        /\ Fits(category[event'[x].category], event'[x].direction, event'[x].activity)
    BY StepFits DEF RowFits
  <2> QED
    BY <2>1, <2>2, CategoriesKeepScope DEF Fits
<1> QED
  BY <1>1, <1>2, TypeCorrect, LedgerAssumption, PTL DEF Spec

-----------------------------------------------------------------------------
(* Audit and rows.                                                         *)

\* The evidence of one event: one audit row for each version, and the status
\* history; only Approved rows are derived from others.
Evidenced(x) ==
    IF event[x] = None THEN Len(audit[x]) = 0
    ELSE IF IsDerived(event[x])
    THEN /\ Len(audit[x]) = event[x].version - 1
         /\ StatusHistory(audit[x]) = {}
         /\ event[x].approval = "APPROVED"
    ELSE /\ Len(audit[x]) = event[x].version
         /\ EndsWith(audit[x], event[x].approval)

\* An audit row that names no status leaves the history as it was.
LEMMA AppendsNoStatus ==
    ASSUME NEW trail \in Seq(AuditActions), NEW action \in AuditActions, action \notin StatusActions
    PROVE  /\ StatusHistory(Append(trail, action)) = StatusHistory(trail)
           /\ \A approval : EndsWith(trail, approval) => EndsWith(Append(trail, action), approval)
<1>1. /\ DOMAIN Append(trail, action) = 1 .. Len(trail) + 1
      /\ DOMAIN trail = 1 .. Len(trail) /\ Len(trail) \in Nat
      /\ \A i \in 1 .. Len(trail) : Append(trail, action)[i] = trail[i]
      /\ Append(trail, action)[Len(trail) + 1] = action
  OBVIOUS
<1>2. StatusHistory(Append(trail, action)) = StatusHistory(trail)
  BY <1>1 DEF StatusHistory
<1> QED
  BY <1>1, <1>2 DEF EndsWith, StatusHistory

\* An audit row that names a status ends the history with it.
LEMMA AppendsStatus ==
    ASSUME NEW trail \in Seq(AuditActions), NEW action \in AuditActions, action \in StatusActions
    PROVE  EndsWith(Append(trail, action), StatusOf(action))
<1>1. /\ DOMAIN Append(trail, action) = 1 .. Len(trail) + 1 /\ Len(trail) \in Nat
      /\ Append(trail, action)[Len(trail) + 1] = action
  OBVIOUS
<1>2. Len(trail) + 1 \in StatusHistory(Append(trail, action))
  BY <1>1 DEF StatusHistory
<1>3. \A i \in StatusHistory(Append(trail, action)) : i <= Len(trail) + 1
  BY <1>1 DEF StatusHistory
<1> QED
  BY <1>1, <1>2, <1>3 DEF EndsWith

\* Where a command records its audit row.
LEMMA Recorded ==
    ASSUME TypeOK, NEW x \in Resources, NEW action \in AuditActions, audit' = Record(x, action)
    PROVE  /\ audit'[x] = Append(audit[x], action)
           /\ Len(audit'[x]) = Len(audit[x]) + 1
           /\ audit[x] \in Seq(AuditActions)
           /\ \A y \in Resources : y # x => audit'[y] = audit[y]
BY DEF TypeOK, Record

\* A row that a command writes to keeps its evidence.
LEMMA RewrittenEvidence ==
    ASSUME TypeOK, NEW x \in Events, event[x] # None, Evidenced(x),
           NEW action \in AuditActions, audit'[x] = Append(audit[x], action),
           Len(audit'[x]) = Len(audit[x]) + 1, audit[x] \in Seq(AuditActions),
           event'[x] # None, event'[x].version = event[x].version + 1,
           event'[x].reverses = event[x].reverses, event'[x].replaces = event[x].replaces,
           IF action \in StatusActions
           THEN event[x].approval = "PENDING" /\ event'[x].approval = StatusOf(action)
           ELSE event'[x].approval = event[x].approval
    PROVE  Evidenced(x)'
<1>1. event[x].version \in Nat /\ Len(audit[x]) \in Nat
  BY DEF TypeOK, EventRow, Version
<1>2. IsDerived(event'[x]) <=> IsDerived(event[x])
  BY DEF IsDerived
<1>3. CASE IsDerived(event[x])
  <2>1. /\ Len(audit[x]) = event[x].version - 1 /\ StatusHistory(audit[x]) = {}
        /\ event[x].approval = "APPROVED"
    BY <1>3 DEF Evidenced
  <2>2. action \notin StatusActions /\ event'[x].approval = "APPROVED"
    BY <2>1
  <2>3. StatusHistory(audit'[x]) = {}
    BY <2>1, <2>2, AppendsNoStatus
  <2>4. Len(audit'[x]) = event'[x].version - 1
    BY <1>1, <2>1
  <2> QED
    BY <1>2, <1>3, <2>2, <2>3, <2>4 DEF Evidenced
<1>4. CASE ~IsDerived(event[x])
  <2>1. Len(audit[x]) = event[x].version /\ EndsWith(audit[x], event[x].approval)
    BY <1>4 DEF Evidenced
  <2>2. EndsWith(audit'[x], event'[x].approval)
    BY <2>1, AppendsNoStatus, AppendsStatus
  <2>3. Len(audit'[x]) = event'[x].version
    BY <1>1, <2>1
  <2> QED
    BY <1>2, <1>4, <2>2, <2>3 DEF Evidenced
<1> QED
  BY <1>3, <1>4

\* A row inserted beside its original has the original's audit row as evidence.
LEMMA DerivedEvidence ==
    ASSUME TypeOK, NEW x \in Events, event[x] = None, Evidenced(x), audit'[x] = audit[x],
           event'[x] # None, IsDerived(event'[x]), event'[x].version = 1,
           event'[x].approval = "APPROVED"
    PROVE  Evidenced(x)'
<1>1. Len(audit[x]) = 0 /\ audit[x] \in Seq(AuditActions)
  BY DEF Evidenced, TypeOK, Resources
<1>2. StatusHistory(audit[x]) = {}
  BY <1>1 DEF StatusHistory
<1> QED
  BY <1>1, <1>2 DEF Evidenced

\* A row that a command leaves alone, with its audit trail, keeps its evidence.
LEMMA SameEvidence ==
    ASSUME NEW x \in Events, Evidenced(x), event'[x] = event[x], audit'[x] = audit[x]
    PROVE  Evidenced(x)'
BY DEF Evidenced

\* Every command on events keeps the evidence of every event.
LEMMA EventStepEvidence ==
    ASSUME LedgerAssumption, TypeOK, TypeOK', EventStep, NEW x \in Events,
           \A y \in Events : Evidenced(y)
    PROVE  Evidenced(x)'
<1>1. PICK m \in Members, e \in Events :
        \/ \E c \in Categories, direction \in Directions, activity \in Activities,
              amount \in Amounts : CreateEvent(m, e, c, direction, activity, amount)
        \/ \E c \in Categories, activity \in Activities, amount \in Amounts :
                UpdatePendingEvent(m, e, c, activity, amount)
        \/ \E approval \in {"APPROVED", "REJECTED"} : DecidePendingEvent(m, e, approval)
        \/ \E r \in Events, action \in {"REVERSED", "CORRECTED"} :
                ReverseEvent(m, e, r, action)
        \/ \E r \in Events, p \in Events, c \in Categories, direction \in Directions,
              activity \in Activities, amount \in Amounts :
                CorrectEvent(m, e, r, p, c, direction, activity, amount)
        \/ ArchiveEvent(m, e)
  BY EventStepCases
<1>2. /\ event \in [Events -> EventRow \cup {None}] /\ Evidenced(x) /\ Evidenced(e)
      /\ e \in Resources /\ x \in Resources
      /\ event[e] # None => event[e] \in EventRow
  BY DEF TypeOK, Resources
<1>3. ASSUME NEW action \in AuditActions, audit' = Record(e, action) PROVE
        /\ audit'[e] = Append(audit[e], action)
        /\ Len(audit'[e]) = Len(audit[e]) + 1
        /\ audit[e] \in Seq(AuditActions)
        /\ x # e => audit'[x] = audit[x]
  BY <1>2, <1>3, Recorded
<1>4. ASSUME NEW c \in Categories, NEW direction \in Directions, NEW activity \in Activities,
             NEW amount \in Amounts, CreateEvent(m, e, c, direction, activity, amount)
      PROVE  Evidenced(x)'
  <2>1. CASE x = e
    <3>1. PICK action \in {"CREATED_APPROVED", "SUBMITTED"} :
              /\ action = IF Role[m] = "ADMIN" THEN "CREATED_APPROVED" ELSE "SUBMITTED"
              /\ audit' = Record(e, action)
      BY <1>4 DEF CreateEvent
    <3>2. action \in AuditActions /\ action \in StatusActions
      BY DEF AuditActions, StatusActions
    <3>3. event[e] = None /\ event'[e] = NewEvent(m, c, direction, activity, amount)
      BY <1>2, <1>4 DEF CreateEvent
    <3>4. NewEvent(m, c, direction, activity, amount) \in EventRow
      BY NewEventTyped
    <3>5. event'[e] # None
      BY <3>3, <3>4, RowsAreNotNone
    <3>6. /\ event'[e].version = 1 /\ ~IsDerived(event'[e])
          /\ event'[e].approval = StatusOf(action)
      BY <3>1, <3>3 DEF NewEvent, IsDerived, StatusOf
    <3>7. Len(audit'[e]) = 1
      <4>1. Len(audit[e]) = 0
        BY <1>2, <3>3 DEF Evidenced
      <4>2. Len(audit'[e]) = Len(audit[e]) + 1
        BY <1>3, <3>1, <3>2
      <4> QED
        BY <4>1, <4>2
    <3>8. EndsWith(audit'[e], event'[e].approval)
      BY <1>3, <3>1, <3>2, <3>6, AppendsStatus
    <3> QED
      BY <2>1, <3>5, <3>6, <3>7, <3>8 DEF Evidenced
  <2>2. CASE x # e
    <3>1. event'[x] = event[x] /\ audit'[x] = audit[x]
      BY <1>2, <1>4, <2>2 DEF CreateEvent, Record, TypeOK
    <3> QED
      BY <1>2, <3>1, SameEvidence
  <2> QED
    BY <2>1, <2>2
<1>5. ASSUME NEW c \in Categories, NEW activity \in Activities, NEW amount \in Amounts,
             UpdatePendingEvent(m, e, c, activity, amount)
      PROVE  Evidenced(x)'
  <2>1. CASE x = e
    <3>1. /\ event[e] \in EventRow /\ event[e] # None
          /\ event'[e] = [event[e] EXCEPT !.category = c, !.activity = activity,
                                          !.amount = amount, !.version = @ + 1]
          /\ audit' = Record(e, "PENDING_UPDATED") /\ event[e].approval = "PENDING"
      BY <1>2, <1>5 DEF UpdatePendingEvent, IsPending
    <3>2. [event[e] EXCEPT !.category = c, !.activity = activity,
                           !.amount = amount, !.version = @ + 1] \in EventRow
      BY <3>1, EditedRowTyped
    <3>3. event'[e] # None
      BY <3>1, <3>2, RowsAreNotNone
    <3>4. /\ event'[e].version = event[e].version + 1 /\ event'[e].reverses = event[e].reverses
          /\ event'[e].replaces = event[e].replaces /\ event'[e].approval = "PENDING"
      BY <3>1 DEF EventRow
    <3>5. "PENDING_UPDATED" \in AuditActions /\ "PENDING_UPDATED" \in StatusActions
          /\ StatusOf("PENDING_UPDATED") = "PENDING"
      BY DEF AuditActions, StatusActions, StatusOf
    <3> QED
      BY <1>2, <1>3, <2>1, <3>1, <3>3, <3>4, <3>5, RewrittenEvidence
  <2>2. CASE x # e
    <3>1. event'[x] = event[x] /\ audit'[x] = audit[x]
      BY <1>2, <1>5, <2>2 DEF UpdatePendingEvent, Record, TypeOK
    <3> QED
      BY <1>2, <3>1, SameEvidence
  <2> QED
    BY <2>1, <2>2
<1>6. ASSUME NEW approval \in {"APPROVED", "REJECTED"}, DecidePendingEvent(m, e, approval)
      PROVE  Evidenced(x)'
  <2>1. CASE x = e
    <3>1. /\ event[e] \in EventRow /\ event[e] # None
          /\ event'[e] = [event[e] EXCEPT
                !.approval = approval,
                !.posting = IF approval = "APPROVED" THEN "EFFECTIVE" ELSE "NOT_EFFECTIVE",
                !.version = @ + 1]
          /\ audit' = Record(e, approval) /\ event[e].approval = "PENDING"
      BY <1>2, <1>6 DEF DecidePendingEvent, IsPending
    <3>2. [event[e] EXCEPT
                !.approval = approval,
                !.posting = IF approval = "APPROVED" THEN "EFFECTIVE" ELSE "NOT_EFFECTIVE",
                !.version = @ + 1] \in EventRow
      BY <3>1, DecidedRowTyped
    <3>3. event'[e] # None
      BY <3>1, <3>2, RowsAreNotNone
    <3>4. /\ event'[e].version = event[e].version + 1 /\ event'[e].reverses = event[e].reverses
          /\ event'[e].replaces = event[e].replaces /\ event'[e].approval = approval
      BY <3>1 DEF EventRow
    <3>5. approval \in AuditActions /\ approval \in StatusActions /\ StatusOf(approval) = approval
      BY DEF AuditActions, StatusActions, StatusOf
    <3> QED
      BY <1>2, <1>3, <2>1, <3>1, <3>3, <3>4, <3>5, RewrittenEvidence
  <2>2. CASE x # e
    <3>1. event'[x] = event[x] /\ audit'[x] = audit[x]
      BY <1>2, <1>6, <2>2 DEF DecidePendingEvent, Record, TypeOK
    <3> QED
      BY <1>2, <3>1, SameEvidence
  <2> QED
    BY <2>1, <2>2
<1>7. ASSUME x = e, event[e] # None, NEW action \in {"REVERSED", "CORRECTED"}, audit' = Record(e, action),
             event'[e] = [event[e] EXCEPT !.posting = "REVERSED", !.version = @ + 1]
      PROVE  Evidenced(x)'
  <2>1. [event[e] EXCEPT !.posting = "REVERSED", !.version = @ + 1] \in EventRow
    BY <1>2, <1>7, ReversedRowTyped
  <2>2. event'[e] # None
    BY <1>7, <2>1, RowsAreNotNone
  <2>3. /\ event'[e].version = event[e].version + 1 /\ event'[e].reverses = event[e].reverses
        /\ event'[e].replaces = event[e].replaces /\ event'[e].approval = event[e].approval
    BY <1>2, <1>7 DEF EventRow
  <2>4. action \in AuditActions /\ action \notin StatusActions
    BY DEF AuditActions, StatusActions
  <2> QED
    BY <1>2, <1>3, <1>7, <2>2, <2>3, <2>4, RewrittenEvidence
<1>8. ASSUME event[e] # None, IsReversible(event[e]), event[x] = None, x # e,
             NEW action \in {"REVERSED", "CORRECTED"}, audit' = Record(e, action),
             event'[x] = ReversalOf(m, e)
      PROVE  Evidenced(x)'
  <2>1. action \in AuditActions
    BY DEF AuditActions
  <2>2. ReversalOf(m, e) \in EventRow
    BY <1>8, ReversalTyped
  <2>3. event'[x] # None
    BY <1>8, <2>2, RowsAreNotNone
  <2>4. /\ event'[x].version = 1 /\ event'[x].approval = "APPROVED" /\ event'[x].reverses = e
    BY <1>2, <1>8 DEF ReversalOf, EventRow, IsReversible
  <2>5. IsDerived(event'[x])
    BY <2>4, RowsAreNotNone DEF IsDerived
  <2>6. audit'[x] = audit[x]
    BY <1>3, <1>8, <2>1
  <2> QED
    BY <1>2, <1>8, <2>3, <2>4, <2>5, <2>6, DerivedEvidence
<1>9. ASSUME NEW r \in Events, NEW action \in {"REVERSED", "CORRECTED"},
             ReverseEvent(m, e, r, action)
      PROVE  Evidenced(x)'
  <2>1. /\ event' = [event EXCEPT ![e].posting = "REVERSED", ![e].version = @ + 1,
                                  ![r] = ReversalOf(m, e)]
        /\ event[e] # None /\ event[r] = None /\ IsReversible(event[e])
        /\ audit' = Record(e, action)
    BY <1>9 DEF ReverseEvent
  <2>2. CASE x = e
    <3>1. event'[e] = [event[e] EXCEPT !.posting = "REVERSED", !.version = @ + 1]
      BY <1>2, <2>1
    <3> QED
      BY <1>7, <2>1, <2>2, <3>1
  <2>3. CASE x = r
    <3>1. event'[x] = ReversalOf(m, e)
      BY <1>2, <2>1, <2>3
    <3> QED
      BY <1>8, <2>1, <2>3, <3>1
  <2>4. CASE x # e /\ x # r
    <3>1. event'[x] = event[x] /\ audit'[x] = audit[x]
      BY <1>2, <2>1, <2>4 DEF Record, TypeOK
    <3> QED
      BY <1>2, <3>1, SameEvidence
  <2> QED
    BY <2>2, <2>3, <2>4
<1>10. ASSUME NEW r \in Events, NEW p \in Events, NEW c \in Categories,
              NEW direction \in Directions, NEW activity \in Activities, NEW amount \in Amounts,
              CorrectEvent(m, e, r, p, c, direction, activity, amount)
       PROVE  Evidenced(x)'
  <2>1. /\ event' = [event EXCEPT
              ![e].posting = "REVERSED", ![e].version = @ + 1,
              ![r] = ReversalOf(m, e),
              ![p] = ReplacementFor(m, e, c, direction, activity, amount)]
        /\ event[e] # None /\ event[r] = None /\ event[p] = None /\ r # p
        /\ IsReversible(event[e]) /\ Can(m, "APPROVE_OR_REJECT_SUBMISSIONS")
        /\ audit' = Record(e, "CORRECTED")
    BY <1>10 DEF CorrectEvent
  <2>2. "CORRECTED" \in {"REVERSED", "CORRECTED"} /\ "CORRECTED" \in AuditActions
    BY DEF AuditActions
  <2>3. CASE x = e
    <3>1. event'[e] = [event[e] EXCEPT !.posting = "REVERSED", !.version = @ + 1]
      BY <1>2, <2>1
    <3> QED
      BY <1>7, <2>1, <2>2, <2>3, <3>1
  <2>4. CASE x = r
    <3>1. event'[x] = ReversalOf(m, e)
      BY <1>2, <2>1, <2>4
    <3> QED
      BY <1>8, <2>1, <2>2, <2>4, <3>1
  <2>5. CASE x = p
    <3>1. event'[x] = ReplacementFor(m, e, c, direction, activity, amount)
      BY <1>2, <2>1, <2>5
    <3>2. ReplacementFor(m, e, c, direction, activity, amount) \in EventRow
      BY ReplacementTyped
    <3>3. event'[x] # None
      BY <3>1, <3>2, RowsAreNotNone
    <3>4. Role[m] = "ADMIN"
      BY <2>1 DEF Can, RolesWith
    <3>5. event'[x].version = 1 /\ event'[x].approval = "APPROVED" /\ event'[x].replaces = e
      BY <3>1, <3>4 DEF ReplacementFor, NewEvent
    <3>6. IsDerived(event'[x])
      BY <3>5, RowsAreNotNone DEF IsDerived
    <3>7. audit'[x] = audit[x]
      BY <1>3, <2>1, <2>2, <2>5
    <3> QED
      BY <1>2, <2>1, <2>5, <3>3, <3>5, <3>6, <3>7, DerivedEvidence
  <2>6. CASE x # e /\ x # r /\ x # p
    <3>1. event'[x] = event[x] /\ audit'[x] = audit[x]
      BY <1>2, <2>1, <2>6 DEF Record, TypeOK
    <3> QED
      BY <1>2, <3>1, SameEvidence
  <2> QED
    BY <2>3, <2>4, <2>5, <2>6
<1>11. ASSUME ArchiveEvent(m, e)
       PROVE  Evidenced(x)'
  <2>1. CASE x = e
    <3>1. /\ event[e] \in EventRow /\ event[e] # None
          /\ event'[e] = [event[e] EXCEPT !.archived = TRUE, !.version = @ + 1]
          /\ audit' = Record(e, "ARCHIVED")
      BY <1>2, <1>11 DEF ArchiveEvent
    <3>2. [event[e] EXCEPT !.archived = TRUE, !.version = @ + 1] \in EventRow
      BY <3>1, ArchivedRowTyped
    <3>3. event'[e] # None
      BY <3>1, <3>2, RowsAreNotNone
    <3>4. /\ event'[e].version = event[e].version + 1 /\ event'[e].reverses = event[e].reverses
          /\ event'[e].replaces = event[e].replaces /\ event'[e].approval = event[e].approval
      BY <3>1 DEF EventRow
    <3>5. "ARCHIVED" \in AuditActions /\ "ARCHIVED" \notin StatusActions
      BY DEF AuditActions, StatusActions
    <3> QED
      BY <1>2, <1>3, <2>1, <3>1, <3>3, <3>4, <3>5, RewrittenEvidence
  <2>2. CASE x # e
    <3>1. event'[x] = event[x] /\ audit'[x] = audit[x]
      BY <1>2, <1>11, <2>2 DEF ArchiveEvent, Record, TypeOK
    <3> QED
      BY <1>2, <3>1, SameEvidence
  <2> QED
    BY <2>1, <2>2
<1> QED
  BY <1>1, <1>4, <1>5, <1>6, <1>9, <1>10, <1>11

\* The evidence of a category or a review: one audit row for each version.
VersionsAudited(table, x) == Len(audit[x]) = IF table[x] = None THEN 0 ELSE table[x].version

\* A command inserts version 1 of one row, or writes the next version of it.
Moves(table, newTable, x) ==
    /\ newTable[x] # None
    /\ newTable[x].version = IF table[x] = None THEN 1 ELSE table[x].version + 1
    /\ \A y \in DOMAIN table : y # x => newTable[y] = table[y]

\* Commands on categories keep the evidence of every row.
LEMMA CategoryStepEvidence ==
    ASSUME LedgerAssumption, TypeOK, CategoryStep,
           \A d \in Categories : VersionsAudited(category, d)
    PROVE  /\ \A d \in Categories : VersionsAudited(category, d)'
           /\ \A y \in Events \cup Reviews : audit'[y] = audit[y]
<1>1. PICK m \in Members, c \in Categories :
        \/ \E name \in Names, applicability \in {"INCOME", "EXPENSE", "BOTH"},
              activity \in Activities \cup {None} :
                CreateCategory(m, c, name, applicability, activity)
        \/ \E name \in Names : RenameCategory(m, c, name)
        \/ ArchiveCategory(m, c)
  BY DEF CategoryStep
<1>2. /\ c \in Resources /\ category \in [Categories -> CategoryRow \cup {None}]
      /\ Categories \cap Events = {} /\ Categories \cap Reviews = {}
      /\ Events \cup Reviews \subseteq Resources /\ Categories \subseteq Resources
      /\ None \notin CategoryRow
  BY DEF Resources, TypeOK, LedgerAssumption
<1>3. PICK action \in {"CATEGORY_CREATED", "CATEGORY_UPDATED", "CATEGORY_ARCHIVED"} :
          audit' = Record(c, action)
  BY <1>1 DEF CreateCategory, RenameCategory, ArchiveCategory
<1>4. action \in AuditActions
  BY DEF AuditActions
<1>5. /\ Len(audit'[c]) = Len(audit[c]) + 1 /\ audit[c] \in Seq(AuditActions)
      /\ \A y \in Resources : y # c => audit'[y] = audit[y]
  BY <1>2, <1>3, <1>4, Recorded
<1>6. Moves(category, category', c)
  <2>1. ASSUME NEW name \in Names, NEW applicability \in {"INCOME", "EXPENSE", "BOTH"},
               NEW activity \in Activities \cup {None}, CreateCategory(m, c, name, applicability, activity)
        PROVE  Moves(category, category', c)
    <3>1. category' = [category EXCEPT ![c] =
             [name |-> name, applicability |-> applicability, activity |-> activity,
              status |-> "ACTIVE", version |-> 1]] /\ category[c] = None
      BY <2>1 DEF CreateCategory
    <3>2. category'[c] \in CategoryRow
      BY <1>2, <3>1 DEF CategoryRow, Version
    <3> QED
      BY <1>2, <3>1, <3>2 DEF Moves
  <2>2. ASSUME category[c] # None, NEW row \in CategoryRow, category' = [category EXCEPT ![c] = row],
               row.version = category[c].version + 1
        PROVE  Moves(category, category', c)
    BY <1>2, <2>2 DEF Moves
  <2>3. ASSUME NEW name \in Names, RenameCategory(m, c, name)
        PROVE  Moves(category, category', c)
    <3>1. /\ category[c] # None /\ category[c] \in CategoryRow
          /\ category' = [category EXCEPT ![c] = [category[c] EXCEPT !.name = name, !.version = @ + 1]]
      BY <1>2, <2>3 DEF RenameCategory
    <3>2. /\ [category[c] EXCEPT !.name = name, !.version = @ + 1] \in CategoryRow
          /\ [category[c] EXCEPT !.name = name, !.version = @ + 1].version = category[c].version + 1
      <4>1. category[c].version + 1 \in Version
        BY <3>1 DEF CategoryRow, Version
      <4> QED
        BY <3>1, <4>1 DEF CategoryRow
    <3> QED
      BY <2>2, <3>1, <3>2
  <2>4. ASSUME ArchiveCategory(m, c)
        PROVE  Moves(category, category', c)
    <3>1. /\ category[c] # None /\ category[c] \in CategoryRow
          /\ category' = [category EXCEPT ![c] = [category[c] EXCEPT !.status = "ARCHIVED", !.version = @ + 1]]
      BY <1>2, <2>4 DEF ArchiveCategory
    <3>2. /\ [category[c] EXCEPT !.status = "ARCHIVED", !.version = @ + 1] \in CategoryRow
          /\ [category[c] EXCEPT !.status = "ARCHIVED", !.version = @ + 1].version = category[c].version + 1
      <4>1. category[c].version + 1 \in Version
        BY <3>1 DEF CategoryRow, Version
      <4> QED
        BY <3>1, <4>1 DEF CategoryRow
    <3> QED
      BY <2>2, <3>1, <3>2
  <2> QED
    BY <1>1, <2>1, <2>3, <2>4
<1>7. VersionsAudited(category, c)'
  BY <1>5, <1>6 DEF VersionsAudited, Moves
<1>8. \A d \in Categories : d # c => VersionsAudited(category, d)'
  BY <1>2, <1>5, <1>6 DEF VersionsAudited, Moves
<1> QED
  BY <1>2, <1>5, <1>7, <1>8

\* Commands on reviews keep the evidence of every row.
LEMMA ReviewStepEvidence ==
    ASSUME LedgerAssumption, TypeOK, ReviewStep,
           \A w \in Reviews : VersionsAudited(review, w)
    PROVE  /\ \A w \in Reviews : VersionsAudited(review, w)'
           /\ \A y \in Events \cup Categories : audit'[y] = audit[y]
<1>1. PICK m \in Members, v \in Reviews :
        \/ \E e \in Events, kind \in {"COMMENT", "FLAG"} : CreateReview(m, v, e, kind)
        \/ ResolveReview(m, v)
  BY DEF ReviewStep
<1>2. /\ v \in Resources /\ review \in [Reviews -> ReviewRow \cup {None}]
      /\ Reviews \cap Events = {} /\ Categories \cap Reviews = {}
      /\ Events \cup Categories \subseteq Resources /\ Reviews \subseteq Resources
      /\ None \notin ReviewRow
  BY DEF Resources, TypeOK, LedgerAssumption
<1>3. PICK action \in {"COMMENTED", "FLAGGED", "FLAG_RESOLVED"} : audit' = Record(v, action)
  BY <1>1 DEF CreateReview, ResolveReview
<1>4. action \in AuditActions
  BY DEF AuditActions
<1>5. /\ Len(audit'[v]) = Len(audit[v]) + 1 /\ audit[v] \in Seq(AuditActions)
      /\ \A y \in Resources : y # v => audit'[y] = audit[y]
  BY <1>2, <1>3, <1>4, Recorded
<1>6. Moves(review, review', v)
  <2>1. ASSUME NEW e \in Events, NEW kind \in {"COMMENT", "FLAG"}, CreateReview(m, v, e, kind)
        PROVE  Moves(review, review', v)
    <3>1. review[v] = None /\ review' = [review EXCEPT ![v] =
              [event |-> e, kind |-> kind, author |-> m, version |-> 1,
               flag |-> IF kind = "FLAG" THEN "OPEN" ELSE None]]
      BY <2>1 DEF CreateReview
    <3>2. review'[v] \in ReviewRow
      BY <1>2, <3>1 DEF ReviewRow, Version
    <3> QED
      BY <1>2, <3>1, <3>2 DEF Moves
  <2>2. ASSUME ResolveReview(m, v)
        PROVE  Moves(review, review', v)
    <3>1. /\ review[v] # None /\ review[v] \in ReviewRow
          /\ review' = [review EXCEPT ![v] = [review[v] EXCEPT !.flag = "RESOLVED", !.version = @ + 1]]
      BY <1>2, <2>2 DEF ResolveReview
    <3>2. review[v].version + 1 \in Version
      BY <3>1 DEF ReviewRow, Version
    <3>3. /\ [review[v] EXCEPT !.flag = "RESOLVED", !.version = @ + 1] \in ReviewRow
          /\ [review[v] EXCEPT !.flag = "RESOLVED", !.version = @ + 1].version = review[v].version + 1
      BY <3>1, <3>2 DEF ReviewRow
    <3> QED
      BY <1>2, <3>1, <3>3 DEF Moves
  <2> QED
    BY <1>1, <2>1, <2>2
<1>7. VersionsAudited(review, v)'
  BY <1>5, <1>6 DEF VersionsAudited, Moves
<1>8. \A w \in Reviews : w # v => VersionsAudited(review, w)'
  BY <1>2, <1>5, <1>6 DEF VersionsAudited, Moves
<1> QED
  BY <1>2, <1>5, <1>7, <1>8

\* Commands on events record nothing on categories and reviews.
LEMMA EventStepAudits ==
    ASSUME LedgerAssumption, TypeOK, EventStep
    PROVE  \A y \in Categories \cup Reviews : audit'[y] = audit[y]
<1>1. PICK m \in Members, e \in Events :
        \/ \E c \in Categories, direction \in Directions, activity \in Activities,
              amount \in Amounts : CreateEvent(m, e, c, direction, activity, amount)
        \/ \E c \in Categories, activity \in Activities, amount \in Amounts :
                UpdatePendingEvent(m, e, c, activity, amount)
        \/ \E approval \in {"APPROVED", "REJECTED"} : DecidePendingEvent(m, e, approval)
        \/ \E r \in Events, action \in {"REVERSED", "CORRECTED"} :
                ReverseEvent(m, e, r, action)
        \/ \E r \in Events, p \in Events, c \in Categories, direction \in Directions,
              activity \in Activities, amount \in Amounts :
                CorrectEvent(m, e, r, p, c, direction, activity, amount)
        \/ ArchiveEvent(m, e)
  BY EventStepCases
<1>2. \E action : audit' = Record(e, action)
  BY <1>1 DEF CreateEvent, UpdatePendingEvent, DecidePendingEvent, ReverseEvent, CorrectEvent, ArchiveEvent
<1>3. Categories \cap Events = {} /\ Reviews \cap Events = {} /\ Categories \cup Reviews \subseteq Resources
  BY DEF LedgerAssumption, Resources
<1> QED
  BY <1>2, <1>3 DEF Record, TypeOK

\* The inductive invariant: the evidence of every row.
Evidence ==
    /\ \A c \in Categories : VersionsAudited(category, c)
    /\ \A v \in Reviews : VersionsAudited(review, v)
    /\ \A e \in Events : Evidenced(e)

LEMMA InitEvidence == Init => Evidence
BY DEF Init, Evidence, VersionsAudited, Evidenced, Resources

LEMMA StepEvidence ==
    ASSUME LedgerAssumption, TypeOK, TypeOK', Evidence, [Next]_vars
    PROVE  Evidence'
<1>1. CASE CategoryStep
  <2>1. event' = event /\ review' = review
    BY <1>1 DEF CategoryStep, CreateCategory, RenameCategory, ArchiveCategory
  <2>2. /\ \A c \in Categories : VersionsAudited(category, c)'
        /\ \A y \in Events \cup Reviews : audit'[y] = audit[y]
    BY <1>1, CategoryStepEvidence DEF Evidence
  <2>3. \A v \in Reviews : VersionsAudited(review, v)'
    BY <2>1, <2>2 DEF Evidence, VersionsAudited
  <2>4. \A e \in Events : Evidenced(e)'
    BY <2>1, <2>2, SameEvidence DEF Evidence
  <2> QED
    BY <2>2, <2>3, <2>4 DEF Evidence
<1>2. CASE ReviewStep
  <2>1. event' = event /\ category' = category
    BY <1>2 DEF ReviewStep, CreateReview, ResolveReview
  <2>2. /\ \A v \in Reviews : VersionsAudited(review, v)'
        /\ \A y \in Events \cup Categories : audit'[y] = audit[y]
    BY <1>2, ReviewStepEvidence DEF Evidence
  <2>3. \A c \in Categories : VersionsAudited(category, c)'
    BY <2>1, <2>2 DEF Evidence, VersionsAudited
  <2>4. \A e \in Events : Evidenced(e)'
    BY <2>1, <2>2, SameEvidence DEF Evidence
  <2> QED
    BY <2>2, <2>3, <2>4 DEF Evidence
<1>3. CASE EventStep
  <2>1. category' = category /\ review' = review
    BY <1>3, EventStepKeepsOthers
  <2>2. \A y \in Categories \cup Reviews : audit'[y] = audit[y]
    BY <1>3, EventStepAudits
  <2>3. \A e \in Events : Evidenced(e)'
    BY <1>3, EventStepEvidence DEF Evidence
  <2> QED
    BY <2>1, <2>2, <2>3 DEF Evidence, VersionsAudited
<1>4. CASE UNCHANGED vars
  BY <1>4, SameEvidence DEF vars, Evidence, VersionsAudited
<1> QED
  BY <1>1, <1>2, <1>3, <1>4 DEF Next

\* Every version of every row has its audit row, and the status history of an
\* event ends with the status the event has.
THEOREM EvidenceAlwaysComplete == Spec => []EvidenceIsComplete
<1>1. TypeOK /\ Evidence => EvidenceIsComplete
  <2>1. SUFFICES ASSUME TypeOK, Evidence PROVE EveryVersionAudited /\ HistoryEndsWithStatus
    BY DEF EvidenceIsComplete
  <2>2. \A e \in Events : event[e] # None => event[e].version \in Nat
    BY <2>1 DEF TypeOK, EventRow, Version
  <2>3. \A e \in Events :
            Len(audit[e]) = IF event[e] = None THEN 0
                            ELSE event[e].version - (IF IsDerived(event[e]) THEN 1 ELSE 0)
    BY <2>1, <2>2 DEF Evidence, Evidenced
  <2>4. EveryVersionAudited
    BY <2>1, <2>3 DEF Evidence, VersionsAudited, EveryVersionAudited
  <2>5. HistoryEndsWithStatus
    BY <2>1 DEF Evidence, Evidenced, HistoryEndsWithStatus, Rows
  <2> QED
    BY <2>4, <2>5
<1>2. LedgerAssumption /\ TypeOK /\ TypeOK' /\ Evidence /\ [Next]_vars => Evidence'
  BY StepEvidence
<1>3. Spec => []Evidence
  BY <1>2, InitEvidence, TypeCorrect, LedgerAssumption, PTL DEF Spec
<1> QED
  BY <1>1, <1>3, TypeCorrect, PTL

-----------------------------------------------------------------------------
(* The official total.  A total is a fold over a set, a recursive function  *)
(* with CHOOSE in it, so the lemmas below first show that the function the  *)
(* fold defines exists, then that the order of the choices does not matter, *)
(* then that rows which cancel in pairs drop out.  Each is an induction on  *)
(* subsets of a finite set, put as the search for a smallest counterexample.*)

\* The member a fold takes next.
Pick(s) == CHOOSE x \in s : TRUE

\* g is a function that the fold over B may be.
Adds(B, g) ==
    g = [s \in SUBSET B |-> IF s = {} THEN 0 ELSE Signed(Pick(s)) + g[s \ {Pick(s)}]]

\* A set of subsets of a finite set has a member with no smaller one in it.
LEMMA SmallestSet ==
    ASSUME NEW S, IsFiniteSet(S), NEW T, T \subseteq SUBSET S, T # {}
    PROVE  \E B \in T : \A C \in SUBSET B : C # B => C \notin T
<1>1. IsWellFoundedOn(StrictSubsetOrdering(S), SUBSET S)
  BY FS_StrictSubsetOrderingWellFounded, FS_FiniteSubsetsOfFinite
<1>2. PICK B \in T : \A C \in T : <<C, B>> \notin StrictSubsetOrdering(S)
  BY <1>1, WFMin
<1> QED
  BY <1>2 DEF StrictSubsetOrdering

\* The member taken is a member.
LEMMA PickIn == \A s : s # {} => Pick(s) \in s
BY DEF Pick

\* Two such functions agree where both are defined.
LEMMA AddsUnique ==
    ASSUME NEW S, IsFiniteSet(S), NEW B, B \subseteq S, NEW C, C \subseteq S, NEW g, NEW h,
           Adds(B, g), Adds(C, h)
    PROVE  \A s \in SUBSET (B \cap C) : g[s] = h[s]
<1> DEFINE T == {s \in SUBSET (B \cap C) : g[s] # h[s]}
<1> SUFFICES ASSUME T # {} PROVE FALSE
  OBVIOUS
<1>0. T \subseteq SUBSET S
  OBVIOUS
<1>1. PICK s \in T : \A t \in SUBSET s : t # s => t \notin T
  <2> HIDE DEF T
  <2> QED
    BY <1>0, SmallestSet
<1>2. s \in SUBSET B /\ s \in SUBSET C
  OBVIOUS
<1>3. /\ g[s] = IF s = {} THEN 0 ELSE Signed(Pick(s)) + g[s \ {Pick(s)}]
      /\ h[s] = IF s = {} THEN 0 ELSE Signed(Pick(s)) + h[s \ {Pick(s)}]
  BY <1>2, Zenon DEF Adds
<1>4. s # {} => g[s \ {Pick(s)}] = h[s \ {Pick(s)}]
  BY <1>1, PickIn
<1> QED
  BY <1>1, <1>3, <1>4

\* A total is a value of such a function, if there is one.
LEMMA SumIsTotal ==
    ASSUME NEW B, \E g : Adds(B, g)
    PROVE  \E g : Adds(B, g) /\ MapThenSumSet(Signed, B) = g[B]
<1>1. MapThenSumSet(Signed, B) = (CHOOSE g : Adds(B, g))[B]
  BY Zenon DEF MapThenSumSet, MapThenFoldSet, Adds, Pick
<1>2. Adds(B, CHOOSE g : Adds(B, g))
  BY Zenon
<1> QED
  BY <1>1, <1>2, Zenon

\* There is one for every subset of a finite set.
LEMMA AddsExists ==
    ASSUME NEW S, IsFiniteSet(S)
    PROVE  \A B \in SUBSET S : \E g : Adds(B, g)
<1> DEFINE T == {B \in SUBSET S : ~ \E g : Adds(B, g)}
<1> SUFFICES ASSUME T # {} PROVE FALSE
  OBVIOUS
<1>0. T \subseteq SUBSET S
  OBVIOUS
<1>1. PICK B \in T : \A C \in SUBSET B : C # B => C \notin T
  <2> HIDE DEF T
  <2> QED
    BY <1>0, SmallestSet
<1> DEFINE G(t) == CHOOSE g : Adds(t, g)
<1>2. \A t \in SUBSET B : t # B => Adds(t, G(t))
  <2> SUFFICES ASSUME NEW t \in SUBSET B, t # B PROVE Adds(t, G(t))
    OBVIOUS
  <2>1. \E g : Adds(t, g)
    BY <1>1
  <2> QED
    BY <2>1, Zenon
<1> DEFINE g == [s \in SUBSET B |->
                   IF s = {} THEN 0 ELSE Signed(Pick(s)) + G(s \ {Pick(s)})[s \ {Pick(s)}]]
<1>3. \A s \in SUBSET B : s # B => g[s] = G(s)[s]
  <2> HIDE DEF G
  <2> SUFFICES ASSUME NEW s \in SUBSET B, s # B PROVE g[s] = G(s)[s]
    OBVIOUS
  <2>1. Adds(s, G(s))
    BY <1>2
  <2>2. G(s)[s] = IF s = {} THEN 0 ELSE Signed(Pick(s)) + G(s)[s \ {Pick(s)}]
    BY <2>1, Zenon DEF Adds
  <2>3. CASE s = {}
    BY <2>2, <2>3
  <2>4. CASE s # {}
    <3> DEFINE t == s \ {Pick(s)}
    <3>1. t \in SUBSET B /\ t # B /\ t \in SUBSET (t \cap s) /\ t \subseteq S /\ s \subseteq S
      BY <2>4, PickIn
    <3>2. Adds(t, G(t))
      BY <3>1, <1>2
    <3>3. G(t)[t] = G(s)[t]
      <4> HIDE DEF t
      <4> QED
        BY <3>1, <3>2, <2>1, AddsUnique
    <3> QED
      BY <3>3, <2>2, <2>4
  <2> QED
    BY <2>3, <2>4
<1>4. Adds(B, g)
  <2>1. \A s \in SUBSET B : s # {} => g[s \ {Pick(s)}] = G(s \ {Pick(s)})[s \ {Pick(s)}]
    <3> HIDE DEF g, G
    <3> QED
      BY <1>3, PickIn
  <2>2. g = [s \in SUBSET B |->
                   IF s = {} THEN 0 ELSE Signed(Pick(s)) + g[s \ {Pick(s)}]]
    <3> HIDE DEF G
    <3> QED
      BY <2>1
  <2> HIDE DEF g
  <2> QED
    BY <2>2 DEF Adds
<1> QED
  BY <1>4

\* The total of a set of rows, as the property takes it.
Total(s) == MapThenSumSet(Signed, s)

\* A total unfolds as the fold is written.
LEMMA TotalUnfolds ==
    ASSUME NEW S, IsFiniteSet(S)
    PROVE  \A B \in SUBSET S :
              Total(B) = IF B = {} THEN 0 ELSE Signed(Pick(B)) + Total(B \ {Pick(B)})
<1> SUFFICES ASSUME NEW B \in SUBSET S
             PROVE  Total(B) = IF B = {} THEN 0 ELSE Signed(Pick(B)) + Total(B \ {Pick(B)})
  OBVIOUS
<1>1. PICK g : Adds(B, g) /\ Total(B) = g[B]
  BY AddsExists, SumIsTotal, Zenon DEF Total
<1>2. g[B] = IF B = {} THEN 0 ELSE Signed(Pick(B)) + g[B \ {Pick(B)}]
  <2>1. B \in SUBSET B
    OBVIOUS
  <2> QED
    BY <1>1, <2>1, Zenon DEF Adds
<1>3. g[B \ {Pick(B)}] = Total(B \ {Pick(B)})
  <2> DEFINE C == B \ {Pick(B)}
  <2>1. C \in SUBSET S /\ C \subseteq S /\ B \subseteq S /\ C \in SUBSET (B \cap C)
    OBVIOUS
  <2> HIDE DEF C
  <2>2. PICK h : Adds(C, h) /\ Total(C) = h[C]
    BY <2>1, AddsExists, SumIsTotal, Zenon DEF Total
  <2>3. g[C] = h[C]
    BY <2>1, <2>2, <1>1, AddsUnique
  <2> QED
    BY <2>2, <2>3 DEF C
<1> QED
  BY <1>1, <1>2, <1>3

\* A total of integers is an integer.
LEMMA TotalTyped ==
    ASSUME NEW S, IsFiniteSet(S), \A e \in S : Signed(e) \in Int
    PROVE  \A B \in SUBSET S : Total(B) \in Int
<1> DEFINE T == {B \in SUBSET S : Total(B) \notin Int}
<1> SUFFICES ASSUME T # {} PROVE FALSE
  OBVIOUS
<1>0. T \subseteq SUBSET S
  OBVIOUS
<1>1. PICK B \in T : \A C \in SUBSET B : C # B => C \notin T
  <2> HIDE DEF T
  <2> QED
    BY <1>0, SmallestSet
<1>2. B # {} => Pick(B) \in B /\ Total(B \ {Pick(B)}) \in Int
  BY <1>1, PickIn
<1>3. Total(B) = IF B = {} THEN 0 ELSE Signed(Pick(B)) + Total(B \ {Pick(B)})
  BY TotalUnfolds
<1> QED
  BY <1>1, <1>2, <1>3

\* Any member may be taken first.
LEMMA TotalSplits ==
    ASSUME NEW S, IsFiniteSet(S), \A e \in S : Signed(e) \in Int
    PROVE  \A B \in SUBSET S : \A x \in B : Total(B) = Signed(x) + Total(B \ {x})
<1> DEFINE T == {B \in SUBSET S : \E x \in B : Total(B) # Signed(x) + Total(B \ {x})}
<1> SUFFICES ASSUME T # {} PROVE FALSE
  OBVIOUS
<1>0. T \subseteq SUBSET S
  OBVIOUS
<1>1. PICK B \in T : \A C \in SUBSET B : C # B => C \notin T
  <2> HIDE DEF T
  <2> QED
    BY <1>0, SmallestSet
<1>2. PICK x \in B : Total(B) # Signed(x) + Total(B \ {x})
  BY <1>1
<1> DEFINE y == Pick(B)
<1>3. y \in B
  BY <1>2, PickIn
<1>4. Total(B) = Signed(y) + Total(B \ {y})
  BY <1>2, TotalUnfolds
<1> HIDE DEF y
<1>5. x # y
  BY <1>2, <1>4
<1>6. Total(B \ {y}) = Signed(x) + Total((B \ {y}) \ {x})
  BY <1>1, <1>3, <1>2, <1>5
<1>7. Total(B \ {x}) = Signed(y) + Total((B \ {x}) \ {y})
  BY <1>1, <1>3, <1>2, <1>5
<1>8. (B \ {y}) \ {x} = (B \ {x}) \ {y}
  OBVIOUS
<1>9. Total((B \ {x}) \ {y}) \in Int /\ Signed(x) \in Int /\ Signed(y) \in Int
  BY TotalTyped, <1>2, <1>3
<1>10. \A i, j, k \in Int : i + (j + k) = j + (i + k)
  OBVIOUS
<1>11. Signed(y) + (Signed(x) + Total((B \ {x}) \ {y})) = Signed(x) + (Signed(y) + Total((B \ {x}) \ {y}))
  BY <1>9, <1>10, Zenon
<1> QED
  BY <1>2, <1>4, <1>6, <1>7, <1>8, <1>11, Zenon

\* Two rows of opposite amounts drop out of a total.
LEMMA PairsCancel ==
    ASSUME NEW S, IsFiniteSet(S), \A e \in S : Signed(e) \in Int,
           NEW B, B \subseteq S, NEW e \in B, NEW r \in B, e # r, Signed(e) + Signed(r) = 0
    PROVE  Total(B) = Total(B \ {e, r})
<1>1. Total(B) = Signed(e) + Total(B \ {e})
  BY TotalSplits
<1>2. Total(B \ {e}) = Signed(r) + Total((B \ {e}) \ {r})
  BY TotalSplits
<1>3. (B \ {e}) \ {r} = B \ {e, r}
  OBVIOUS
<1>4. Total(B \ {e, r}) \in Int /\ Signed(e) \in Int /\ Signed(r) \in Int
  BY TotalTyped
<1>5. \A i, j, k \in Int : i + j = 0 => i + (j + k) = k
  OBVIOUS
<1>6. Signed(e) + (Signed(r) + Total(B \ {e, r})) = Total(B \ {e, r})
  BY <1>4, <1>5, Zenon
<1> QED
  BY <1>1, <1>2, <1>3, <1>6, Zenon

\* The rows of B that cancel each other in pairs drop out of its total.
LEMMA PairedRowsDropOut ==
    ASSUME NEW S, IsFiniteSet(S), \A e \in S : Signed(e) \in Int,
           NEW A, A \subseteq S, NEW P, P \subseteq S, A \cap P = {},
           NEW mate \in [P -> P],
           \A e \in P : mate[e] # e /\ mate[mate[e]] = e /\ Signed(e) + Signed(mate[e]) = 0
    PROVE  Total(A \cup P) = Total(A)
<1> DEFINE T == {Q \in SUBSET P : /\ \A e \in Q : mate[e] \in Q
                                  /\ Total(A \cup Q) # Total(A)}
<1>a. IsFiniteSet(P)
  BY FS_Subset
<1> SUFFICES ASSUME T # {} PROVE FALSE
  OBVIOUS
<1>0. T \subseteq SUBSET P
  OBVIOUS
<1>1. PICK Q \in T : \A C \in SUBSET Q : C # Q => C \notin T
  <2> HIDE DEF T
  <2> QED
    BY <1>0, <1>a, SmallestSet
<1>2. Q # {}
  <2> SUFFICES ASSUME Q = {} PROVE FALSE
    OBVIOUS
  <2>1. A \cup Q = A
    OBVIOUS
  <2> QED
    BY <1>1, <2>1
<1>3. PICK e \in Q : TRUE
  BY <1>2
<1> DEFINE r == mate[e]
           R == Q \ {e, r}
<1>4. e \in P /\ r \in Q /\ r \in P /\ r # e /\ Signed(e) + Signed(r) = 0
  BY <1>1
<1>5. R \in SUBSET Q /\ R # Q /\ \A d \in R : mate[d] \in R
  <2>1. \A d \in Q : mate[d] \in Q /\ d \in P /\ mate[mate[d]] = d
    BY <1>1
  <2> QED
    BY <2>1, <1>4
<1>6. Total(A \cup R) = Total(A)
  BY <1>1, <1>5
<1>7. Total(A \cup Q) = Total((A \cup Q) \ {e, r})
  BY <1>4, <1>1, PairsCancel
<1>8. (A \cup Q) \ {e, r} = A \cup R
  BY <1>4
<1> QED
  BY <1>1, <1>6, <1>7, <1>8

\* The tables hold finitely many events, whatever the set of identifiers.
RowsAreFinite == IsFiniteSet(Rows)

\* A command on events writes at most three rows.
LEMMA EventStepAddsThreeRows ==
    ASSUME TypeOK, EventStep
    PROVE  \E e, r, p \in Events : Rows' \subseteq Rows \cup {e, r, p}
<1>1. PICK m \in Members, e \in Events :
        \/ \E c \in Categories, direction \in Directions, activity \in Activities,
              amount \in Amounts : CreateEvent(m, e, c, direction, activity, amount)
        \/ \E c \in Categories, activity \in Activities, amount \in Amounts :
                UpdatePendingEvent(m, e, c, activity, amount)
        \/ \E approval \in {"APPROVED", "REJECTED"} : DecidePendingEvent(m, e, approval)
        \/ \E r \in Events, action \in {"REVERSED", "CORRECTED"} :
                ReverseEvent(m, e, r, action)
        \/ \E r \in Events, p \in Events, c \in Categories, direction \in Directions,
              activity \in Activities, amount \in Amounts :
                CorrectEvent(m, e, r, p, c, direction, activity, amount)
        \/ ArchiveEvent(m, e)
  BY EventStepCases
<1>2. event \in [Events -> EventRow \cup {None}]
  BY DEF TypeOK
<1>3. ASSUME NEW r \in Events, NEW p \in Events,
             \A x \in Events \ {e, r, p} : event'[x] = event[x]
      PROVE  Rows' \subseteq Rows \cup {e, r, p}
  BY <1>3 DEF Rows
<1>4. ASSUME NEW c \in Categories, NEW direction \in Directions, NEW activity \in Activities,
             NEW amount \in Amounts, CreateEvent(m, e, c, direction, activity, amount)
      PROVE  \A x \in Events \ {e} : event'[x] = event[x]
  BY <1>2, <1>4 DEF CreateEvent
<1>5. ASSUME NEW c \in Categories, NEW activity \in Activities, NEW amount \in Amounts,
             UpdatePendingEvent(m, e, c, activity, amount)
      PROVE  \A x \in Events \ {e} : event'[x] = event[x]
  BY <1>2, <1>5 DEF UpdatePendingEvent
<1>6. ASSUME NEW approval \in {"APPROVED", "REJECTED"}, DecidePendingEvent(m, e, approval)
      PROVE  \A x \in Events \ {e} : event'[x] = event[x]
  BY <1>2, <1>6 DEF DecidePendingEvent
<1>7. ASSUME NEW r \in Events, NEW action \in {"REVERSED", "CORRECTED"},
             ReverseEvent(m, e, r, action)
      PROVE  \A x \in Events \ {e, r} : event'[x] = event[x]
  BY <1>2, <1>7 DEF ReverseEvent
<1>8. ASSUME NEW r \in Events, NEW p \in Events, NEW c \in Categories,
             NEW direction \in Directions, NEW activity \in Activities, NEW amount \in Amounts,
             CorrectEvent(m, e, r, p, c, direction, activity, amount)
      PROVE  \A x \in Events \ {e, r, p} : event'[x] = event[x]
  BY <1>2, <1>8 DEF CorrectEvent
<1>9. ASSUME ArchiveEvent(m, e)
      PROVE  \A x \in Events \ {e} : event'[x] = event[x]
  BY <1>2, <1>9 DEF ArchiveEvent
<1>10. \E r, p \in Events : \A x \in Events \ {e, r, p} : event'[x] = event[x]
  BY <1>1, <1>4, <1>5, <1>6, <1>7, <1>8, <1>9
<1> QED
  BY <1>3, <1>10

\* The tables hold finitely many events in every reachable ledger, so that they
\* have a total: every command inserts two rows at most.
THEOREM RowsStayFinite == Spec => []RowsAreFinite
<1>1. Init => RowsAreFinite
  <2>1. Init => Rows = {}
    BY DEF Init, Rows
  <2> QED
    BY <2>1, FS_EmptySet DEF RowsAreFinite
<1>2. TypeOK /\ RowsAreFinite /\ [Next]_vars => RowsAreFinite'
  <2> SUFFICES ASSUME TypeOK, RowsAreFinite, [Next]_vars PROVE RowsAreFinite'
    OBVIOUS
  <2>1. CASE EventStep
    <3>1. PICK e, r, p \in Events : Rows' \subseteq Rows \cup {e, r, p}
      BY <2>1, EventStepAddsThreeRows
    <3>2. IsFiniteSet(((Rows \cup {e}) \cup {r}) \cup {p})
      BY FS_AddElement DEF RowsAreFinite
    <3>3. Rows' \in SUBSET (((Rows \cup {e}) \cup {r}) \cup {p})
      BY <3>1
    <3>4. IsFiniteSet(Rows')
      BY <3>2, <3>3, FS_Subset
    <3> QED
      BY <3>4 DEF RowsAreFinite
  <2>2. CASE UNCHANGED event
    BY <2>2 DEF RowsAreFinite, Rows
  <2> QED
    BY <2>1, <2>2, OtherStepsKeepEvents DEF Next, vars
<1> QED
  BY <1>1, <1>2, TypeCorrect, PTL DEF Spec

\* Adding every official row gives the total of the facts that still stand,
\* whatever was reversed, corrected or archived: the official rows that do not
\* stand are a Reversed fact and its reversal each, and these cancel.
THEOREM OfficialTotalStands == Spec => []OfficialTotalIsStandingTotal
<1>1. LedgerAssumption /\ TypeOK /\ Linked /\ RowsAreFinite => OfficialTotalIsStandingTotal
  <2> SUFFICES ASSUME LedgerAssumption, TypeOK, Linked, RowsAreFinite
               PROVE  OfficialTotalIsStandingTotal
    OBVIOUS
  <2> DEFINE Paired == Official \ Standing
             mate == [e \in Paired |->
                        IF event[e].reverses # None THEN event[e].reverses
                        ELSE CHOOSE r \in Rows : event[r].reverses = e]
  <2>1. IsFiniteSet(Official) /\ Official \subseteq Rows
    <3>1. Official \in SUBSET Rows
      BY DEF Official
    <3> QED
      BY <3>1, FS_Subset DEF RowsAreFinite
  <2>2. \A e \in Rows : event[e] \in EventRow /\ e \in Events /\ event[e] # None
    BY DEF Rows, TypeOK
  <2>3. \A e \in Official : Signed(e) \in Int
    <3> SUFFICES ASSUME NEW e \in Official PROVE Signed(e) \in Int
      OBVIOUS
    <3>1. event[e].amount \in Nat
      BY <2>1, <2>2, LedgerAssumption DEF EventRow, LedgerAssumption
    <3> QED
      BY <3>1 DEF Signed
  <2>4. \A e \in Rows : event[e].reverses # None =>
           /\ event[e].reverses \in Rows
           /\ Cancels(event[e], event[event[e].reverses])
    <3> SUFFICES ASSUME NEW e \in Rows, event[e].reverses # None
                 PROVE  /\ event[e].reverses \in Rows
                        /\ Cancels(event[e], event[event[e].reverses])
      OBVIOUS
    <3>1. event[e].reverses \in Events
      BY <2>2 DEF EventRow
    <3> QED
      BY <3>1, <2>2 DEF Linked, ReversalsCancel, Cancels, Rows
  <2>5. \A e \in Rows : event[e].posting = "REVERSED" \/ event[e].reverses # None => e \in Official
    <3> SUFFICES ASSUME NEW e \in Rows, event[e].posting = "REVERSED" \/ event[e].reverses # None
                 PROVE  e \in Official
      OBVIOUS
    <3> QED
      BY <2>2, <2>4 DEF Official, Linked, StatesCombine, Cancels
  <2>6. \A e \in Rows : e \in Paired <=> event[e].posting = "REVERSED" \/ event[e].reverses # None
    BY <2>5 DEF Official, Standing
  <2>7. ASSUME NEW e \in Paired, event[e].reverses = None
        PROVE  mate[e] \in Rows /\ event[mate[e]].reverses = e
    <3>1. e \in Rows /\ event[e].posting = "REVERSED"
      BY <2>1, <2>6, <2>7
    <3>2. \E r \in Rows : event[r].reverses = e
      BY <3>1, <2>2 DEF Linked, ReversedHasReversal, Rows
    <3> QED
      BY <3>2, <2>7, Zenon
  <2>8. ASSUME NEW e \in Paired, event[e].reverses # None
        PROVE  /\ mate[e] = event[e].reverses /\ mate[e] \in Rows
               /\ Cancels(event[e], event[mate[e]])
    BY <2>1, <2>4, <2>8
  <2> HIDE DEF mate
  <2>9. ASSUME NEW e \in Paired, event[e].reverses = None
        PROVE  mate[e] \in Paired /\ Cancels(event[mate[e]], event[e])
    <3>1. mate[e] \in Rows /\ event[mate[e]].reverses = e /\ e # None
      BY <2>7, <2>9, <2>1, <2>2, RowsAreNotNone
    <3> QED
      BY <3>1, <2>4, <2>6
  <2>10. mate \in [Paired -> Paired]
    <3>1. \A e \in Paired : mate[e] \in Paired
      BY <2>6, <2>8, <2>9 DEF Cancels
    <3> QED
      BY <3>1 DEF mate
  <2>11. \A x, y \in Rows : Cancels(event[x], event[y]) => x # y /\ Signed(x) + Signed(y) = 0
    <3> SUFFICES ASSUME NEW x \in Rows, NEW y \in Rows, Cancels(event[x], event[y])
                 PROVE  x # y /\ Signed(x) + Signed(y) = 0
      OBVIOUS
    <3>1. event[x].amount \in Nat /\ event[y].amount \in Nat
      BY <2>2, LedgerAssumption DEF EventRow, LedgerAssumption
    <3>2. event[y].direction \in {"INFLOW", "OUTFLOW"}
      BY <2>2 DEF EventRow, Directions
    <3> QED
      BY <3>1, <3>2 DEF Cancels, Opposite, Signed
  <2>12. ASSUME NEW e \in Paired
         PROVE  mate[e] # e /\ mate[mate[e]] = e /\ Signed(e) + Signed(mate[e]) = 0
    <3>1. e \in Rows /\ mate[e] \in Rows /\ mate[e] \in Paired
      BY <2>1, <2>10
    <3>2. CASE event[e].reverses = None
      <4>1. event[mate[e]].reverses = e /\ e # None
        BY <2>7, <3>1, <3>2, <2>2, RowsAreNotNone
      <4>2. mate[mate[e]] = e
        BY <2>8, <3>1, <4>1
      <4>3. mate[e] # e /\ Signed(mate[e]) + Signed(e) = 0
        BY <2>9, <2>11, <3>1, <3>2
      <4> QED
        BY <4>2, <4>3, <3>1, <2>1, <2>3
    <3>3. CASE event[e].reverses # None
      <4>1. mate[e] = event[e].reverses /\ Cancels(event[e], event[mate[e]])
        BY <2>8, <3>3
      <4>2. mate[e] # e /\ Signed(e) + Signed(mate[e]) = 0
        BY <4>1, <2>11, <3>1
      <4>3. event[mate[e]].reverses = None
        BY <4>1 DEF Cancels
      <4>4. mate[mate[e]] \in Rows /\ event[mate[mate[e]]].reverses = mate[e]
        BY <4>3, <3>1, <2>7
      <4>5. mate[mate[e]] = e
        BY <4>1, <4>4, <3>1, <3>3, <2>2 DEF Linked, OneReversalEach
      <4> QED
        BY <4>2, <4>5
    <3> QED
      BY <3>2, <3>3
  <2>13. Standing \subseteq Official /\ Official = Standing \cup Paired /\ Standing \cap Paired = {}
    BY DEF Standing
  <2>14. Paired \subseteq Official
    OBVIOUS
  <2> HIDE DEF Paired
  <2>15. Total(Standing \cup Paired) = Total(Standing)
    BY <2>1, <2>3, <2>10, <2>12, <2>13, <2>14, PairedRowsDropOut
  <2>16. Total(Official) = Total(Standing)
    BY <2>13, <2>15
  <2> QED
    BY <2>16 DEF OfficialTotalIsStandingTotal, Total
<1> QED
  BY <1>1, LinkedInvariant, TypeCorrect, RowsStayFinite, LedgerAssumption, PTL
=============================================================================
