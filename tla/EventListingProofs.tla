------------------------- MODULE EventListingProofs -------------------------
(***************************************************************************)
(* Proofs about EventListing: whatever commits between two pages, the rows *)
(* that kept their place are listed once and in order.                     *)
(***************************************************************************)
EXTENDS EventListing, FiniteSetTheorems, SequenceTheorems, TLAPS

\* Where event e stands in a given table.
Place(table, e) == [on |-> table[e].on, at |-> table[e].at, id |-> e]

\* The cursor splits the rows of a traversal that kept their place: those that
\* were shown stand at it or before it, those still to come behind it.
Split(t, table) ==
    /\ \A e \in t.steady :
          Visible(table[e], t.scope.role) /\ Matches(table[e], t.scope.filter)
    /\ \A i, j \in DOMAIN t.shown :
          (i < j /\ t.shown[i] \in t.steady /\ t.shown[j] \in t.steady) =>
              Precedes(Place(table, t.shown[i]), Place(table, t.shown[j]))
    /\ \A e \in t.steady \ Range(t.shown) :
          t.after # None /\ Precedes(t.after, Place(table, e))
    /\ t.after # None => \A d \in t.steady \cap Range(t.shown) :
          Place(table, d) = t.after \/ Precedes(Place(table, d), t.after)

CursorSplits == traversal # None => Split(traversal, row)

IInv == TypeOK /\ CursorSplits

-----------------------------------------------------------------------------
(* The order of the list.                                                  *)

Triple == [on : Int, at : Int, id : Int]

\* The order by day, instant and identifier is strict and total.
LEMMA OrderIsStrict ==
    ASSUME NEW p \in Triple, NEW q \in Triple, NEW r \in Triple
    PROVE  /\ ~Precedes(p, p)
           /\ Precedes(p, q) => ~Precedes(q, p)
           /\ Precedes(p, q) /\ Precedes(q, r) => Precedes(p, r)
           /\ Precedes(p, q) \/ Precedes(q, p) \/ p = q
BY DEF Triple, Precedes

\* A stored row has a place in that order, and so has a cursor.
LEMMA PlacesAreTriples ==
    ASSUME NEW table \in [Events -> Row \cup {None}]
    PROVE  /\ Cursor \subseteq Triple
           /\ \A e \in Events : table[e] # None => Place(table, e) \in Cursor
<1>1. Cursor \subseteq Triple
  BY ListingAssumption DEF Cursor, Triple
<1>2. ASSUME NEW e \in Events, table[e] # None
      PROVE  Place(table, e) \in Cursor
  <2>1. table[e] \in Row
    BY <1>2
  <2> QED
    BY <2>1 DEF Row, Cursor, Place
<1> QED
  BY <1>1, <1>2

\* What the SELECT returns: each row once, each before those behind it.
LEMMA RowsInOrder ==
    ASSUME row \in [Events -> Row \cup {None}],
           NEW S \in SUBSET Stored,
           NEW rows \in InOrder(S)
    PROVE  /\ rows \in Seq(S)
           /\ \A e \in S : \E i \in 1 .. Len(rows) : rows[i] = e
           /\ \A i, j \in 1 .. Len(rows) :
                 i < j => Precedes(Place(row, rows[i]), Place(row, rows[j]))
<1>1. S \subseteq Events /\ IsFiniteSet(S)
  BY ListingAssumption, FS_Subset DEF Stored
<1> DEFINE n == Cardinality(S)
<1>2. n \in Nat
  BY <1>1, FS_CardinalityType
<1>3. /\ rows \in [1 .. n -> S]
      /\ \A i, j \in 1 .. n : rows[i] = rows[j] => i = j
      /\ \A e \in S : \E i \in 1 .. n : rows[i] = e
      /\ \A i, j \in 1 .. n : i < j => ~Precedes(Position(rows[j]), Position(rows[i]))
  <2>1. /\ rows \in Bijection(1 .. n, S)
        /\ \A i, j \in DOMAIN rows : i < j => ~Precedes(Position(rows[j]), Position(rows[i]))
    BY DEF InOrder
  <2>2. rows \in [1 .. n -> S]
    BY <2>1 DEF Bijection, Injection
  <2> QED
    BY <2>1, <2>2 DEF Bijection, Injection, Surjection, IsInjective
<1> HIDE DEF n
<1>4. rows \in Seq(S) /\ Len(rows) = n
  BY <1>2, <1>3
<1>5. ASSUME NEW i \in 1 .. n, NEW j \in 1 .. n, i < j
      PROVE  Precedes(Place(row, rows[i]), Place(row, rows[j]))
  <2>1. rows[i] \in Stored /\ rows[j] \in Stored /\ rows[i] # rows[j]
    BY <1>2, <1>3, <1>5
  <2>2. Place(row, rows[i]) \in Triple /\ Place(row, rows[j]) \in Triple
    BY <2>1, PlacesAreTriples DEF Stored
  <2>3. Place(row, rows[i]) # Place(row, rows[j])
    BY <2>1 DEF Place
  <2>4. ~Precedes(Place(row, rows[j]), Place(row, rows[i]))
    BY <1>3, <1>5 DEF Place, Position
  <2> QED
    BY <2>2, <2>3, <2>4, OrderIsStrict
<1> QED
  BY <1>3, <1>4, <1>5

\* What a page shows of the rows S behind a cursor, and where it ends.
PageOf(page, S, table) ==
    /\ page.shown \in Seq(S)
    /\ \A i, j \in 1 .. Len(page.shown) :
          i < j => Precedes(Place(table, page.shown[i]), Place(table, page.shown[j]))
    /\ page.after \in Cursor \cup {None}
    /\ page.after # None =>
          /\ page.shown # <<>>
          /\ \E e \in S : page.after = Place(table, e)
          /\ \A i \in 1 .. Len(page.shown) :
                \/ Place(table, page.shown[i]) = page.after
                \/ Precedes(Place(table, page.shown[i]), page.after)
    /\ \A e \in S :
          \/ \E i \in 1 .. Len(page.shown) : page.shown[i] = e
          \/ page.after # None /\ Precedes(page.after, Place(table, e))

\* A page is a first part of the rows that are left, and its cursor separates
\* it from the rest.
LEMMA PageShows ==
    ASSUME row \in [Events -> Row \cup {None}],
           NEW filter, NEW cursor, NEW size \in PageSizes,
           NEW page \in Page(filter, cursor, size)
    PROVE  PageOf(page, After(cursor, Selected(filter)), row)
<1> DEFINE S == After(cursor, Selected(filter))
<1>1. S \in SUBSET Stored
  BY DEF After, Selected
<1>2. size \in Nat /\ size >= 1
  BY ListingAssumption
<1>3. PICK rows \in InOrder(S) :
        page = [shown |-> SubSeq(rows, 1, IF Len(rows) < size THEN Len(rows) ELSE size),
                after |-> IF Len(rows) > size THEN Position(rows[size]) ELSE None]
  BY DEF Page
<1>4. /\ rows \in Seq(S)
      /\ \A e \in S : \E i \in 1 .. Len(rows) : rows[i] = e
      /\ \A i, j \in 1 .. Len(rows) :
            i < j => Precedes(Place(row, rows[i]), Place(row, rows[j]))
  BY <1>1, RowsInOrder
<1> HIDE DEF S
<1> DEFINE n == IF Len(rows) < size THEN Len(rows) ELSE size
<1>5. n \in Nat /\ n <= Len(rows) /\ n <= size /\ Len(rows) \in Nat
  BY <1>2, <1>4
<1>6. page.shown = SubSeq(rows, 1, n)
  BY <1>3
<1>7. page.after = IF Len(rows) > size THEN Place(row, rows[size]) ELSE None
  BY <1>3 DEF Position, Place
<1>8. Len(rows) > size => n = size
  BY <1>2, <1>4
<1>9. Len(rows) <= size => n = Len(rows)
  BY <1>2, <1>4
<1> HIDE DEF n
<1>10. /\ page.shown \in Seq(S)
       /\ Len(page.shown) = n
       /\ \A i \in 1 .. n : page.shown[i] = rows[i]
  BY <1>4, <1>5, <1>6
<1>11. \A i \in 1 .. Len(rows) :
          rows[i] \in S /\ Place(row, rows[i]) \in Cursor /\ Place(row, rows[i]) \in Triple
  <2>1. ASSUME NEW i \in 1 .. Len(rows)
        PROVE  rows[i] \in S
    BY <1>4
  <2> QED
    BY <2>1, <1>1, PlacesAreTriples DEF Stored
<1>12. page.after \in Cursor \cup {None}
  BY <1>2, <1>5, <1>7, <1>11
<1>13. ASSUME page.after # None
       PROVE  /\ page.shown # <<>>
              /\ \E e \in S : page.after = Place(row, e)
              /\ \A i \in 1 .. Len(page.shown) :
                    \/ Place(row, page.shown[i]) = page.after
                    \/ Precedes(Place(row, page.shown[i]), page.after)
  <2>1. Len(rows) > size /\ n = size /\ page.after = Place(row, rows[size])
    BY <1>2, <1>5, <1>7, <1>8, <1>13
  <2>2. size \in 1 .. Len(rows)
    BY <1>2, <1>5, <2>1
  <2>3. page.shown # <<>>
    BY <1>2, <1>10, <2>1
  <2>4. ASSUME NEW i \in 1 .. Len(page.shown)
        PROVE  \/ Place(row, page.shown[i]) = page.after
               \/ Precedes(Place(row, page.shown[i]), page.after)
    <3>1. i \in 1 .. Len(rows) /\ i \in 1 .. n /\ i <= size
      BY <1>5, <1>10, <2>1
    <3>2. page.shown[i] = rows[i]
      BY <1>10, <3>1
    <3>3. i = size \/ i < size
      BY <3>1, <1>2
    <3> QED
      BY <1>4, <2>1, <2>2, <3>1, <3>2, <3>3
  <2> QED
    BY <1>11, <2>1, <2>2, <2>3, <2>4
<1>14. ASSUME NEW e \in S
       PROVE  \/ \E i \in 1 .. Len(page.shown) : page.shown[i] = e
              \/ page.after # None /\ Precedes(page.after, Place(row, e))
  <2>1. PICK k \in 1 .. Len(rows) : rows[k] = e
    BY <1>4
  <2>2. CASE k <= n
    BY <1>5, <1>10, <2>1, <2>2
  <2>3. CASE k > n
    <3>1. Len(rows) > size /\ n = size /\ size < k
      BY <1>2, <1>5, <1>8, <1>9, <2>3
    <3>2. page.after = Place(row, rows[size]) /\ size \in 1 .. Len(rows)
      BY <1>2, <1>5, <1>7, <3>1
    <3>3. Precedes(page.after, Place(row, e))
      BY <1>4, <2>1, <3>1, <3>2
    <3>4. page.after \in Cursor
      BY <1>11, <3>2
    <3> QED
      BY <3>3, <3>4, ListingAssumption
  <2> QED
    BY <1>5, <2>2, <2>3
<1>15. \A i, j \in 1 .. Len(page.shown) :
          i < j => Precedes(Place(row, page.shown[i]), Place(row, page.shown[j]))
  <2>1. \A i \in 1 .. n : i \in 1 .. Len(rows)
    BY <1>5
  <2> QED
    BY <1>4, <1>10, <2>1
<1>16. PageOf(page, S, row)
  BY <1>10, <1>12, <1>13, <1>14, <1>15 DEF PageOf
<1> QED
  BY <1>16 DEF S

-----------------------------------------------------------------------------
(* Reading a page.                                                         *)

\* The first page splits the rows that match.
LEMMA ListSplits ==
    ASSUME IInv, NEW filter \in Filters, NEW size \in PageSizes, List(filter, size)
    PROVE  IInv'
<1>1. PICK page \in Page(filter, None, size) : traversal' = Started(filter, page)
  BY DEF List
<1> DEFINE S == Selected(filter)
<1>2. PageOf(page, S, row)
  <2>1. After(None, S) = S
    BY DEF After
  <2> QED
    BY <2>1, PageShows DEF IInv, TypeOK
<1>3. S \subseteq Stored /\ S \subseteq Events
  BY DEF Selected, Stored
<1>4. \A e \in S : Visible(row[e], role) /\ Matches(row[e], filter)
  BY DEF Selected
<1> HIDE DEF S
<1> DEFINE t == [scope |-> [role |-> role, filter |-> filter], after |-> page.after,
                 shown |-> page.shown, steady |-> S]
<1>5. traversal' = t
  BY <1>1 DEF Started, Scope, S
<1>6. row' = row /\ role' = role /\ changes' = changes
  BY DEF List
<1>7. /\ page.shown \in Seq(S)
      /\ page.after \in Cursor \cup {None}
      /\ page.after # None => page.shown # <<>>
  BY <1>2 DEF PageOf
<1>8. Range(page.shown) \subseteq S /\ DOMAIN page.shown = 1 .. Len(page.shown)
  BY <1>7 DEF Range
<1>9. t \in Traversal
  <2>1. page.shown \in Seq(Events)
    BY <1>3, <1>7, SeqMonotonic
  <2> QED
    BY <1>3, <1>7, <2>1 DEF Traversal, IInv, TypeOK
<1>10. TypeOK'
  <2>1. t.steady \cup Range(t.shown) \subseteq Stored
    BY <1>3, <1>8
  <2>2. t.after # None => t.shown # <<>>
    BY <1>7
  <2>3. Stored' = Stored
    BY <1>6 DEF Stored
  <2> QED
    BY <1>5, <1>6, <1>9, <2>1, <2>2, <2>3 DEF IInv, TypeOK
<1>11. Split(t, row)
  <2>1. \A e \in S \ Range(page.shown) : page.after # None /\ Precedes(page.after, Place(row, e))
    BY <1>2, <1>8 DEF PageOf, Range
  <2>2. page.after # None => \A d \in Range(page.shown) :
           Place(row, d) = page.after \/ Precedes(Place(row, d), page.after)
    BY <1>2, <1>8 DEF PageOf, Range
  <2>3. \A i, j \in DOMAIN page.shown :
           i < j => Precedes(Place(row, page.shown[i]), Place(row, page.shown[j]))
    BY <1>2, <1>8 DEF PageOf
  <2> QED
    BY <1>4, <2>1, <2>2, <2>3 DEF Split
<1>12. CursorSplits'
  BY <1>5, <1>6, <1>11 DEF CursorSplits
<1> QED
  BY <1>10, <1>12 DEF IInv

\* A page behind a cursor continues the split: all it shows stands behind
\* what was shown, and its own cursor separates it from what is left.
LEMMA ContinueSplits ==
    ASSUME IInv, NEW filter \in Filters, NEW size \in PageSizes, Continue(filter, size)
    PROVE  IInv'
<1>1. PICK t : t = traversal
  OBVIOUS
<1>2. PICK page \in Page(filter, t.after, size) :
        traversal' = [t EXCEPT !.after = page.after, !.shown = @ \o page.shown]
  BY <1>1 DEF Continue
<1>3. /\ t \in Traversal
      /\ t.after # None
      /\ t.scope = [role |-> role, filter |-> filter]
  BY <1>1 DEF Continue, Accepted, Scope, IInv, TypeOK
<1>4. /\ t.steady \cup Range(t.shown) \subseteq Stored
      /\ Split(t, row)
      /\ row \in [Events -> Row \cup {None}]
  BY <1>1 DEF Continue, IInv, TypeOK, CursorSplits
<1> DEFINE S == After(t.after, Selected(filter))
<1>5. PageOf(page, S, row)
  BY PageShows DEF IInv, TypeOK
<1>6. /\ S \subseteq Stored
      /\ \A e \in S : Precedes(t.after, Place(row, e))
  BY <1>3 DEF After, Selected, Place, Position
<1>7. \A e \in t.steady : Precedes(t.after, Place(row, e)) => e \in S
  <2> SUFFICES ASSUME NEW e \in t.steady, Precedes(t.after, Place(row, e))
               PROVE  e \in S
    OBVIOUS
  <2>1. e \in Stored /\ Visible(row[e], role) /\ Matches(row[e], filter)
    BY <1>3, <1>4 DEF Split
  <2> QED
    BY <2>1 DEF After, Selected, Place, Position
<1> HIDE DEF S
<1>8. /\ page.shown \in Seq(S)
      /\ page.after \in Cursor \cup {None}
      /\ page.after # None => page.shown # <<>>
  BY <1>5 DEF PageOf
<1>9. t.shown \in Seq(Events) /\ page.shown \in Seq(Events)
  <2>1. S \subseteq Events
    BY <1>6 DEF Stored
  <2> QED
    BY <1>3, <1>8, <2>1, SeqMonotonic DEF Traversal
<1> DEFINE n == Len(t.shown)
           m == Len(page.shown)
           shown == t.shown \o page.shown
           u == [scope |-> t.scope, after |-> page.after, shown |-> shown, steady |-> t.steady]
<1>10. traversal' = u
  BY <1>2, <1>3 DEF Traversal
<1>11. row' = row /\ role' = role /\ changes' = changes
  BY DEF Continue
<1>12. /\ n \in Nat /\ m \in Nat
       /\ shown \in Seq(Events)
       /\ Len(shown) = n + m
       /\ DOMAIN shown = 1 .. n + m
       /\ DOMAIN t.shown = 1 .. n
       /\ DOMAIN page.shown = 1 .. m
       /\ \A i \in 1 .. n : shown[i] = t.shown[i]
       /\ \A i \in 1 .. n + m : n < i => i - n \in 1 .. m /\ shown[i] = page.shown[i - n]
  <2>1. /\ n \in Nat /\ m \in Nat
        /\ shown \in Seq(Events)
        /\ Len(shown) = n + m
    BY <1>9
  <2>2. /\ DOMAIN t.shown = 1 .. n
        /\ DOMAIN page.shown = 1 .. m
    BY <1>9
  <2>3. \A i \in 1 .. n + m : shown[i] = IF i <= n THEN t.shown[i] ELSE page.shown[i - n]
    BY <1>9, ConcatProperties
  <2> HIDE DEF shown, n, m
  <2>4. DOMAIN shown = 1 .. n + m
    BY <2>1
  <2>5. \A i \in 1 .. n : shown[i] = t.shown[i]
    BY <2>1, <2>3
  <2>6. \A i \in 1 .. n + m : n < i => i - n \in 1 .. m /\ shown[i] = page.shown[i - n]
    BY <2>1, <2>3
  <2> QED
    BY <2>1, <2>2, <2>4, <2>5, <2>6
<1>13. Range(shown) = Range(t.shown) \cup Range(page.shown)
  BY <1>9, RangeConcatenation
<1>14. Range(page.shown) \subseteq S
  BY <1>8, <1>12 DEF Range
<1>15. shown # <<>>
  <2>1. page.after # None => m > 0
    BY <1>8, <1>9
  <2>2. t.shown # <<>>
    BY <1>1, <1>3 DEF Continue, IInv, TypeOK
  <2> QED
    BY <1>9, <2>2
<1> HIDE DEF shown, n, m
<1>16. TypeOK'
  <2>1. u \in Traversal
    BY <1>3, <1>8, <1>12 DEF Traversal
  <2>2. u.steady \cup Range(u.shown) \subseteq Stored
    BY <1>4, <1>6, <1>13, <1>14
  <2>3. Stored' = Stored
    BY <1>11 DEF Stored
  <2> QED
    BY <1>10, <1>11, <1>15, <2>1, <2>2, <2>3 DEF IInv, TypeOK
<1>17. \A e \in Stored : Place(row, e) \in Triple
  BY <1>4, PlacesAreTriples DEF Stored
<1>18. t.after \in Triple
  BY <1>3, <1>4, PlacesAreTriples DEF Traversal
<1>19. \A d \in t.steady \cap Range(t.shown) :
          Place(row, d) = t.after \/ Precedes(Place(row, d), t.after)
  BY <1>3, <1>4 DEF Split
<1>20. ASSUME NEW d \in t.steady \cap Range(t.shown), NEW q \in Triple, Precedes(t.after, q)
       PROVE  Precedes(Place(row, d), q)
  BY <1>4, <1>17, <1>18, <1>19, <1>20, OrderIsStrict
<1>21. \A i, j \in DOMAIN shown :
          (i < j /\ shown[i] \in t.steady /\ shown[j] \in t.steady) =>
              Precedes(Place(row, shown[i]), Place(row, shown[j]))
  <2> SUFFICES ASSUME NEW i \in 1 .. n + m, NEW j \in 1 .. n + m, i < j,
                      shown[i] \in t.steady, shown[j] \in t.steady
               PROVE  Precedes(Place(row, shown[i]), Place(row, shown[j]))
    BY <1>12
  <2>1. CASE j <= n
    <3>1. i \in DOMAIN t.shown /\ j \in DOMAIN t.shown
      BY <1>12, <2>1
    <3>2. shown[i] = t.shown[i] /\ shown[j] = t.shown[j]
      BY <1>12, <2>1
    <3> QED
      BY <1>4, <3>1, <3>2 DEF Split
  <2>2. CASE i <= n /\ n < j
    <3>1. shown[i] = t.shown[i] /\ i \in DOMAIN t.shown
      BY <1>12, <2>2
    <3>2. shown[j] = page.shown[j - n] /\ j - n \in DOMAIN page.shown
      BY <1>12, <2>2
    <3>3. shown[i] \in t.steady \cap Range(t.shown)
      BY <3>1 DEF Range
    <3>4. shown[j] \in S
      BY <1>14, <3>2 DEF Range
    <3> QED
      BY <1>6, <1>17, <1>20, <3>3, <3>4
  <2>3. CASE n < i
    <3>1. shown[i] = page.shown[i - n] /\ i - n \in 1 .. m
      BY <1>12, <2>3
    <3>2. shown[j] = page.shown[j - n] /\ j - n \in 1 .. m /\ i - n < j - n
      BY <1>12, <2>3
    <3> QED
      BY <1>5, <3>1, <3>2 DEF PageOf, m
  <2> QED
    BY <1>12, <2>1, <2>2, <2>3
<1>22. \A e \in t.steady \ Range(shown) : page.after # None /\ Precedes(page.after, Place(row, e))
  <2> SUFFICES ASSUME NEW e \in t.steady \ Range(shown)
               PROVE  page.after # None /\ Precedes(page.after, Place(row, e))
    OBVIOUS
  <2>1. Precedes(t.after, Place(row, e))
    BY <1>4, <1>13 DEF Split
  <2>2. e \in S /\ e \notin Range(page.shown)
    BY <1>7, <1>13, <2>1
  <2> QED
    BY <1>5, <1>12, <2>2 DEF PageOf, Range, m
<1>23. page.after # None => \A d \in t.steady \cap Range(shown) :
          Place(row, d) = page.after \/ Precedes(Place(row, d), page.after)
  <2> SUFFICES ASSUME page.after # None, NEW d \in t.steady \cap Range(shown)
               PROVE  Place(row, d) = page.after \/ Precedes(Place(row, d), page.after)
    OBVIOUS
  <2>1. CASE d \in Range(page.shown)
    BY <1>5, <1>12, <2>1 DEF PageOf, Range, m
  <2>2. CASE d \in Range(t.shown)
    <3>1. PICK e \in S : page.after = Place(row, e)
      BY <1>5 DEF PageOf
    <3> QED
      BY <1>6, <1>17, <1>20, <2>2, <3>1
  <2> QED
    BY <1>13, <2>1, <2>2
<1>24. Split(u, row)
  BY <1>4, <1>21, <1>22, <1>23 DEF Split
<1>25. CursorSplits'
  BY <1>10, <1>11, <1>24 DEF CursorSplits
<1> QED
  BY <1>16, <1>25 DEF IInv

-----------------------------------------------------------------------------
(* What commits between two pages.                                         *)

\* No command removes a row or changes its created_at.
Evolves(new) ==
    /\ new \in [Events -> Row \cup {None}]
    /\ \A e \in Stored : new[e] # None /\ new[e].at = row[e].at

\* A row that keeps its date keeps its place, so the split stays.
LEMMA ChangeKeepsSplit ==
    ASSUME IInv, NEW new, Evolves(new), Change(new)
    PROVE  IInv'
<1>1. /\ row' = new /\ role' = role
      /\ changes' \in 0 .. MaxChanges
  BY ListingAssumption DEF Change, IInv, TypeOK
<1>2. Stored \subseteq Stored'
  <2>1. \A e \in Stored : e \in Events /\ new[e] # None
    BY DEF Evolves, Stored
  <2> QED
    BY <1>1, <2>1 DEF Stored
<1>3. CASE traversal = None
  <2>1. traversal' = None
    BY <1>3 DEF Change
  <2> QED
    BY <1>1, <2>1 DEF IInv, TypeOK, CursorSplits, Evolves
<1>4. CASE traversal # None
  <2>1. PICK t : t = traversal
    OBVIOUS
  <2>2. PICK kept : kept = {e \in t.steady : Unmoved(e, new)}
    OBVIOUS
  <2>3. t \in Traversal /\ t # None
    BY <1>4, <2>1 DEF IInv, TypeOK
  <2> DEFINE u == [scope |-> t.scope, after |-> t.after, shown |-> t.shown, steady |-> kept]
  <2>4. traversal' = u
    <3>1. traversal' = [t EXCEPT !.steady = {e \in @ : Unmoved(e, new)}]
      BY <1>4, <2>1 DEF Change
    <3>2. [t EXCEPT !.steady = {e \in @ : Unmoved(e, new)}] = [t EXCEPT !.steady = kept]
      BY <2>2
    <3>3. [t EXCEPT !.steady = kept] = u
      BY <2>3 DEF Traversal
    <3> QED
      BY <3>1, <3>2, <3>3
  <2>5. /\ t.steady \cup Range(t.shown) \subseteq Stored
        /\ t.after # None => t.shown # <<>>
        /\ Split(t, row)
    BY <1>4, <2>1 DEF IInv, TypeOK, CursorSplits
  <2>6. kept \subseteq t.steady
    BY <2>2
  <2>7. \A e \in kept :
           /\ Visible(new[e], t.scope.role) /\ Matches(new[e], t.scope.filter)
           /\ Place(new, e) = Place(row, e)
    <3> SUFFICES ASSUME NEW e \in kept
                 PROVE  /\ Visible(new[e], t.scope.role) /\ Matches(new[e], t.scope.filter)
                        /\ Place(new, e) = Place(row, e)
      OBVIOUS
    <3>1. Unmoved(e, new)
      BY <2>2
    <3>2. new[e].at = row[e].at
      BY <2>5, <2>6 DEF Evolves
    <3> QED
      BY <2>1, <3>1, <3>2 DEF Unmoved, Place
  <2>8. u \in Traversal
    BY <2>3, <2>6 DEF Traversal
  <2>9. TypeOK'
    <3>1. u.steady \cup Range(u.shown) \subseteq Stored'
      BY <1>2, <2>5, <2>6
    <3> QED
      BY <1>1, <2>4, <2>5, <2>8, <3>1 DEF IInv, TypeOK, Evolves
  <2>10. Split(u, new)
    <3>1. \A i, j \in DOMAIN u.shown :
             (i < j /\ u.shown[i] \in u.steady /\ u.shown[j] \in u.steady) =>
                 Precedes(Place(new, u.shown[i]), Place(new, u.shown[j]))
      BY <2>5, <2>6, <2>7 DEF Split
    <3>2. \A e \in u.steady \ Range(u.shown) :
             u.after # None /\ Precedes(u.after, Place(new, e))
      BY <2>5, <2>6, <2>7 DEF Split
    <3>3. u.after # None => \A d \in u.steady \cap Range(u.shown) :
             Place(new, d) = u.after \/ Precedes(Place(new, d), u.after)
      BY <2>5, <2>6, <2>7 DEF Split
    <3>4. \A e \in u.steady :
             Visible(new[e], u.scope.role) /\ Matches(new[e], u.scope.filter)
      BY <2>7
    <3> QED
      BY <3>1, <3>2, <3>3, <3>4 DEF Split
  <2>11. CursorSplits'
    BY <1>1, <2>4, <2>10 DEF CursorSplits
  <2> QED
    BY <2>9, <2>11 DEF IInv
<1> QED
  BY <1>3, <1>4

\* A new row in a free place leaves the others alone.
LEMMA InsertEvolves ==
    ASSUME NEW table, Evolves(table), NEW e \in Events \ Stored, NEW r \in Row
    PROVE  Evolves([table EXCEPT ![e] = r])
BY DEF Evolves, Stored

\* A rewritten row keeps its created_at.
LEMMA RewriteEvolves ==
    ASSUME TypeOK, NEW e \in Stored, NEW r \in Row, r.at = row[e].at
    PROVE  Evolves([row EXCEPT ![e] = r])
<1>1. None \notin Row
  BY ListingAssumption
<1> QED
  BY <1>1 DEF Evolves, Stored, TypeOK

\* What the commands write is a row.
LEMMA WrittenRows ==
    ASSUME NEW on \in Days, NEW at \in Instants
    PROVE  /\ \A creator \in {Reader, Other}, approval \in {"PENDING", "APPROVED"} :
                 Submitted(creator, approval, on, at) \in Row
           /\ Posted(on, at) \in Row
           /\ [Posted(on, at) EXCEPT !.reversible = TRUE] \in Row
<1>1. ASSUME NEW creator \in {Reader, Other}, NEW approval \in {"PENDING", "APPROVED"}
      PROVE  Submitted(creator, approval, on, at) \in Row
  BY DEF Submitted, Row, Statuses
<1>2. Posted(on, at) \in Row
  BY DEF Submitted, Posted, Row, Statuses
<1>3. [Posted(on, at) EXCEPT !.reversible = TRUE] \in Row
  BY <1>2 DEF Row
<1> QED
  BY <1>1, <1>2, <1>3

LEMMA CreateKeepsSplit ==
    ASSUME IInv, NEW e \in Events, NEW creator \in {Reader, Other},
           NEW approval \in {"PENDING", "APPROVED"}, NEW on \in Days, NEW at \in Instants,
           CreateEvent(e, creator, approval, on, at)
    PROVE  IInv'
<1>1. Evolves(row)
  BY DEF Evolves, Stored, IInv, TypeOK
<1>2. Submitted(creator, approval, on, at) \in Row
  BY WrittenRows
<1>3. e \in Events \ Stored
  BY DEF CreateEvent
<1>4. Evolves([row EXCEPT ![e] = Submitted(creator, approval, on, at)])
  BY <1>1, <1>2, <1>3, InsertEvolves
<1> QED
  BY <1>4, ChangeKeepsSplit DEF CreateEvent

\* The commands on one stored row.
LEMMA RewriteKeepsSplit ==
    ASSUME IInv, NEW e \in Stored
    PROVE  /\ \A on \in Days : UpdatePendingEvent(e, on) => IInv'
           /\ \A approval \in {"APPROVED", "REJECTED"} : DecidePendingEvent(e, approval) => IInv'
           /\ ArchiveEvent(e) => IInv'
<1>1. row[e] \in Row /\ row \in [Events -> Row \cup {None}] /\ e \in Events
  BY DEF Stored, IInv, TypeOK
<1>2. ASSUME NEW on \in Days, UpdatePendingEvent(e, on)
      PROVE  IInv'
  <2>1. [row[e] EXCEPT !.on = on] \in Row /\ [row[e] EXCEPT !.on = on].at = row[e].at
    BY <1>1 DEF Row
  <2>2. Evolves([row EXCEPT ![e] = [row[e] EXCEPT !.on = on]])
    BY <2>1, RewriteEvolves DEF IInv
  <2>3. Evolves([row EXCEPT ![e].on = on])
    BY <2>2
  <2> QED
    BY <1>2, <2>3, ChangeKeepsSplit DEF UpdatePendingEvent
<1>3. ASSUME NEW approval \in {"APPROVED", "REJECTED"}, DecidePendingEvent(e, approval)
      PROVE  IInv'
  <2> DEFINE r == [row[e] EXCEPT !.approval = approval, !.reversible = approval = "APPROVED"]
  <2>1. r \in Row /\ r.at = row[e].at
    <3>1. (approval = "APPROVED") \in BOOLEAN
      OBVIOUS
    <3>2. approval \in Statuses
      BY DEF Statuses
    <3> QED
      BY <1>1, <3>1, <3>2 DEF Row
  <2>2. Evolves([row EXCEPT ![e] = r])
    BY <2>1, RewriteEvolves DEF IInv
  <2>3. [row EXCEPT ![e].approval = approval, ![e].reversible = approval = "APPROVED"]
        = [row EXCEPT ![e] = r]
    BY <1>1 DEF Row
  <2>4. Evolves([row EXCEPT ![e].approval = approval, ![e].reversible = approval = "APPROVED"])
    BY <2>2, <2>3
  <2> QED
    BY <1>3, <2>4, ChangeKeepsSplit DEF DecidePendingEvent
<1>4. ASSUME ArchiveEvent(e)
      PROVE  IInv'
  <2>1. [row[e] EXCEPT !.archived = TRUE] \in Row /\ [row[e] EXCEPT !.archived = TRUE].at = row[e].at
    BY <1>1 DEF Row
  <2>2. Evolves([row EXCEPT ![e] = [row[e] EXCEPT !.archived = TRUE]])
    BY <2>1, RewriteEvolves DEF IInv
  <2>3. Evolves([row EXCEPT ![e].archived = TRUE])
    BY <2>2
  <2> QED
    BY <1>4, <2>3, ChangeKeepsSplit DEF ArchiveEvent
<1> QED
  BY <1>2, <1>3, <1>4

LEMMA ReverseKeepsSplit ==
    ASSUME IInv, NEW e \in Events, NEW r \in Events, NEW on \in Days, NEW at \in Instants,
           ReverseEvent(e, r, on, at)
    PROVE  IInv'
<1>1. e \in Stored /\ r \in Events \ Stored /\ e # r
  BY DEF ReverseEvent
<1>2. row[e] \in Row /\ row \in [Events -> Row \cup {None}]
  BY <1>1 DEF Stored, IInv, TypeOK
<1> DEFINE old == [row[e] EXCEPT !.reversible = FALSE]
<1>3. old \in Row /\ old.at = row[e].at
  BY <1>2 DEF Row
<1>4. Evolves([row EXCEPT ![e] = old])
  BY <1>1, <1>3, RewriteEvolves DEF IInv
<1>5. Posted(on, at) \in Row
  BY WrittenRows
<1>6. Evolves([[row EXCEPT ![e] = old] EXCEPT ![r] = Posted(on, at)])
  BY <1>1, <1>4, <1>5, InsertEvolves
<1>7. Evolves([row EXCEPT ![e].reversible = FALSE, ![r] = Posted(on, at)])
  BY <1>6
<1> QED
  BY <1>7, ChangeKeepsSplit DEF ReverseEvent

LEMMA CorrectKeepsSplit ==
    ASSUME IInv, NEW e \in Events, NEW r \in Events, NEW p \in Events,
           NEW on \in Days, NEW replaced \in Days, NEW at \in Instants,
           CorrectEvent(e, r, p, on, replaced, at)
    PROVE  IInv'
<1>1. e \in Stored /\ r \in Events \ Stored /\ p \in Events \ Stored
  BY DEF CorrectEvent
<1>2. row[e] \in Row /\ row \in [Events -> Row \cup {None}]
  BY <1>1 DEF Stored, IInv, TypeOK
<1> DEFINE old == [row[e] EXCEPT !.reversible = FALSE]
           new == [Posted(replaced, at) EXCEPT !.reversible = TRUE]
<1>3. old \in Row /\ old.at = row[e].at
  BY <1>2 DEF Row
<1>4. Evolves([row EXCEPT ![e] = old])
  BY <1>1, <1>3, RewriteEvolves DEF IInv
<1>5. Posted(on, at) \in Row /\ new \in Row
  BY WrittenRows
<1> HIDE DEF new
<1>6. Evolves([[row EXCEPT ![e] = old] EXCEPT ![r] = Posted(on, at)])
  BY <1>1, <1>4, <1>5, InsertEvolves
<1>7. Evolves([[[row EXCEPT ![e] = old] EXCEPT ![r] = Posted(on, at)] EXCEPT ![p] = new])
  BY <1>1, <1>5, <1>6, InsertEvolves
<1>8. Evolves([row EXCEPT ![e].reversible = FALSE, ![r] = Posted(on, at), ![p] = new])
  BY <1>7
<1>9. Change([row EXCEPT ![e].reversible = FALSE, ![r] = Posted(on, at), ![p] = new])
  BY DEF CorrectEvent, new
<1> QED
  BY <1>8, <1>9, ChangeKeepsSplit

\* Rows that match for the scope a traversal began with do so whatever role
\* the reader has by now.
LEMMA ChangeRoleKeepsSplit ==
    ASSUME IInv, ChangeRole
    PROVE  IInv'
<1>1. row' = row /\ traversal' = traversal /\ role' \in Roles /\ changes' \in 0 .. MaxChanges
  BY ListingAssumption DEF ChangeRole, IInv, TypeOK
<1>2. Stored' = Stored
  BY <1>1 DEF Stored
<1> QED
  BY <1>1, <1>2 DEF IInv, TypeOK, CursorSplits

-----------------------------------------------------------------------------
(* Results.                                                                *)

LEMMA InitSplits ==
    ASSUME Init
    PROVE  IInv
<1>1. row \in [Events -> Row \cup {None}]
  <2>1. ASSUME NEW on \in Days, NEW at \in Instants
        PROVE  /\ Submitted(Reader, "PENDING", on, at) \in Row
               /\ Submitted(Other, "APPROVED", on, at) \in Row
    BY WrittenRows
  <2>2. FirstRows \subseteq Row
    BY <2>1 DEF FirstRows
  <2> QED
    BY <2>2 DEF Init
<1> QED
  BY <1>1, ListingAssumption DEF Init, Roles, IInv, TypeOK, CursorSplits

\* The cursor of a traversal splits the rows that kept their place into those
\* shown and those to come (paging of financial_events by position).
THEOREM ListingInvariant == Spec => []IInv
<1>1. Init => IInv
  BY InitSplits
<1>2. IInv /\ [Next]_vars => IInv'
  <2> SUFFICES ASSUME IInv, [Next]_vars
               PROVE  IInv'
    OBVIOUS
  <2>1. CASE UNCHANGED vars
    BY <2>1 DEF vars, IInv, TypeOK, CursorSplits, Stored
  <2>2. ASSUME NEW filter \in Filters, NEW size \in PageSizes,
               List(filter, size) \/ Continue(filter, size)
        PROVE  IInv'
    BY <2>2, ListSplits, ContinueSplits
  <2>3. ASSUME NEW e \in Events, NEW on \in Days, UpdatePendingEvent(e, on)
        PROVE  IInv'
    BY <2>3, RewriteKeepsSplit DEF UpdatePendingEvent
  <2>4. ASSUME NEW e \in Events, NEW on \in Days, NEW at \in Instants,
               NEW creator \in {Reader, Other}, NEW approval \in {"PENDING", "APPROVED"},
               CreateEvent(e, creator, approval, on, at)
        PROVE  IInv'
    BY <2>4, CreateKeepsSplit
  <2>5. ASSUME NEW e \in Events, NEW on \in Days, NEW at \in Instants, NEW r \in Events,
               ReverseEvent(e, r, on, at)
        PROVE  IInv'
    BY <2>5, ReverseKeepsSplit
  <2>6. ASSUME NEW e \in Events, NEW on \in Days, NEW at \in Instants,
               NEW r \in Events, NEW p \in Events, NEW replaced \in Days,
               CorrectEvent(e, r, p, on, replaced, at)
        PROVE  IInv'
    BY <2>6, CorrectKeepsSplit
  <2>7. ASSUME NEW e \in Events,
               ArchiveEvent(e) \/ DecidePendingEvent(e, "APPROVED") \/ DecidePendingEvent(e, "REJECTED")
        PROVE  IInv'
    <3>1. e \in Stored
      BY <2>7 DEF ArchiveEvent, DecidePendingEvent
    <3> QED
      BY <2>7, <3>1, RewriteKeepsSplit
  <2>8. CASE ChangeRole
    BY <2>8, ChangeRoleKeepsSplit
  <2> QED
    BY <2>1, <2>2, <2>3, <2>4, <2>5, <2>6, <2>7, <2>8 DEF Next
<1> QED
  BY <1>1, <1>2, PTL DEF Spec

\* Rows, role and traversal keep their types, and a cursor is only handed out
\* with a page that is not empty.
THEOREM ListingTypeCorrect == Spec => []TypeOK
<1>1. IInv => TypeOK
  BY DEF IInv
<1> QED
  BY <1>1, ListingInvariant, PTL

\* For every set of events, days, instants, filters and page sizes: the rows
\* that matched all along and kept their date are shown once and in order, and
\* all of them once no cursor is left.
THEOREM RowsListedOnce == Spec => []ListedOnce
<1>1. IInv => ListedOnce
  <2> SUFFICES ASSUME IInv, traversal # None
               PROVE  ListedOnce
    BY DEF ListedOnce
  <2>1. PICK t : t = traversal
    OBVIOUS
  <2>2. /\ Split(t, row)
        /\ t \in Traversal
        /\ t.steady \cup Range(t.shown) \subseteq Stored
        /\ row \in [Events -> Row \cup {None}]
    BY <2>1 DEF IInv, TypeOK, CursorSplits
  <2>3. \A e : Position(e) = Place(row, e)
    BY DEF Position, Place
  <2>4. \A i, j \in DOMAIN t.shown :
           (i < j /\ t.shown[i] \in t.steady /\ t.shown[j] \in t.steady) =>
               Precedes(Position(t.shown[i]), Position(t.shown[j]))
    BY <2>2, <2>3 DEF Split
  <2>5. ASSUME NEW e \in t.steady \ Range(t.shown)
        PROVE  /\ t.after # None
               /\ \A d \in t.steady \cap Range(t.shown) : Precedes(Position(d), Position(e))
    <3>1. t.after # None /\ Precedes(t.after, Place(row, e))
      BY <2>2 DEF Split
    <3>2. t.after \in Triple
      BY <2>2, <3>1, PlacesAreTriples DEF Traversal
    <3>3. ASSUME NEW d \in t.steady \cap Range(t.shown)
          PROVE  Precedes(Place(row, d), Place(row, e))
      <4>1. Place(row, d) = t.after \/ Precedes(Place(row, d), t.after)
        BY <2>2, <3>1 DEF Split
      <4>2. Place(row, d) \in Triple /\ Place(row, e) \in Triple
        BY <2>2, PlacesAreTriples DEF Stored
      <4> QED
        BY <3>1, <3>2, <4>1, <4>2, OrderIsStrict
    <3> QED
      BY <2>3, <3>1, <3>3
  <2> QED
    BY <2>1, <2>4, <2>5 DEF ListedOnce
<1> QED
  BY <1>1, ListingInvariant, PTL

=============================================================================
