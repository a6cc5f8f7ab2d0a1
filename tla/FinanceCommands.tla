--------------------------- MODULE FinanceCommands ---------------------------
(***************************************************************************)
(* The finance API as it runs: every request is one READ COMMITTED         *)
(* transaction that checks authority, claims its Idempotency-Key, locks    *)
(* rows, re-checks them, and commits.  Members' requests interleave at     *)
(* every row lock and at the commit; committed tables are those of         *)
(* FinanceLedger, which this module implements.                            *)
(*                                                                         *)
(* A member has one request in flight: authentication locks its account    *)
(* row until the transaction ends.                                         *)
(***************************************************************************)
EXTENDS Integers, Sequences, FiniteSets

CONSTANTS
    Members, Role, Categories, Names, Activities, Events, Amounts, Reviews,
    MaxVersion, None,   \* as in FinanceLedger
    Ops,                \* client operations: an operation_id with its Idempotency-Key
    Requests,           \* the requests each member's client sends, as often as it likes
    Disturbances        \* which of "TOGGLE", "EXPIRE" and "CRASH" may happen

VARIABLES
    category, event, review, audit,   \* the committed tables, as in FinanceLedger
    enabled,   \* workspace_modules: is HOUSEHOLD_FINANCE enabled
    claim,     \* idempotency_records: operation -> row or None
    minted,    \* <<table, operation>> of rows whose operation_id is taken
    effects,   \* history: how often each operation's effect was committed
    lock,      \* row locks: row or operation -> the member whose transaction holds it
    tx         \* the request each member has in flight

ledgerVars == <<category, event, review, audit>>
vars == <<category, event, review, audit, enabled, claim, minted, effects, lock, tx>>

\* The abstract ledger, over the same committed tables.
Ledger == INSTANCE FinanceLedger
    WITH Members <- Members, Role <- Role, Categories <- Categories, Names <- Names,
         Activities <- Activities, Events <- Events, Amounts <- Amounts, Reviews <- Reviews,
         MaxVersion <- MaxVersion, None <- None,
         category <- category, event <- event, review <- review, audit <- audit

Lockable == Categories \cup Events \cup Reviews \cup Ops

DecisionKinds  == {"APPROVE", "REJECT"}
LifecycleKinds == {"REVERSE", "CORRECT", "ARCHIVE"}
ReviewKinds    == {"COMMENT", "FLAG"}
CategoryKinds  == {"CREATE_CATEGORY", "RENAME_CATEGORY", "ARCHIVE_CATEGORY"}
Inserting      == {"CREATE", "CREATE_CATEGORY"} \cup ReviewKinds   \* they change no row
Idempotent     == {"CREATE"} \cup DecisionKinds \cup LifecycleKinds \cup ReviewKinds
Conditional    == LifecycleKinds \cup {"UPDATE", "RESOLVE", "RENAME_CATEGORY", "ARCHIVE_CATEGORY"}
Kinds          == Idempotent \cup CategoryKinds \cup {"UPDATE", "RESOLVE"}

\* The body of a request; a field its kind does not use is None.
Body == [kind : Kinds, direction : {"INFLOW", "OUTFLOW", None},
         activity : Activities \cup {None}, amount : Amounts \cup {None},
         name : Names \cup {None}, applicability : {"INCOME", "EXPENSE", "BOTH", None}]

\* A body that posts an event to a category, or moves one to it.
SelectsCategory(body) ==
    body.kind \in {"CREATE", "UPDATE"} \/ (body.kind = "CORRECT" /\ body.amount # None)

\* What the request schemas require of each kind.  An edit that omits a field
\* stands for one that sends the value of the version it names.
WellFormed(body) ==
    /\ SelectsCategory(body) => body.activity \in Activities /\ body.amount \in Amounts
    /\ SelectsCategory(body) /\ body.kind # "UPDATE" => body.direction \in {"INFLOW", "OUTFLOW"}
    /\ body.kind \in {"CREATE_CATEGORY", "RENAME_CATEGORY"} => body.name \in Names
    /\ body.kind = "CREATE_CATEGORY" => body.applicability \in {"INCOME", "EXPENSE", "BOTH"}

Command == [body : Body, kind : Kinds, target : Ledger!Resources \cup {None},
            category : Categories \cup {None}]

Codes == {"OK", "PERMISSION_DENIED", "NOT_FOUND", "INVALID_CATEGORY", "KEY_REUSED", "CONFLICT",
          "REPLAY", "REPLAYED", "REPLAY_UNAVAILABLE", "VERSION_MISMATCH", "INVALID_STATE",
          "DUPLICATE", "INTERNAL_ERROR"}
ClaimStates == {"IN_PROGRESS", "COMPLETED", "FAILED"}

\* A claim stores the outcome of its command, refusals of the row it names included.
ClaimRows == [actor : Members, cmd : Command, state : ClaimStates,
              code : {"OK", "NOT_FOUND", "VERSION_MISMATCH", "INVALID_STATE", None},
              resource : Ledger!Resources \cup {None}]

TableRow == Ledger!CategoryRow \cup Ledger!EventRow \cup Ledger!ReviewRow
Effects  == [rows : UNION {[X -> TableRow] : X \in SUBSET Ledger!Resources},
             action : Ledger!AuditActions, resource : Ledger!Resources]

\* Requests carry an Idempotency-Key exactly when their endpoint asks for one,
\* and a workspace has one active Admin (uq_membership_one_active_admin).
ASSUME CommandsAssumption ==
    /\ Ledger!LedgerAssumption
    /\ Requests \in [Members -> SUBSET ((Ops \cup {None}) \X Body)]
    /\ \A m \in Members : \A q \in Requests[m] :
          WellFormed(q[2]) /\ (q[1] # None <=> q[2].kind \in Idempotent)
    /\ \A m, n \in Members : Role[m] = "ADMIN" /\ Role[n] = "ADMIN" => m = n
    /\ Ops \cap Ledger!Resources = {}
    /\ None \notin Members \cup Ops \cup Ledger!Resources \cup Nat \cup Codes \cup ClaimRows \cup Effects
    /\ Disturbances \subseteq {"TOGGLE", "EXPIRE", "CRASH"}

Idle == [pc |-> "idle"]

Init ==
    /\ Ledger!Init
    /\ enabled = TRUE
    /\ claim = [op \in Ops |-> None]
    /\ minted = {}
    /\ effects = [op \in Ops |-> 0]
    /\ lock = [x \in Lockable |-> None]
    /\ tx = [m \in Members |-> Idle]

-----------------------------------------------------------------------------
(* Requests.  A command is a body with the rows it names; it stands for    *)
(* its fingerprint, which leaves the If-Match version out.                 *)

Existing(table) == {x \in DOMAIN table : table[x] # None}

Targets(kind) ==
    CASE kind \in {"CREATE", "CREATE_CATEGORY"}            -> {None}
      [] kind \in {"RENAME_CATEGORY", "ARCHIVE_CATEGORY"}  -> Existing(category)
      [] kind = "RESOLVE"                                  -> Existing(review)
      [] OTHER                                             -> Existing(event)

RowOf(cmd) ==
    CASE cmd.target \in Events     -> event[cmd.target]
      [] cmd.target \in Reviews    -> review[cmd.target]
      [] cmd.target \in Categories -> category[cmd.target]

\* The versions a client may have seen and send as If-Match.  Bound: it does
\* not ask for the edit that would pass MaxVersion.
Preconditions(cmd) ==
    IF cmd.kind \notin Conditional THEN {None}
    ELSE {v \in 1 .. RowOf(cmd).version :
              cmd.kind \in {"UPDATE", "RENAME_CATEGORY"} => v < MaxVersion}

\* Identifiers drawn for the rows the command may insert.
Draws(t) == {t.new[i] : i \in DOMAIN t.new}
Drawn    == UNION {Draws(tx[m]) : m \in {n \in Members : tx[n].pc # "idle"}}
NewIds(body) ==
    LET free(table) == DOMAIN table \ (Existing(table) \cup Drawn) IN
    CASE body.kind = "CREATE_CATEGORY"            -> {<<c>> : c \in free(category)}
      [] body.kind \in {"CREATE", "REVERSE"}      -> {<<e>> : e \in free(event)}
      [] body.kind \in ReviewKinds                -> {<<v>> : v \in free(review)}
      [] body.kind = "CORRECT" /\ body.amount = None -> {<<e>> : e \in free(event)}
      [] body.kind = "CORRECT" /\ body.amount # None ->
             {pair \in free(event) \X free(event) : pair[1] # pair[2]}
      [] OTHER                                    -> {<<>>}

\* The role and capability checks made before anything is read or claimed.
Permitted(m, kind) ==
    CASE kind = "CREATE"          -> Ledger!Can(m, "CREATE_FINANCIAL_SUBMISSION")
      [] kind = "UPDATE"          -> Role[m] = "CONTRIBUTOR"
      [] kind \in DecisionKinds \cup LifecycleKinds ->
             Ledger!Can(m, "APPROVE_OR_REJECT_SUBMISSIONS")
      [] kind = "COMMENT"         -> Ledger!Can(m, "COMMENT_OR_FLAG")
      [] kind = "FLAG"            -> Role[m] = "ADVISOR"
      [] kind = "RESOLVE"         -> Role[m] = "ADMIN"
      [] kind \in CategoryKinds   -> Ledger!Can(m, "MANAGE_FINANCE_CATEGORIES")

FirstStep(m, cmd) ==
    IF ~Permitted(m, cmd.kind) THEN "respond"
    ELSE IF cmd.kind # "UPDATE" /\ cmd.category # None THEN "category"
    ELSE IF cmd.kind \in Idempotent THEN "claim"
    ELSE "apply"

Begin(m) ==
    /\ tx[m].pc = "idle"
    /\ \E q \in Requests[m] :
       \E x \in Targets(q[2].kind),
          c \in IF SelectsCategory(q[2]) THEN Existing(category) ELSE {None},
          new \in NewIds(q[2]) :
       LET cmd == [body |-> q[2], kind |-> q[2].kind, target |-> x, category |-> c] IN
       \E v \in Preconditions(cmd) :
           tx' = [tx EXCEPT ![m] =
               [pc |-> FirstStep(m, cmd), op |-> q[1], cmd |-> cmd, version |-> v, new |-> new,
                claim |-> None, effect |-> None,
                reply |-> IF Permitted(m, cmd.kind) THEN None ELSE "PERMISSION_DENIED"]]
    /\ UNCHANGED <<ledgerVars, enabled, claim, minted, effects, lock>>

-----------------------------------------------------------------------------
(* Inside a transaction: only its locks are seen by others before commit.  *)

Free(m, x) == lock[x] \in {None, m}
Take(m, rows) == lock' = [x \in Lockable |-> IF x \in rows THEN m ELSE lock[x]]
Step(m, t) == tx' = [tx EXCEPT ![m] = t]
Answer(t, code) == [t EXCEPT !.pc = "respond", !.reply = code]
Untouched == UNCHANGED <<ledgerVars, enabled, claim, minted, effects>>

\* SELECT ... WHERE status = 'ACTIVE' FOR UPDATE: the row it locks, if any.
CategoryLocked(t) ==
    {c \in {t.cmd.category} : enabled /\ category[c].status = "ACTIVE"}

CategoryFits(t) ==
    LET direction == IF t.cmd.kind = "UPDATE" THEN event[t.cmd.target].direction
                                              ELSE t.cmd.body.direction
    IN  Ledger!Fits(category[t.cmd.category], direction, t.cmd.body.activity)

\* Bug: the category is validated without locking it.
ValidateCategoryUnlocked(m) ==
    LET t == tx[m] IN
    /\ t.pc = "category"
    /\ Step(m, CASE CategoryLocked(t) = {} -> Answer(t, "NOT_FOUND")
                 [] CategoryLocked(t) # {} /\ ~CategoryFits(t) -> Answer(t, "INVALID_CATEGORY")
                 [] OTHER -> [t EXCEPT !.pc = "claim"])
    /\ UNCHANGED lock
    /\ Untouched

\* validate_event_category, before the claim.
ValidateCategory(m) ==
    LET t == tx[m] IN
    /\ t.pc = "category"
    /\ \A c \in CategoryLocked(t) : Free(m, c)
    /\ Take(m, CategoryLocked(t))
    /\ Step(m, CASE CategoryLocked(t) = {} -> Answer(t, "NOT_FOUND")
                 [] CategoryLocked(t) # {} /\ ~CategoryFits(t) -> Answer(t, "INVALID_CATEGORY")
                 [] OTHER -> [t EXCEPT !.pc = "claim"])
    /\ Untouched

\* Bug: the claim does not say whose it is.
ClaimRowWithoutActor(m, t, state, code, resource) ==
    [actor |-> None, cmd |-> t.cmd, state |-> state, code |-> code, resource |-> resource]

ClaimRow(m, t, state, code, resource) ==
    [actor |-> m, cmd |-> t.cmd, state |-> state, code |-> code, resource |-> resource]

OperationCode(kind) == IF kind \in ReviewKinds THEN "CREATE_FINANCIAL_REVIEW" ELSE kind

\* What an existing claim answers to a request; None lets it run.
ClaimAnswer(m, t) ==
    LET old == claim[t.op] IN
    IF old = None THEN None
    ELSE IF OperationCode(old.cmd.kind) # OperationCode(t.cmd.kind) THEN "KEY_REUSED"
    ELSE IF old.actor # m THEN "NOT_FOUND"
    ELSE IF old.cmd # t.cmd THEN "KEY_REUSED"
    ELSE IF old.state = "IN_PROGRESS" THEN "CONFLICT"
    ELSE "REPLAY"

\* Bug: an approval is only replayed while the event is effective.
ReplayNeedsEffect(old) ==
    old.cmd.kind = "APPROVE" => event[old.resource].posting = "EFFECTIVE"

\* What the row read back for a completed claim must still say.
ReplayAvailable(old) ==
    LET row == event[old.resource] IN
    CASE old.cmd.kind = "APPROVE"  -> row.approval = "APPROVED"
      [] old.cmd.kind = "REJECT"   -> row.approval = "REJECTED"
      [] old.cmd.kind = "ARCHIVE"  -> row.archived
      [] old.cmd.kind \in {"REVERSE", "CORRECT"} ->
             \E r \in Existing(event) : /\ event[r].reverses = old.resource
                                        /\ event[r].approval = "APPROVED"
                                        /\ event[r].posting = "EFFECTIVE"
      [] old.cmd.kind \in ReviewKinds -> event[review[old.resource].event].approval = "APPROVED"
      [] OTHER                        -> TRUE

\* A stored failure is answered as it is; a stored success is read back, which
\* checks the module again.
ReplayAnswer(old) ==
    CASE old.state = "FAILED"                                    -> old.code
      [] old.state = "COMPLETED" /\ ~enabled                     -> "NOT_FOUND"
      [] old.state = "COMPLETED" /\ enabled /\ ReplayAvailable(old)  -> "REPLAYED"
      [] old.state = "COMPLETED" /\ enabled /\ ~ReplayAvailable(old) -> "REPLAY_UNAVAILABLE"

Claim(m) ==
    LET t == tx[m]
        answer == ClaimAnswer(m, t)
    IN
    /\ t.pc = "claim"
    /\ Free(m, t.op)
    /\ Take(m, {t.op})
    /\ \/ /\ \/ answer = None
             \/ answer = "REPLAY" /\ "EXPIRE" \in Disturbances   \* retention has passed
          /\ Step(m, [t EXCEPT !.pc = "apply",
                               !.claim = ClaimRow(m, t, "IN_PROGRESS", None, None)])
       \/ /\ answer \notin {None, "REPLAY"}
          /\ Step(m, Answer(t, answer))
       \/ /\ answer = "REPLAY"
          /\ Step(m, Answer(t, ReplayAnswer(claim[t.op])))
    /\ Untouched

-----------------------------------------------------------------------------
(* The command itself.                                                     *)

\* Whether the row the command names matches the WHERE of its query.
Found(m, cmd) ==
    CASE cmd.kind = "UPDATE"       -> event[cmd.target].creator = m
      [] cmd.kind \in ReviewKinds  -> event[cmd.target].approval = "APPROVED"
      [] cmd.kind = "RESOLVE"      -> event[review[cmd.target].event].approval = "APPROVED"
      [] OTHER                     -> TRUE

\* Bug: SELECT without FOR UPDATE.
NoLockedRows(m, cmd) == {}

\* The rows the query locks.
LockedRows(m, cmd) ==
    IF ~enabled \/ cmd.target = None \/ ~Found(m, cmd) THEN {}
    ELSE IF cmd.kind = "RESOLVE" THEN {cmd.target, review[cmd.target].event}
    ELSE {cmd.target}

StateAllows(cmd) ==
    CASE cmd.kind \in DecisionKinds \cup {"UPDATE"} -> Ledger!IsPending(RowOf(cmd))
      [] cmd.kind \in {"REVERSE", "CORRECT"}        -> Ledger!IsReversible(RowOf(cmd))
      [] cmd.kind = "ARCHIVE" -> RowOf(cmd).approval # "PENDING" /\ ~RowOf(cmd).archived
      [] cmd.kind = "RESOLVE" -> RowOf(cmd).kind = "FLAG" /\ RowOf(cmd).flag = "OPEN"
      [] cmd.kind \in {"RENAME_CATEGORY", "ARCHIVE_CATEGORY"} -> RowOf(cmd).status = "ACTIVE"
      [] OTHER                                      -> TRUE

\* Bug: If-Match is not compared.
VerdictWithoutVersion(m, t) ==
    IF ~enabled \/ ~Found(m, t.cmd) THEN "NOT_FOUND"
    ELSE IF ~StateAllows(t.cmd) THEN "INVALID_STATE"
    ELSE "OK"

\* The checks made on the locked row, in their order; "OK" when all pass.
Verdict(m, t) ==
    IF ~enabled \/ ~Found(m, t.cmd) THEN "NOT_FOUND"
    ELSE IF t.version # None /\ RowOf(t.cmd).version # t.version THEN "VERSION_MISMATCH"
    ELSE IF ~StateAllows(t.cmd) THEN "INVALID_STATE"
    ELSE "OK"

\* The unique index on the names of Active categories.
NameTaken(t) ==
    LET body == t.cmd.body IN
    CASE t.cmd.kind = "CREATE_CATEGORY" ->
             ~Ledger!ScopeNameFree(t.new[1], body.name, body.applicability, body.activity)
      [] t.cmd.kind = "RENAME_CATEGORY" ->
             LET row == category[t.cmd.target] IN
             ~Ledger!ScopeNameFree(t.cmd.target, body.name, row.applicability, row.activity)
      [] OTHER -> FALSE

\* Bug: operation ids are not unique.
MintsNothing(t) == {}

\* An inserted row carries its operation's id, unique within its table.
Mints(t) ==
    IF t.cmd.kind \in {"CREATE", "REVERSE", "CORRECT"} THEN {<<"financial_events", t.op>>}
    ELSE IF t.cmd.kind \in ReviewKinds THEN {<<"financial_event_reviews", t.op>>}
    ELSE {}

\* The unique operation id and the history trigger, either of which fails the
\* statement; nothing catches their error.
DatabaseRefuses(m, t) ==
    \/ Mints(t) \cap minted # {}
    \/ t.cmd.kind \in {"REVERSE", "CORRECT"} /\ ~Ledger!HistoryGuard(Ledger!ReversalOf(m, t.cmd.target))
    \/ t.cmd.kind = "ARCHIVE" /\ ~Ledger!HistoryGuard(event[t.cmd.target])

\* The next version of the row the command names.
RewrittenRow(t) ==
    LET row  == RowOf(t.cmd)
        body == t.cmd.body
    IN
    CASE t.cmd.kind = "UPDATE" ->
             [row EXCEPT !.category = t.cmd.category, !.activity = body.activity,
                         !.amount = body.amount, !.version = @ + 1]
      [] t.cmd.kind = "APPROVE" ->
             [row EXCEPT !.approval = "APPROVED", !.posting = "EFFECTIVE", !.version = @ + 1]
      [] t.cmd.kind = "REJECT"  -> [row EXCEPT !.approval = "REJECTED", !.version = @ + 1]
      [] t.cmd.kind \in {"REVERSE", "CORRECT"} ->
             [row EXCEPT !.posting = "REVERSED", !.version = @ + 1]
      [] t.cmd.kind = "ARCHIVE" -> [row EXCEPT !.archived = TRUE, !.version = @ + 1]
      [] t.cmd.kind = "RESOLVE" -> [row EXCEPT !.flag = "RESOLVED", !.version = @ + 1]
      [] t.cmd.kind = "RENAME_CATEGORY" ->
             [row EXCEPT !.name = body.name, !.version = @ + 1]
      [] t.cmd.kind = "ARCHIVE_CATEGORY" ->
             [row EXCEPT !.status = "ARCHIVED", !.version = @ + 1]

\* The row inserted under identifier y; a correction inserts its reversal first.
InsertedRow(m, t, y) ==
    LET x    == t.cmd.target
        c    == t.cmd.category
        body == t.cmd.body
    IN
    CASE t.cmd.kind = "CREATE" ->
             Ledger!NewEvent(m, c, body.direction, body.activity, body.amount)
      [] t.cmd.kind \in {"REVERSE", "CORRECT"} /\ y = t.new[1] -> Ledger!ReversalOf(m, x)
      [] t.cmd.kind = "CORRECT" /\ y # t.new[1] ->
             Ledger!ReplacementFor(m, x, c, body.direction, body.activity, body.amount)
      [] t.cmd.kind \in ReviewKinds ->
             [event |-> x, kind |-> t.cmd.kind, author |-> m, version |-> 1,
              flag |-> IF t.cmd.kind = "FLAG" THEN "OPEN" ELSE None]
      [] t.cmd.kind = "CREATE_CATEGORY" ->
             [name |-> body.name, applicability |-> body.applicability,
              activity |-> body.activity, status |-> "ACTIVE", version |-> 1]

\* The rows the command writes.
Writes(m, t) ==
    LET rewritten == IF t.cmd.kind \in Inserting THEN {} ELSE {t.cmd.target}
    IN  [y \in rewritten \cup Draws(t) |->
            IF y \in Draws(t) THEN InsertedRow(m, t, y) ELSE RewrittenRow(t)]

AuditAction(m, kind) ==
    CASE kind = "CREATE" -> IF Role[m] = "ADMIN" THEN "CREATED_APPROVED" ELSE "SUBMITTED"
      [] kind = "UPDATE"           -> "PENDING_UPDATED"
      [] kind = "APPROVE"          -> "APPROVED"
      [] kind = "REJECT"           -> "REJECTED"
      [] kind = "REVERSE"          -> "REVERSED"
      [] kind = "CORRECT"          -> "CORRECTED"
      [] kind = "ARCHIVE"          -> "ARCHIVED"
      [] kind = "COMMENT"          -> "COMMENTED"
      [] kind = "FLAG"             -> "FLAGGED"
      [] kind = "RESOLVE"          -> "FLAG_RESOLVED"
      [] kind = "CREATE_CATEGORY"  -> "CATEGORY_CREATED"
      [] kind = "RENAME_CATEGORY"  -> "CATEGORY_UPDATED"
      [] kind = "ARCHIVE_CATEGORY" -> "CATEGORY_ARCHIVED"

\* The row the audit row and the completed claim name.
Resource(t) ==
    IF t.cmd.kind \in Inserting THEN t.new[1]
    ELSE t.cmd.target

\* Bug: the claim is not completed with the effect.
PerformedUnclaimed(m, t) ==
    [t EXCEPT !.pc = "respond", !.reply = "OK",
        !.effect = [rows |-> Writes(m, t), action |-> AuditAction(m, t.cmd.kind),
                    resource |-> Resource(t)]]

\* Writes, audit and the completed claim wait for the commit.
Performed(m, t) ==
    [t EXCEPT !.pc = "respond", !.reply = "OK",
        !.effect = [rows |-> Writes(m, t), action |-> AuditAction(m, t.cmd.kind),
                    resource |-> Resource(t)],
        !.claim = IF @ = None THEN None ELSE ClaimRow(m, t, "COMPLETED", "OK", Resource(t))]

\* A refusal the API catches: it is committed, with the claim failed.  Creating
\* an event has no such handler, and leaves its claim in progress.
Refused(m, t, code) ==
    [Answer(t, code) EXCEPT !.claim =
        IF @ = None \/ t.cmd.kind = "CREATE" THEN @ ELSE ClaimRow(m, t, "FAILED", code, None)]

\* An error nothing catches: the whole transaction rolls back.
RolledBack(t) == [Answer(t, "INTERNAL_ERROR") EXCEPT !.claim = None]

Conclude(m, t) ==
    IF NameTaken(t) THEN Answer(t, "DUPLICATE")
    ELSE IF DatabaseRefuses(m, t) THEN RolledBack(t)
    ELSE Performed(m, t)

Apply(m) ==
    LET t == tx[m]
        verdict == Verdict(m, t)
        rows == LockedRows(m, t.cmd)
    IN
    /\ t.pc = "apply"
    /\ \A x \in rows : Free(m, x)
    /\ Take(m, rows)
    /\ Step(m, IF verdict # "OK" THEN Refused(m, t, verdict)
               ELSE IF t.cmd.kind = "UPDATE" THEN [t EXCEPT !.pc = "select"]
               ELSE Conclude(m, t))
    /\ Untouched

\* update_pending_event locks the category after the event.
SelectCategory(m) ==
    LET t == tx[m] IN
    /\ t.pc = "select"
    /\ \A c \in {t.cmd.category} : category[c].status = "ACTIVE" => Free(m, c)
    /\ Take(m, {c \in {t.cmd.category} : category[c].status = "ACTIVE"})
    /\ Step(m, IF category[t.cmd.category].status # "ACTIVE" THEN Answer(t, "NOT_FOUND")
               ELSE IF ~CategoryFits(t) THEN Answer(t, "INVALID_CATEGORY")
               ELSE Performed(m, t))
    /\ Untouched

-----------------------------------------------------------------------------
(* The end of a transaction.                                               *)

\* Bug: locks on categories outlive the transaction (its connection goes back
\* to the pool with the transaction open).
ReleaseKeepsCategories(m) ==
    lock' = [x \in Lockable |-> IF lock[x] = m /\ x \notin Categories THEN None ELSE lock[x]]

Release(m) == lock' = [x \in Lockable |-> IF lock[x] = m THEN None ELSE lock[x]]

Install(table, t) ==
    IF t.effect = None THEN table
    ELSE [x \in DOMAIN table |-> IF x \in DOMAIN t.effect.rows THEN t.effect.rows[x] ELSE table[x]]

Commit(m) ==
    LET t == tx[m] IN
    /\ t.pc = "respond"
    /\ category' = Install(category, t)
    /\ event' = Install(event, t)
    /\ review' = Install(review, t)
    /\ audit' = IF t.effect = None THEN audit
                ELSE Ledger!Record(t.effect.resource, t.effect.action)
    /\ claim' = IF t.claim = None THEN claim ELSE [claim EXCEPT ![t.op] = t.claim]
    /\ minted' = IF t.effect = None THEN minted ELSE minted \cup Mints(t)
    /\ effects' = IF t.effect = None \/ t.op = None THEN effects
                  ELSE [effects EXCEPT ![t.op] = @ + 1]
    /\ Step(m, Idle)
    /\ Release(m)
    /\ UNCHANGED enabled

\* The connection or the server is lost: PostgreSQL rolls back.
Crash(m) ==
    /\ "CRASH" \in Disturbances
    /\ tx[m].pc # "idle"
    /\ Step(m, Idle)
    /\ Release(m)
    /\ Untouched

\* The rows a transaction asks for next.
Wanted(m) ==
    CASE tx[m].pc = "category" -> CategoryLocked(tx[m])
      [] tx[m].pc = "claim"    -> {tx[m].op}
      [] tx[m].pc = "apply"    -> LockedRows(m, tx[m].cmd)
      [] tx[m].pc = "select"   -> {tx[m].cmd.category}
      [] OTHER                 -> {}
WaitsFor(m) == {lock[x] : x \in {y \in Wanted(m) : ~Free(m, y)}}

\* PostgreSQL cancels one of two transactions that wait for each other; nothing
\* in the API retries it.
BreakDeadlock(m) ==
    /\ \E n \in WaitsFor(m) : m \in WaitsFor(n)
    /\ Step(m, RolledBack(tx[m]))
    /\ Release(m)
    /\ Untouched

\* The Admin enables or disables the module: another request of the Admin.
ToggleModule(m) ==
    /\ "TOGGLE" \in Disturbances
    /\ Role[m] = "ADMIN"
    /\ tx[m].pc = "idle"
    /\ enabled' = ~enabled
    /\ UNCHANGED <<ledgerVars, claim, minted, effects, lock, tx>>

Serve(m) == ValidateCategory(m) \/ Claim(m) \/ Apply(m) \/ SelectCategory(m) \/ Commit(m)

Next ==
    \E m \in Members :
        Begin(m) \/ Serve(m) \/ Crash(m) \/ BreakDeadlock(m) \/ ToggleModule(m)

Spec == Init /\ [][Next]_vars

\* Requests are served, blocked ones in the order they came (PostgreSQL queues
\* lock waiters), deadlocks are detected, and clients need not send anything.
Fairness == \A m \in Members : SF_vars(Serve(m)) /\ WF_vars(BreakDeadlock(m))

FairSpec == Spec /\ Fairness

-----------------------------------------------------------------------------
(* Safety.                                                                 *)

TypeOK ==
    /\ Ledger!TypeOK
    /\ enabled \in BOOLEAN
    /\ \A op \in Ops : claim[op] # None =>
          claim[op].actor \in Members /\ claim[op].state \in ClaimStates
    /\ minted \subseteq {"financial_events", "financial_event_reviews"} \X Ops
    /\ effects \in [Ops -> Nat]
    /\ lock \in [Lockable -> Members \cup {None}]
    /\ \A m \in Members :
          tx[m].pc \in {"idle", "category", "claim", "apply", "select", "respond"}
    /\ \A x \in Lockable : lock[x] # None => tx[lock[x]].pc # "idle"

\* Every commit is one step of the ledger or changes nothing in it: requests
\* that interleave at locks and commits behave as atomic commands.
ImplementsLedger == Ledger!Spec

\* An operation's effect is committed at most once, whatever is retried,
\* lost, or retried after its claim expired.
NeverTwice == \A op \in Ops : effects[op] <= 1

\* A claim says COMPLETED exactly when the effect is committed: no success is
\* recorded without it, and no effect without the record that stops a retry.
CompletedIffApplied ==
    \A op \in Ops :
        (claim[op] # None /\ claim[op].state = "COMPLETED") <=> effects[op] = 1

\* A completed command can always be read back: later commands on the same
\* rows never make its stored outcome unavailable (FinancialEventReplayUnavailable).
ReplayStaysAvailable ==
    \A m \in Members : tx[m].pc = "respond" => tx[m].reply # "REPLAY_UNAVAILABLE"

\* A conditional command only replaces the version its If-Match named: nothing
\* committed between the check and the commit is overwritten.
ConditionalStep ==
    \A m \in Members :
        (/\ tx[m].pc = "respond"
         /\ tx'[m].pc = "idle"
         /\ tx[m].version # None
         /\ tx[m].effect # None
         /\ <<category, event, review>>' # <<category, event, review>>) =>
            RowOf(tx[m].cmd).version = tx[m].version
IfMatchHonoured == [][ConditionalStep]_vars

\* Every request that is not cut off is answered: lock waits and deadlocks end.
EveryRequestAnswered == \A m \in Members : tx[m].pc # "idle" ~> tx[m].pc = "idle"

-----------------------------------------------------------------------------
(* What the documents promise and the code does not keep.                  *)

\* "The event, required safe audit evidence, and terminal idempotency outcome
\* use one caller-owned database transaction" (docs/09_API_Design.md:235-236):
\* no transaction commits a claim that is still in progress.
ClaimsCommitTerminal ==
    \A op \in Ops : claim[op] # None => claim[op].state # "IN_PROGRESS"

\* "A matching retry returns the original event after current authority is
\* revalidated" (docs/09_API_Design.md:236-237).
MatchingRetryReturnsOriginal ==
    \A m \in Members :
        LET t == tx[m] IN
        (/\ t.pc = "respond"
         /\ t.op # None
         /\ claim[t.op] # None
         /\ claim[t.op].state = "COMPLETED"
         /\ claim[t.op].actor = m
         /\ claim[t.op].cmd = t.cmd
         /\ enabled) => t.reply = "REPLAYED"

\* "Archive | Any terminal approval state" (docs/27_Household_Finance_Design.md:158):
\* archiving a decided event that is not archived does not fail.
ArchiveOfDecidedSucceeds ==
    \A m \in Members :
        (tx[m].pc = "respond" /\ tx[m].cmd.kind = "ARCHIVE") => tx[m].reply # "INTERNAL_ERROR"
=============================================================================
