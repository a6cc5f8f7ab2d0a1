# F2S: specifications, model checking and proofs

F2S is a household-finance service: a FastAPI modular monolith
(`src/backend/app`) over PostgreSQL, with a React client. This directory holds
TLA+ specifications of its core logic, the TLC configurations that check them,
and TLAPS proofs about them. `PROJECT.json` lists components, runs, hazards,
findings, theorems, and the source lines each definition stands for.

One HTTP request is one database session and one transaction
(`infrastructure/database/session.py`), at PostgreSQL's default READ COMMITTED
isolation. All shared state is in the database, apart from process-local abuse
counters and the receipt store. What is hard is therefore not threads but
transactions: where each one locks, what it re-reads after waiting, what a
retry finds, and what a crash before the commit leaves behind.

## Inventory

| Component | State | Operations | What makes it correct | Status |
|---|---|---|---|---|
| Finance ledger and categories (`repositories/finance.py`, migration `20260814_0003`) | categories, financial events, audit records | create, rename, archive a category; submit, edit, approve, reject, reverse, correct, archive an event | statuses combine legally; a reversal cancels exactly one original; decided facts never change; the official total is that of the facts that stand; every version audited | `FinanceLedger`, proofs |
| Reviews (`household_finance/reviews.py`) | comments and flags | comment, flag, resolve | only on approved events; resolved once | `FinanceLedger`, `FinanceCommands`, proofs |
| Finance commands and idempotency (`household_finance/*.py`, `repositories/idempotency.py`, `api/financial_events.py`) | idempotency claims, row locks | every command as a transaction, its retries and replays | concurrent commands act as atomic ones; If-Match honoured; at most one effect per operation; every request answered | `FinanceCommands`, proofs |
| Finance queries and cursors (`household_finance/queries.py`, `api/financial_event_cursors.py`, `repositories/finance.py`) | none of their own | filter, sort, page, status history | pages neither skip nor repeat a row while rows change between them | `EventListing`, proofs; status history in `FinanceLedger` |
| Sessions (`modules/sessions`, `repositories/sessions.py`, `api/security.py`) | session generations in families | login, refresh, logout, authenticate | one usable generation per family; replays and revocations end families | `SessionFamilies`, proofs |
| Account security | password, recovery challenges | change password, issue and confirm recovery | old sessions end; a challenge is used once | `SessionFamilies` (sessions), `WorkspaceMembers` (challenges), proofs |
| Membership lifecycle, activation, ownership transfer | memberships, challenges, transfer requests | invite, activate, suspend, reactivate, revoke, change role; initiate, confirm, cancel | always exactly one owner who is the one Admin; no orphaned challenge | `WorkspaceMembers`, proofs; races with refreshes in `SessionFamilies` |
| Workspace access and settings | capability matrix, module switch, settings | authorize, toggle, update | checked on every request | where finance and members use them; the settings update as an Admin command of `WorkspaceMembers` |
| Receipts | protected files, object store | reserve, upload, scan, remove, clean up | bytes and rows agree after crashes; attached only while the expense allows it | `Receipts`, proofs |
| Bootstrap (`modules/bootstrap`) | singleton completion row | create the first Admin and workspace | at most once, whoever races | `WorkspaceMembers`, proofs |
| Abuse controls | per-process windows | permit, fail, succeed | bounded, limits kept | not modelled: verdicts are free choices |
| Money and decimals (`shared_kernel/money.py`, `decimals.py`, `currency.py`) | none | parse, validate, quantize, add, subtract, store, show | what is accepted is stored exactly and shown as the same number; rounding is to the nearest, ties to even | `Money` |
| Audit writer | audit log | append | as part of the operation's transaction | finance successes only |
| Credentials, passwords, HTTP assembly, configuration, frontend | none that is shared | | | not modelled: cryptography, formats, wiring; verdicts are free choices |

Interaction: the API authenticates (locking session and account rows), resolves
an authorization context (membership, role, module), and calls a service of the
module, which uses repositories that lock, re-check and write. Exceptions a
handler turns into a response still COMMIT; those that escape ROLL BACK.

## Modules

* **`FinanceLedger`** is the abstract promise: the committed tables `category`,
  `event`, `review`, `audit`, and one atomic action per repository operation,
  with the guards, constraints, trigger and audit records of the code. Amounts
  are small integers, texts and dates are dropped, `version` is the ETag. The
  status history read model is `StatusHistory`: the positions of the audit rows
  that name a status.
* **`FinanceCommands`** is what runs: for each member one transaction
  (`tx[m].pc`: `category`, `claim`, `apply`, `select`, `respond`), row locks
  (`lock`), claims (`claim`), and the module switch. Each step ends where the
  code may wait. Reads take place under the locks the code takes, writes become
  visible at `Commit`. It instantiates `FinanceLedger` with its own tables, `WITH` the
  substitution written out (the constants and the four tables are its own; what
  a transaction holds maps to nothing before it commits), and is checked to
  implement `Ledger!Spec`.
* **`SessionFamilies`** models sessions with the two ways PostgreSQL reads under
  READ COMMITTED: `SELECT ... FOR UPDATE` waits and returns the latest version;
  `UPDATE ... WHERE` picks rows from a snapshot (`Snapshot`), waits for each
  (`UpdateRow`) and re-checks only those rows. `epoch` is a history variable: the
  number of committed account-wide revocations; a session carries the epoch in
  which its family was opened (or kept by the password change it performed).
* **`WorkspaceMembers`** models the people of one workspace, from its bootstrap on. `db` maps a named row
  (workspace, account, membership, session, activation, recovery, transfer) to
  its committed content, `lock` a row or the advisory lock of an address to its
  holder. A request (`tx[w]`) is a list of rows to lock (`todo`) and a `stage`, the
  check that runs when it holds them; `Proceed` names the operator for each
  stage, in the order of the code: `Authenticate`, `Authorize`, then for example
  `FindTransfer` and `Confirm`. `Finish` fixes the writes and the rows that the
  request's `UPDATE` statements match; `Update` re-checks them after the wait;
  `Commit` makes everything visible. A session remembers the role and status in
  which it was opened, for `LiveSessionsAreCurrent`.
* **`Receipts`** models the receipts of one expense: committed rows (`file`), the
  store outside of the database (`object`, `PARTIAL` after a write that failed),
  requests (`tx[m].pc`: `event`, `file`, `body`, `stored`, `scan`), the cleanup
  transaction (`batch`), and an `age` for the three deadlines that the code
  compares with the clock. Only changes of `object` survive a `Crash`. The module
  is checked where the code does: when a request begins and before each mark,
  not after the wait for a row lock (`receipts.py:360`, `receipts.py:387`), so a
  reservation or a removal that waited commits although the module was disabled
  meanwhile.
* **`EventListing`** models reading the list of events page by page. A page is one
  SELECT over committed rows, hence one step: `List` starts a traversal,
  `Continue` brings a cursor, whose content (position of the last row, scope) is
  kept in `traversal`. Between pages the rows change as the commands change what
  the list looks at (creator, status, archived, date, creation time). `steady` is
  history: the rows that matched all along and kept their date.
* **`Money`** holds the functions on amounts as operators over (sign, coefficient,
  exponent), from the text of a request to the NUMERIC column and back. A step
  applies one function to one input, and `MoneyIsExact` states what its result
  must be without using those functions: text and column agree, and a calculated
  value is a nearest one (`Nearest`).
* **`FinanceLedgerProofs`, `FinanceCommandsProofs`, `SessionFamiliesProofs`,
  `ReceiptsProofs`, `EventListingProofs`** hold the theorems about the module each
  is named after.
* **`WorkspaceMembersEffects`, `WorkspaceMembersSteps`, `WorkspaceMembersProofs`** are the
  three parts of the proofs about `WorkspaceMembers`: what a commit does to the
  committed rows, what each step of a request leaves settled (one lemma per
  operator that `Proceed` names), and the inductive invariant with its theorems.
* **`MC*`** modules give constants for TLC. Operators marked `Bug:` are mutated
  forms of a definition, used to confirm that a property can fail.

## Runs

| Run | Question | Bounds |
|---|---|---|
| `ledger_events` | all properties of the event lifecycle, and do events keep fitting their category under edits, corrections, archiving | 3 events (a submission, its reversal, its replacement), 2 amounts, 2 categories, 2 activities, 1 review, versions up to 2; cut by `Small` |
| `commands_events` | Admin and Contributor act on one submission, with crashes and the module toggled: does it implement the ledger | 1 category, 2 events, 4 operations |
| `commands_categories` | the same while its category changes, both members use one operation key, claims expire; deadlock; liveness | 1 category, 2 names, 3 events, 1 comment, 3 operations |
| `commands_abandoned`, `commands_lost_retry`, `commands_archive` | violations, below | |
| `sessions_revocations` | every race of login, refresh, replay, logout, password change, recovery, membership revocation | 1 account, 3 generations, 2 requests at a time, 1 account-wide revocation; symmetric identifiers |
| `sessions_reuse` | violation, below | 3 generations |
| `members_lifecycle` | two people bootstrap an empty installation at once; invitation, activation, login and the Admin's changes of one person | 2 people, 2 requests at a time, 2 challenges, 2 roles, versions up to 3 |
| `members_ownership` | transfer, its cancellation and replacement, recovery, settings, suspension | 2 people, 2 requests at a time, 2 transfers, 1 recovery, 1 role, versions up to 2 |
| `receipts` | do rows and stored bytes agree | 2 receipts of a Contributor's expense, the Admin, one cleanup |
| `event_listing` | is a list read page by page complete and free of repetitions while it changes; are amounts exact | 3 events, 2 days, 2 instants, page sizes 1 and 2, 2 filters, 2 changes; a column of 3 digits with 2 decimal places, currencies with 0 and 1 places, coefficients up to 1200, 3 places |

Why these are enough: every interaction in the code is between an event and at
most one reversal and one replacement, an operation and its retry, or a waiting
transaction and the one it waits for; two members suffice because a member has
one request in flight (authentication holds its account row) and a workspace
has one Admin. `MaxVersion` only limits renames and edits, `MaxEpoch` only how
often an account-wide revocation is requested. Two families, one of which
rotates, need three generations; a replay against a rotation in progress needs
three. In `WorkspaceMembers` a request carries the version its client read last
(an older one is refused wherever a version is checked), and the second person
is absent or ACTIVE at first: every other start is reached from one of these.
Two receipts meet only in the lock of the expense and the batch of the cleanup.
Flags and their resolution are exercised by `ledger_events` and comments also
by `commands_categories`, which renames categories to another name.
`Small` (in `MCFinanceLedger`) keeps what does not interact apart: several
events live in one category that admits them all, without a second activity or
reviews; the second category appears beside one event, which may move to it or
from it, without reviews and a second amount. In `event_listing` two changes are enough for a
row to enter, leave or pass the position of a cursor between any two of the at
most three pages, and the three events with two days and two instants give
every tie the order has to break. The listing and the amounts share no state,
so a behaviour of that run exercises one or the other. The column of `Money`
is small, but every coefficient and place around its limits is an input: too
many digits, too many places, ties of the rounding, negative zero. Runs with `CHECK_DEADLOCK FALSE` stop when their
identifiers are used up.

Fairness, for the one liveness property (`EveryRequestAnswered` of
`FinanceCommands`): `SF` on a request's next step, because PostgreSQL serves lock queues
in order; `WF` on `BreakDeadlock`, because it detects deadlocks. Clients need
not send, and crashes need not happen. `Receipts` has no liveness: nothing in the
repository calls `cleanup_due`, and an upload keeps its rows locked for as long
as the client takes to send the body.

## What the checks found

* `commands_abandoned`: disabling the finance module between claim and insert
  commits a claim that stays in progress (`events.py:268`), against
  `docs/09_API_Design.md:235`.
* `commands_lost_retry`: the category is checked before the claim, so a
  completed submission is answered 404 on retry after its category was archived
  (`events.py:231`), against `docs/09_API_Design.md:236`.
* `commands_archive`: the history trigger rejects archiving a reversal row
  (migration `20260814_0003:331`), against `docs/27_Household_Finance_Design.md:158`.
* `sessions_reuse`: a replay that overlaps a refresh of the current generation
  marks the family as reused but leaves its new generation ACTIVE
  (`sessions.py:327`), against `docs/12_Workspace_Identity_Design.md:226`. Logging out
  everywhere has the same cause and misses the new generation of a family that
  is being refreshed (`sessions.py:339`, against `backend/README.md:121`).
  Password change, recovery and membership revocation are not affected: they
  hold the account row, which a refresh needs (`RevocationReachesEverySession`).

## What is proved

Every theorem holds for all values of the constants that satisfy the assumption
of its module (`LedgerAssumption`, `CommandsAssumption`, ...). Those assumptions
say what the code's own types and constraints say: one Admin (the unique index
`uq_membership_one_active_admin`), request bodies the API accepts
(`WellFormed`), and that `None` is none of the rows.

In each module the properties are consequences of one inductive invariant, called
`IInv` (`Linked`, `Evidence` in the ledger, `MembersInv`), and each action has one lemma that
it keeps it. Each was confirmed by TLC on the instances of the runs before it was
proved.

**The ledger** (`FinanceLedgerProofs`).

* `TypeCorrect`: `Spec => []TypeOK`.
* `LinkedInvariant`: `Spec => []Linked`. `ReversalPairing` and
  `OneStandingReplacement` alone are not inductive: to know that a new reversal
  is the only one, one must know that nothing that is not REVERSED has one.
  `Linked` adds that (`ReversedHasReversal`, `ReversalsCancel`,
  `OneReversalEach`, `ReplacementsOfReversed`, `OneReplacementEach`) to the
  legality of statuses. `StatesAlwaysCombine`, `ReversalsPaired`,
  `ReplacementStandsAlone` follow.
* `EventsAlwaysFit`: every command that writes a pair of category and activity
  validates it (`EventStepFits`), and no command takes away what a category
  admits (`CategoriesKeepScope`).
* `EvidenceAlwaysComplete`: the audit trail of a row has one record for each of its
  versions, and the last that names a status names the present one. The
  invariant must also say that a reversal or a replacement is Approved, whose
  decision nobody can take again, and that its trail lacks the first version.
* `OfficialTotalStands`: by `Linked`, the official rows that do not stand fall into
  pairs, a Reversed fact and its reversal, which cancel. That pairs drop out of a
  sum is an induction over the set of rows. The provers cannot instantiate an
  induction theorem, so each lemma takes a smallest counterexample among the
  subsets instead (`SmallestSet`): that the function of the fold exists
  (`AddsExists`, `AddsUnique`), that the order of summation does not matter
  (`TotalSplits`), that pairs drop out (`PairedRowsDropOut`). The set of identifiers
  may be infinite: the rows present are finitely many (`RowsStayFinite`).
* `DecidedFactsStay`, `VersionsName`: action properties, from `TypeOK` and the
  guards of each action.

**The transactions implement the ledger** (`FinanceCommandsProofs`).

* `CommandsInvariant`: for each open request, `RequestOK` says what it knows at
  its step: the rows it has locked (`Checked`) still exist, in the version that
  its If-Match named and in a state that allows the command; the category it
  validated is locked and still fits (`Validated`); its claim is its own and
  nobody else can use the operation (`Claimed`); the identifiers it drew are
  unused (`Named`, `DrawsDisjoint`); what it is going to write is still what the
  command says (`Written`). One lemma per step shows this for the request that
  moves, and one (`Spared`) for the others: a commit changes only rows its own
  request has locked, so it changes nothing that another request relies on.
* `CommandsImplementLedger`: `Spec => ImplementsLedger`, with the substitution the
  run checks. Initial tables are initial tables; a commit with an effect is the
  ledger action of its command, because by `Written` the rows it installs are
  those the action computes and by `Checked` and `Validated` its guard holds at that
  moment; every other step changes no table of the ledger. So the theorems about
  the ledger are theorems about the interleaved transactions.
* `AppliedAtMostOnce`: an operation that took effect has a claim or, once that has
  expired, a trace that stops it (`Spent`): the unique key on the operation
  of a created row, or a state that no longer allows the command.
* `CompletedMeansApplied` assumes that claims do not expire (`"EXPIRE" \notin
  Disturbances`), as the property does in its run.
* `ReplaysStayAvailable` needs that rows are never deleted and a claim names one
  that exists (`ClaimsKept`); `IfMatchAlwaysHonoured` follows from `Checked`.

**Sessions** (`SessionFamiliesProofs`). `SessionsInvariant` says for each open
transaction which rows it has locked (`Locked`), that the session it acts for is
still ACTIVE (`Live`), how each pending write relates to the committed row
(`InsertOK`, `UpdateOK`), and what its `UPDATE` has not reached yet (`Sweeps`): every
ACTIVE session it must end is still to come. The last is what makes an `UPDATE`
over a stale snapshot safe: whoever could add a session meanwhile needs the
account row, which the revocation holds. From it: `FamiliesStayChains`,
`RevocationsReachAll`, `LiveSessionsAct`, `LogoutsEndTheFamily`, `EndedStayEnded`.

**Receipts** (`ReceiptsProofs`). `ReceiptsInvariant`: an upload keeps the locks of the
expense and of its row (`LocksHeld`), so what it checked before the client sent
the body holds when it commits (`UploadsStayAllowed`); a reserved identifier
belongs to one request; the cleanup works on rows that stay due and deletes
bytes before it marks them (`BatchStaysDue`); bytes have a row (`BytesHaveRows`).
From it: `AvailableAlwaysStored`, `NoBytesAreStray`, `ReceiptsAttachWhileAllowed`,
`ReceiptsAvailableStays`.

**Pages** (`EventListingProofs`). `ListingInvariant`: the cursor splits the rows that
kept their place (`Split`): those shown stand at it or before it, those still to
come behind it, and all of them match the scope the cursor is bound to. A page
is a first part of the rows behind the cursor (`RowsInOrder`, `PageShows`), whose
order is strict and total because identifiers break ties (`OrderIsStrict`); what
commits in between neither removes a row nor changes its creation time, and a
row that changes its date is no longer claimed (`Evolves`). From it:
`ListingTypeCorrect` and `RowsListedOnce`.

**Members** (`WorkspaceMembersProofs`). Two locks carry the argument, although the
requests lock many more rows and in different orders. The lock of an account row
guards every row of that person: account, membership, session, challenges,
recoveries. The lock of the workspace row guards the workspace and its
transfers. Where there is no such row yet, the lock of the address (for a new
account) or of the installation (before bootstrap) stands in for it (`Guards`,
`GuardsWorkspace`). `MembersInv` says

* of the committed rows (`Data`): accounts and memberships come in pairs, a person
  is `ADMIN` exactly as owner, sessions, usable proofs and open transfers agree
  with the members they are about;
* of each request (`Request`): the rows it names exist, the locks its stage relies
  on (`Needs`) are held or still in its queue, and what it has read under a lock
  it holds (`Knows`) is so: its session is live, its member ACTIVE in the role it
  was authorized in, the transfer it confirms open and the owner's;
* of each request whose writes are settled (`Intent`, `Effect`): it holds the guard of
  every row it is going to write, and its rows, once written, are right;
* that no two requests have settled the same row (`Apart`) and that locks belong to
  requests on their way (`LocksOK`).

`Data` alone is not inductive: a commit writes rows that were computed some steps
before. By `Effect` the person and the workspace they belong to were guarded all
along, so they are as they were found (`CommitKeepsData`); and a commit touches
nothing that others guard, so it leaves what they know and have settled true
(`RequestIsSpared`, `IntentIsSpared`). The rows that an `UPDATE` matches but has not
locked yet are part of what is settled (`Ending`), which is what covers the wait
between the snapshot and the write. From it: `MembersTypeCorrect`,
`OwnerStaysTheOneAdmin`, `UsableProofsAreThePendingMembers`, `SessionsStayCurrent`,
`AuthorityOutlastsTheRequest`, `TransfersStayTheOwners`,
`RecoveryStaysFromTheOwner`, and the action property `MembershipsOnlyMoveForward`, for any
number of people, roles, challenges and transactions. `MembersAssumption` says that
`None` is none of the rows, that `ADMIN` is not among the other roles, and that
challenges and recoveries are finitely many, so that an `UPDATE` locks finitely
many rows.

Only model-checked:

* `MoneyIsExact`: roundings and digit counts by powers of ten with a variable
  exponent, which the solver does not handle;
* `EveryRequestAnswered`, liveness under fairness.

`StatesCombine` is a part of the inductive invariant and is stated by a theorem
only.

## Not modelled, and simplifications

* Roles and memberships are fixed; the module switch is the only authority that
  changes. A claim revalidates the membership, the finance repository also the
  module: both are modelled where they differ.
* Key-share locks of foreign keys only add waiting and are left out. Resolving
  a review locks two rows in one step: only the Admin resolves.
* Claims expire at any time (`EXPIRE`), which over-approximates 14 days.
* Audit records of denials, list operations and representations are left out.
* Account status is constant for accounts that have sessions: no code makes one
  inactive. Whether a response precedes the commit depends on the framework.
* In `WorkspaceMembers`, one live session per account is followed, the attempt
  counter of recovery (which nothing reads) is left out, and a wrong password or
  a failed delivery has the effect of `Crash` or of a refusal. The deferred owner
  key and the one-Admin index are not modelled: `OwnerIsTheOneAdmin` shows that
  the code never relies on them.
* In `Receipts` a claim is always new (its retries are those of
  `FinanceCommands`), content validation and the scanner are free verdicts, a
  request lasts less than a day, and the expense is `CLOSED` when rejected or
  archived. As in the code, an Admin may still upload to a reservation made
  before that, and a failed store leaves the file `PENDING`: the mark
  `STORAGE_FAILURE` is rolled back by the exception that follows it.
* The store of `Receipts` is `FilesystemReceiptStorage`. `MemoryReceiptStorage`, which
  overwrites a key it has and does not outlive the process, is used in the
  `TEST` environment only (`main.py:155`) and is not modelled.
* In `SessionFamilies` the Admin who revokes a membership is outside the
  contention: its own rows are not among those modelled.

* In `EventListing` the check of the role and the SELECT are one step: both
  happen in one request, and a role that changes in between only dates the page
  a little earlier. A cursor that is refused (another scope, a forged signature,
  24 hours over) changes nothing. An edit of `occurred_on` may move a row across
  the position of a cursor, which repeats or skips it; `ListedOnce` is about the
  other rows (`docs/09_API_Design.md:822` promises it for updates in general, but
  keyset paging cannot give it for the sort key itself). Filters other than the
  status and the archive scope select by a column in the same way.
* In `Money` the calculation context never rounds, since it holds any sum of two
  stored values; rates, ratios and quantities have no caller and are left out.
* Bootstrap leaves out the settings and modules it writes.
* Abuse controls are windows of counters per process. They never decide what is
  committed, only whether a request is served, which the environments of the
  modules leave open; so they are free verdicts everywhere.

## Plan

Built in this order: `FinanceLedger` with its proofs, `FinanceCommands` as its
implementation, `SessionFamilies`, `WorkspaceMembers`, `Receipts`,
`EventListing`, `Money`. What is left:

1. The fields of the settings, and the fixed windows of the abuse controls.
2. `MoneyIsExact` for every precision, should a prover with nonlinear arithmetic
   become available.
