----------------------- MODULE FinanceCommandsProofs -----------------------
(***************************************************************************)
(* Theorems about FinanceCommands, for every set of members, rows,         *)
(* operations and requests.                                                *)
(***************************************************************************)
EXTENDS FinanceCommands, TLAPS

-----------------------------------------------------------------------------
(* The inductive invariant: what each open request has checked stays so    *)
(* until it commits.                                                       *)

Steps == {"category", "claim", "apply", "select", "respond"}

Request ==
    [pc      : Steps,
     op      : Ops \cup {None},
     cmd     : Command,
     version : Nat \cup {None},
     new     : Seq(Ledger!Resources),
     claim   : ClaimRows \cup {None},
     effect  : Effects \cup {None},
     reply   : Codes \cup {None}]

\* The identifiers drawn for the rows a request may insert are not used yet.
DrawsOne(t, table) == \E x \in DOMAIN table : table[x] = None /\ t.new = <<x>>
DrawsTwo(t, table) ==
    \E x, y \in DOMAIN table : table[x] = None /\ table[y] = None /\ x # y /\ t.new = <<x, y>>

DrawsFresh(t) ==
    CASE t.cmd.kind = "CREATE_CATEGORY"                              -> DrawsOne(t, category)
      [] t.cmd.kind \in {"CREATE", "REVERSE"}                        -> DrawsOne(t, event)
      [] t.cmd.kind = "CORRECT" /\ t.cmd.category = None             -> DrawsOne(t, event)
      [] t.cmd.kind = "CORRECT" /\ t.cmd.category # None             -> DrawsTwo(t, event)
      [] t.cmd.kind \in ReviewKinds                                  -> DrawsOne(t, review)
      [] OTHER                                                       -> t.new = <<>>

\* The row a command names.
TargetExists(cmd) ==
    CASE cmd.kind \in {"CREATE", "CREATE_CATEGORY"} -> cmd.target = None
      [] cmd.kind \in {"RENAME_CATEGORY", "ARCHIVE_CATEGORY"} ->
             cmd.target \in Categories /\ category[cmd.target] # None
      [] cmd.kind = "RESOLVE" -> cmd.target \in Reviews /\ review[cmd.target] # None
      [] OTHER -> cmd.target \in Events /\ event[cmd.target] # None

\* A request names existing rows and fresh identifiers.
Named(t) ==
    /\ t.cmd.kind = t.cmd.body.kind /\ WellFormed(t.cmd.body)
    /\ t.op # None <=> t.cmd.kind \in Idempotent
    /\ IF t.cmd.kind \in Conditional
       THEN t.version \in Nat /\ (t.cmd.kind \in {"UPDATE", "RENAME_CATEGORY"} => t.version < MaxVersion)
       ELSE t.version = None
    /\ TargetExists(t.cmd)
    /\ IF SelectsCategory(t.cmd.body)
       THEN t.cmd.category \in Categories /\ category[t.cmd.category] # None
       ELSE t.cmd.category = None
    /\ DrawsFresh(t)

\* Where a request stands.
Stage(m, t) ==
    /\ t.pc # "respond" => Permitted(m, t.cmd.kind) /\ t.effect = None
    /\ t.pc = "category" => t.cmd.kind # "UPDATE" /\ t.cmd.category # None /\ t.claim = None
    /\ t.pc = "claim" => t.cmd.kind \in Idempotent /\ t.claim = None
    /\ t.pc = "apply" /\ t.op # None => t.claim # None
    /\ t.pc = "select" => t.cmd.kind = "UPDATE"
    /\ t.effect # None => Permitted(m, t.cmd.kind) /\ (t.op # None => t.claim # None)

\* A claim is this request's, and nobody else can use its operation.
Claimed(m, t) ==
    t.claim # None =>
        /\ t.op # None /\ lock[t.op] = m
        /\ t.claim.actor = m /\ t.claim.cmd = t.cmd
        /\ t.claim.state = "COMPLETED" <=> t.effect # None
        /\ t.effect # None => t.claim.resource = Resource(t)
        /\ claim[t.op] = None \/ ("EXPIRE" \in Disturbances /\ claim[t.op].cmd = t.cmd)

\* The category a request has validated.
Validated(m, t) ==
    (/\ t.cmd.category # None
     /\ t.effect # None \/ (t.pc \in {"claim", "apply"} /\ t.cmd.kind # "UPDATE")) =>
        /\ lock[t.cmd.category] = m
        /\ category[t.cmd.category].status = "ACTIVE"
        /\ CategoryFits(t)

\* The rows a request has locked and checked.
RowsOf(cmd) ==
    IF cmd.target = None THEN {}
    ELSE IF cmd.kind = "RESOLVE" THEN {cmd.target, review[cmd.target].event}
    ELSE {cmd.target}

Checked(m, t) ==
    t.pc = "select" \/ t.effect # None =>
        /\ \A x \in RowsOf(t.cmd) : lock[x] = m
        /\ Found(m, t.cmd)
        /\ t.version # None => RowOf(t.cmd).version = t.version
        /\ StateAllows(t.cmd)

\* What a request will write is still what the command says, and admissible.
Written(m, t) ==
    t.effect # None =>
        /\ ~NameTaken(t)
        /\ ~DatabaseRefuses(m, t)
        /\ t.effect = [rows |-> Writes(m, t), action |-> AuditAction(m, t.cmd.kind),
                       resource |-> Resource(t)]

RequestOK(m, t) ==
    /\ t \in Request
    /\ Named(t)
    /\ Stage(m, t)
    /\ Claimed(m, t)
    /\ Validated(m, t)
    /\ Checked(m, t)
    /\ Written(m, t)
    /\ t.reply # "REPLAY_UNAVAILABLE"

RequestsOK == \A m \in Members : tx[m] = Idle \/ RequestOK(m, tx[m])

\* No identifier is drawn twice.
DrawsDisjoint ==
    \A m, n \in Members :
        m # n /\ tx[m] # Idle /\ tx[n] # Idle => Draws(tx[m]) \cap Draws(tx[n]) = {}

\* A review is about an event that exists.
ReviewsNameEvents == \A v \in Reviews : review[v] # None => event[review[v].event] # None

\* What a completed command did is still there to be read back.
Kept(old) ==
    /\ old.cmd.kind \in Idempotent
    /\ old.cmd.kind \in DecisionKinds \cup LifecycleKinds =>
          old.resource \in Events /\ event[old.resource] # None
    /\ old.cmd.kind \in ReviewKinds => old.resource \in Reviews /\ review[old.resource] # None
    /\ ReplayAvailable(old)

ClaimsKept ==
    \A op \in Ops : claim[op] # None /\ claim[op].state = "COMPLETED" => Kept(claim[op])

\* A command that was applied cannot be applied again.
Spent(op, cmd) ==
    /\ cmd.kind \in Idempotent
    /\ CASE cmd.kind \in {"CREATE", "REVERSE", "CORRECT"} -> <<"financial_events", op>> \in minted
         [] cmd.kind \in ReviewKinds   -> <<"financial_event_reviews", op>> \in minted
         [] cmd.kind \in DecisionKinds ->
                /\ cmd.target \in Events /\ event[cmd.target] # None
                /\ event[cmd.target].approval # "PENDING"
         [] cmd.kind = "ARCHIVE" ->
                /\ cmd.target \in Events /\ event[cmd.target] # None
                /\ event[cmd.target].archived

AppliedOnce ==
    \A op \in Ops :
        \/ effects[op] = 0
        \/ effects[op] = 1 /\ claim[op] # None /\ Spent(op, claim[op].cmd)

IInv ==
    /\ Ledger!TypeOK
    /\ enabled \in BOOLEAN
    /\ claim \in [Ops -> ClaimRows \cup {None}]
    /\ minted \subseteq {"financial_events", "financial_event_reviews"} \X Ops
    /\ effects \in [Ops -> Nat]
    /\ lock \in [Lockable -> Members \cup {None}]
    /\ tx \in [Members -> {Idle} \cup Request]
    /\ \A x \in Lockable : lock[x] # None => tx[lock[x]] # Idle
    /\ RequestsOK
    /\ DrawsDisjoint
    /\ ReviewsNameEvents
    /\ ClaimsKept
    /\ AppliedOnce
    /\ "EXPIRE" \notin Disturbances => CompletedIffApplied

-----------------------------------------------------------------------------
(* Rows and identifiers.                                                   *)

LEMMA Constants ==
    /\ Categories \cap Events = {} /\ Events \cap Reviews = {} /\ Categories \cap Reviews = {}
    /\ Ledger!Resources = Categories \cup Events \cup Reviews
    /\ Ops \cap (Categories \cup Events \cup Reviews) = {}
    /\ None \notin Categories \cup Events \cup Reviews \cup Ops \cup Members
    /\ None \notin Nat \cup Codes \cup ClaimRows \cup Effects
    /\ None \notin Ledger!CategoryRow \cup Ledger!EventRow \cup Ledger!ReviewRow
<1>1. Ledger!LedgerAssumption
  BY CommandsAssumption
<1>2. Ledger!Resources = Categories \cup Events \cup Reviews
  BY DEF Ledger!Resources
<1>3. /\ Ops \cap Ledger!Resources = {}
      /\ None \notin Members \cup Ops \cup Ledger!Resources \cup Nat \cup Codes \cup ClaimRows \cup Effects
  BY CommandsAssumption
<1>4. /\ Categories \cap Events = {} /\ Events \cap Reviews = {} /\ Categories \cap Reviews = {}
  BY <1>1 DEF Ledger!LedgerAssumption
<1>5. None \notin Ledger!CategoryRow \cup Ledger!EventRow \cup Ledger!ReviewRow
  BY <1>1 DEF Ledger!LedgerAssumption
<1> QED
  BY <1>2, <1>3, <1>4, <1>5

\* Only one member is the Admin, and may do what the Admin may.
LEMMA AdminKinds ==
    ASSUME NEW m \in Members, NEW kind \in Kinds, Permitted(m, kind)
    PROVE  /\ kind \in DecisionKinds \cup LifecycleKinds \cup CategoryKinds \cup {"RESOLVE"} => Role[m] = "ADMIN"
           /\ kind = "UPDATE" => Role[m] = "CONTRIBUTOR"
           /\ Role[m] = "ADMIN" => \A n \in Members : Role[n] = "ADMIN" => n = m
<1>1. kind \in DecisionKinds \cup LifecycleKinds => Role[m] = "ADMIN"
  BY DEF Permitted, DecisionKinds, LifecycleKinds, Ledger!Can, Ledger!RolesWith
<1>2. kind = "RESOLVE" => Role[m] = "ADMIN"
  BY DEF Permitted, DecisionKinds, LifecycleKinds, CategoryKinds
<1>3. kind \in CategoryKinds => Role[m] = "ADMIN"
  BY DEF Permitted, DecisionKinds, LifecycleKinds, CategoryKinds, Ledger!Can, Ledger!RolesWith
<1>4. kind = "UPDATE" => Role[m] = "CONTRIBUTOR"
  BY DEF Permitted, DecisionKinds, LifecycleKinds, CategoryKinds
<1> QED
  BY <1>1, <1>2, <1>3, <1>4, CommandsAssumption

\* The table the row of a command is in.
LEMMA TargetRow ==
    ASSUME NEW cmd \in Command, TargetExists(cmd)
    PROVE  /\ cmd.kind \in {"CREATE", "CREATE_CATEGORY"} => cmd.target = None
           /\ cmd.kind \in {"RENAME_CATEGORY", "ARCHIVE_CATEGORY"} =>
                 /\ cmd.target \in Categories /\ category[cmd.target] # None
                 /\ RowOf(cmd) = category[cmd.target]
           /\ cmd.kind = "RESOLVE" =>
                 /\ cmd.target \in Reviews /\ review[cmd.target] # None
                 /\ RowOf(cmd) = review[cmd.target]
           /\ cmd.kind \in {"UPDATE"} \cup DecisionKinds \cup LifecycleKinds \cup ReviewKinds =>
                 /\ cmd.target \in Events /\ event[cmd.target] # None
                 /\ RowOf(cmd) = event[cmd.target]
<1>1. cmd.target \in Events => RowOf(cmd) = event[cmd.target]
  BY Constants DEF RowOf
<1>2. cmd.target \in Reviews => RowOf(cmd) = review[cmd.target]
  BY Constants DEF RowOf
<1>3. cmd.target \in Categories => RowOf(cmd) = category[cmd.target]
  BY Constants DEF RowOf
<1> QED
  BY <1>1, <1>2, <1>3 DEF TargetExists, DecisionKinds, LifecycleKinds, ReviewKinds

\* The kinds of commands.
LEMMA KindCases ==
    ASSUME NEW kind \in Kinds
    PROVE  kind \in {"CREATE", "APPROVE", "REJECT", "REVERSE", "CORRECT", "ARCHIVE", "COMMENT", "FLAG",
                     "CREATE_CATEGORY", "RENAME_CATEGORY", "ARCHIVE_CATEGORY", "UPDATE", "RESOLVE"}
BY DEF Kinds, Idempotent, DecisionKinds, LifecycleKinds, ReviewKinds, CategoryKinds

\* A command selects a category if it creates or edits an event, or replaces one.
LEMMA WhoSelects ==
    ASSUME NEW t \in Request, Named(t)
    PROVE  /\ t.cmd.category # None =>
                 t.cmd.category \in Categories /\ t.cmd.kind \in {"CREATE", "UPDATE", "CORRECT"}
           /\ t.cmd.kind \in {"CREATE", "UPDATE"} => t.cmd.category # None
           /\ t.cmd.category # None <=> SelectsCategory(t.cmd.body)
           /\ t.cmd.category # None => category[t.cmd.category] # None
BY Constants DEF Named, SelectsCategory

\* The identifiers a request draws belong to one table, and are not in use.
LEMMA DrawsWhere ==
    ASSUME Ledger!TypeOK, NEW t \in Request, DrawsFresh(t)
    PROVE  /\ \A x \in Draws(t) :
                 \/ x \in Categories /\ category[x] = None
                 \/ x \in Events /\ event[x] = None
                 \/ x \in Reviews /\ review[x] = None
           /\ Draws(t) \cap Categories # {} => t.cmd.kind = "CREATE_CATEGORY"
           /\ Draws(t) \cap Reviews # {} => t.cmd.kind \in ReviewKinds
           /\ Draws(t) \cap Events # {} => t.cmd.kind \in {"CREATE", "REVERSE", "CORRECT"}
<1>1. /\ DOMAIN category = Categories /\ DOMAIN event = Events /\ DOMAIN review = Reviews
  BY DEF Ledger!TypeOK
<1>2. CASE t.new = <<>>
  BY <1>2 DEF Draws
<1>3. ASSUME NEW x, t.new = <<x>> PROVE Draws(t) = {x}
  BY <1>3 DEF Draws
<1>4. ASSUME NEW x, NEW y, t.new = <<x, y>> PROVE Draws(t) = {x, y}
  BY <1>4 DEF Draws
<1>5. CASE DrawsOne(t, category) /\ t.cmd.kind = "CREATE_CATEGORY"
  BY <1>1, <1>3, <1>5, Constants DEF DrawsOne
<1>6. CASE DrawsOne(t, event) /\ t.cmd.kind \in {"CREATE", "REVERSE", "CORRECT"}
  BY <1>1, <1>3, <1>6, Constants DEF DrawsOne
<1>7. CASE DrawsTwo(t, event) /\ t.cmd.kind = "CORRECT"
  BY <1>1, <1>4, <1>7, Constants DEF DrawsTwo
<1>8. CASE DrawsOne(t, review) /\ t.cmd.kind \in ReviewKinds
  BY <1>1, <1>3, <1>8, Constants DEF DrawsOne
<1>9. \/ t.new = <<>>
      \/ DrawsOne(t, category) /\ t.cmd.kind = "CREATE_CATEGORY"
      \/ DrawsOne(t, event) /\ t.cmd.kind \in {"CREATE", "REVERSE", "CORRECT"}
      \/ DrawsTwo(t, event) /\ t.cmd.kind = "CORRECT"
      \/ DrawsOne(t, review) /\ t.cmd.kind \in ReviewKinds
  BY DEF DrawsFresh
<1> QED
  BY <1>2, <1>5, <1>6, <1>7, <1>8, <1>9

-----------------------------------------------------------------------------
(* What others may do to the rows of an open request.                      *)

\* They leave alone what it has locked or drawn, never delete a row, and touch
\* neither categories nor approved events while the Admin's request is open.
Spared(m, t) ==
    /\ \A x \in Categories :
          /\ category[x] # None => category'[x] # None
          /\ x \in Draws(t) \/ (lock[x] = m /\ category[x] # None) => category'[x] = category[x]
    /\ \A x \in Events :
          /\ event[x] # None => event'[x] # None
          /\ x \in Draws(t) \/ (lock[x] = m /\ event[x] # None) => event'[x] = event[x]
    /\ \A x \in Reviews :
          /\ review[x] # None => review'[x] # None
          /\ x \in Draws(t) \/ (lock[x] = m /\ review[x] # None) => review'[x] = review[x]
    /\ \A x \in Lockable : lock[x] = m => lock'[x] = m
    /\ \A op \in Ops :
          lock[op] = m => /\ claim'[op] = claim[op]
                          /\ <<"financial_events", op>> \in minted' <=> <<"financial_events", op>> \in minted
                          /\ <<"financial_event_reviews", op>> \in minted' <=>
                                <<"financial_event_reviews", op>> \in minted
    /\ Role[m] = "ADMIN" =>
          /\ category' = category
          /\ \A e \in Events :
                event[e] # None /\ event[e].approval = "APPROVED" => event'[e] = event[e]

\* The rows and identifiers a request names stay as they are.
LEMMA NamedStays ==
    ASSUME Ledger!TypeOK, Ledger!TypeOK', NEW m \in Members, NEW t \in Request, Spared(m, t), Named(t)
    PROVE  Named(t)'
<1>1. /\ DOMAIN category = Categories /\ DOMAIN event = Events /\ DOMAIN review = Reviews
      /\ DOMAIN category' = Categories /\ DOMAIN event' = Events /\ DOMAIN review' = Reviews
  BY DEF Ledger!TypeOK
<1>2. TargetExists(t.cmd)'
  BY DEF Named, TargetExists, Spared
<1>3. ASSUME NEW x, t.new = <<x>> PROVE x \in Draws(t)
  BY <1>3 DEF Draws
<1>4. ASSUME NEW x, NEW y, t.new = <<x, y>> PROVE x \in Draws(t) /\ y \in Draws(t)
  BY <1>4 DEF Draws
<1>5. DrawsOne(t, category) => DrawsOne(t, category)'
  BY <1>1, <1>3 DEF DrawsOne, Spared
<1>6. DrawsOne(t, event) => DrawsOne(t, event)'
  BY <1>1, <1>3 DEF DrawsOne, Spared
<1>7. DrawsOne(t, review) => DrawsOne(t, review)'
  BY <1>1, <1>3 DEF DrawsOne, Spared
<1>8. DrawsTwo(t, event) => DrawsTwo(t, event)'
  BY <1>1, <1>4 DEF DrawsTwo, Spared
<1>9. DrawsFresh(t)'
  BY <1>5, <1>6, <1>7, <1>8 DEF Named, DrawsFresh
<1>10. t.cmd.category \in Categories /\ category[t.cmd.category] # None => category'[t.cmd.category] # None
  BY DEF Spared
<1> QED
  BY <1>2, <1>9, <1>10 DEF Named

\* The rows it has locked and checked, too.
LEMMA TargetStays ==
    ASSUME Ledger!TypeOK, ReviewsNameEvents, NEW m \in Members, NEW t \in Request, Spared(m, t),
           TargetExists(t.cmd), TargetExists(t.cmd)', \A x \in RowsOf(t.cmd) : lock[x] = m
    PROVE  /\ RowsOf(t.cmd)' = RowsOf(t.cmd)
           /\ t.cmd.target # None => RowOf(t.cmd)' = RowOf(t.cmd)
           /\ t.cmd.target \in Events => event'[t.cmd.target] = event[t.cmd.target]
           /\ t.cmd.target \in Reviews =>
                 /\ review'[t.cmd.target] = review[t.cmd.target]
                 /\ event'[review[t.cmd.target].event] = event[review[t.cmd.target].event]
           /\ t.cmd.target \in Categories => category'[t.cmd.target] = category[t.cmd.target]
<1>1. t.cmd \in Command /\ t.cmd.kind \in Kinds
  BY DEF Request, Command
<1>2. t.cmd.target # None => lock[t.cmd.target] = m
  BY DEF RowsOf
<1>3. CASE t.cmd.target = None
  BY <1>3, Constants DEF RowsOf
<1>4. CASE t.cmd.target \in Categories
  <2>1. category[t.cmd.target] # None /\ t.cmd.kind # "RESOLVE"
    BY <1>1, <1>4, TargetRow, Constants, KindCases DEF DecisionKinds, LifecycleKinds, ReviewKinds
  <2>2. category'[t.cmd.target] = category[t.cmd.target]
    BY <1>2, <1>4, <2>1, Constants DEF Spared
  <2> QED
    BY <1>4, <2>1, <2>2, Constants DEF RowOf, RowsOf
<1>5. CASE t.cmd.target \in Events
  <2>1. event[t.cmd.target] # None /\ t.cmd.kind # "RESOLVE"
    BY <1>1, <1>5, TargetRow, Constants, KindCases DEF DecisionKinds, LifecycleKinds, ReviewKinds
  <2>2. event'[t.cmd.target] = event[t.cmd.target]
    BY <1>2, <1>5, <2>1, Constants DEF Spared
  <2> QED
    BY <1>5, <2>1, <2>2, Constants DEF RowOf, RowsOf
<1>6. CASE t.cmd.target \in Reviews
  <2>1. review[t.cmd.target] # None /\ t.cmd.kind = "RESOLVE"
    BY <1>1, <1>6, TargetRow, Constants, KindCases DEF DecisionKinds, LifecycleKinds, ReviewKinds
  <2>2. review'[t.cmd.target] = review[t.cmd.target]
    BY <1>2, <1>6, <2>1, Constants DEF Spared
  <2>3. lock[review[t.cmd.target].event] = m
    BY <1>6, <2>1, Constants DEF RowsOf
  <2>4. review[t.cmd.target].event \in Events /\ event[review[t.cmd.target].event] # None
    BY <1>6, <2>1 DEF Ledger!TypeOK, Ledger!ReviewRow, ReviewsNameEvents
  <2>5. event'[review[t.cmd.target].event] = event[review[t.cmd.target].event]
    BY <2>3, <2>4 DEF Spared
  <2> QED
    BY <1>6, <2>1, <2>2, <2>5, Constants DEF RowOf, RowsOf
<1> QED
  BY <1>1, <1>3, <1>4, <1>5, <1>6, Constants DEF Command

\* What it is about to write stays what the command says, and admissible.
LEMMA WrittenStays ==
    ASSUME Ledger!TypeOK, Ledger!TypeOK', ReviewsNameEvents, NEW m \in Members, NEW t \in Request,
           Spared(m, t), Named(t), Stage(m, t), Claimed(m, t), Checked(m, t), Written(m, t),
           t.effect # None
    PROVE  Written(m, t)'
<1>1. t.cmd \in Command /\ t.cmd.kind \in Kinds
  BY DEF Request, Command
<1>2. Permitted(m, t.cmd.kind) /\ (t.op # None => t.claim # None /\ lock[t.op] = m)
  BY DEF Stage, Claimed
<1>3. TargetExists(t.cmd) /\ TargetExists(t.cmd)'
  BY NamedStays DEF Named
<1>4. \A x \in RowsOf(t.cmd) : lock[x] = m
  BY DEF Checked
<1>5. /\ t.cmd.target # None => RowOf(t.cmd)' = RowOf(t.cmd)
      /\ t.cmd.target \in Events => event'[t.cmd.target] = event[t.cmd.target]
      /\ t.cmd.target \in Categories => category'[t.cmd.target] = category[t.cmd.target]
  BY <1>3, <1>4, TargetStays
<1>6. t.cmd.kind \in {"REVERSE", "CORRECT", "ARCHIVE"} =>
          /\ t.cmd.target \in Events /\ event[t.cmd.target] # None
          /\ event'[t.cmd.target] = event[t.cmd.target]
  BY <1>1, <1>3, <1>5, TargetRow DEF LifecycleKinds
<1>7. t.cmd.kind \notin Inserting => t.cmd.target # None
  BY <1>1, <1>3, TargetRow, KindCases, Constants
     DEF Inserting, LifecycleKinds, DecisionKinds, ReviewKinds
<1>8. NameTaken(t)' = NameTaken(t)
  <2>1. t.cmd.kind \in {"CREATE_CATEGORY", "RENAME_CATEGORY"} => category' = category
    BY <1>1, <1>2, AdminKinds DEF Spared, CategoryKinds
  <2> QED
    BY <2>1 DEF NameTaken, Ledger!ScopeNameFree
<1>9. ~DatabaseRefuses(m, t)'
  <2>1. ~DatabaseRefuses(m, t)
    BY DEF Written
  <2>2. Mints(t) \cap minted' = {}
    <3>1. Mints(t) # {} => t.op \in Ops /\ lock[t.op] = m
      BY <1>2 DEF Mints, Named, Request, Idempotent, LifecycleKinds
    <3>2. Mints(t) \cap minted = {}
      BY <2>1 DEF DatabaseRefuses
    <3> QED
      BY <3>1, <3>2 DEF Mints, Spared
  <2>3. ASSUME t.cmd.kind \in {"REVERSE", "CORRECT"}
        PROVE  Ledger!HistoryGuard(Ledger!ReversalOf(m, t.cmd.target))'
    <3>1. Ledger!HistoryGuard(Ledger!ReversalOf(m, t.cmd.target))
      BY <2>1, <2>3 DEF DatabaseRefuses
    <3>2. t.cmd.target \in Events /\ event'[t.cmd.target] = event[t.cmd.target]
          /\ event[t.cmd.target] \in Ledger!EventRow
      BY <1>6, <2>3 DEF Ledger!TypeOK
    <3> QED
      BY <3>1, <3>2 DEF Ledger!HistoryGuard, Ledger!ReversalOf, Ledger!EventRow
  <2>4. ASSUME t.cmd.kind = "ARCHIVE"
        PROVE  Ledger!HistoryGuard(event[t.cmd.target])'
    <3>1. Ledger!HistoryGuard(event[t.cmd.target])
      BY <2>1, <2>4 DEF DatabaseRefuses
    <3>2. t.cmd.target \in Events /\ event'[t.cmd.target] = event[t.cmd.target]
          /\ event[t.cmd.target] \in Ledger!EventRow
      BY <1>6, <2>4 DEF Ledger!TypeOK
    <3>3. Role[m] = "ADMIN"
      BY <1>1, <1>2, <2>4, AdminKinds DEF LifecycleKinds
    <3>4. ASSUME event[t.cmd.target].reverses # None
          PROVE  event'[event[t.cmd.target].reverses] = event[event[t.cmd.target].reverses]
      BY <3>1, <3>2, <3>3, <3>4 DEF Ledger!HistoryGuard, Ledger!EventRow, Spared
    <3> QED
      BY <3>1, <3>2, <3>4 DEF Ledger!HistoryGuard
  <2> QED
    BY <2>2, <2>3, <2>4 DEF DatabaseRefuses, Mints
<1>10. t.cmd.kind \notin Inserting => RewrittenRow(t)' = RewrittenRow(t)
  BY <1>5, <1>7 DEF RewrittenRow
<1>11. ASSUME NEW y
       PROVE  InsertedRow(m, t, y)' = InsertedRow(m, t, y)
  BY <1>6 DEF InsertedRow, Ledger!ReversalOf, Ledger!NewEvent, Ledger!ReplacementFor
<1>12. Writes(m, t)' = Writes(m, t)
  BY <1>10, <1>11 DEF Writes, Draws
<1> QED
  BY <1>8, <1>9, <1>12 DEF Written, Resource, AuditAction, Draws

\* What an open request has checked holds until it commits.
LEMMA RequestStays ==
    ASSUME Ledger!TypeOK, Ledger!TypeOK', ReviewsNameEvents, NEW m \in Members, NEW t \in Request,
           Spared(m, t), RequestOK(m, t)
    PROVE  RequestOK(m, t)'
<1>1. /\ Named(t) /\ Stage(m, t) /\ Claimed(m, t) /\ Validated(m, t) /\ Checked(m, t) /\ Written(m, t)
      /\ t.reply # "REPLAY_UNAVAILABLE"
  BY DEF RequestOK
<1>2. Named(t)'
  BY <1>1, NamedStays
<1>3. t.cmd \in Command /\ t.cmd.kind \in Kinds
  BY DEF Request, Command
<1>4. TargetExists(t.cmd) /\ TargetExists(t.cmd)'
  BY <1>1, <1>2 DEF Named
<1>5. Stage(m, t)'
  BY <1>1 DEF Stage
<1>6. Claimed(m, t)'
  <2>1. SUFFICES ASSUME t.claim # None
                 PROVE  /\ t.op # None /\ lock'[t.op] = m
                        /\ t.claim.actor = m /\ t.claim.cmd = t.cmd
                        /\ t.claim.state = "COMPLETED" <=> t.effect # None
                        /\ t.effect # None => t.claim.resource = Resource(t)
                        /\ claim'[t.op] = None \/ ("EXPIRE" \in Disturbances /\ claim'[t.op].cmd = t.cmd)
    BY DEF Claimed, Resource
  <2>2. /\ t.op # None /\ lock[t.op] = m
        /\ t.claim.actor = m /\ t.claim.cmd = t.cmd
        /\ t.claim.state = "COMPLETED" <=> t.effect # None
        /\ t.effect # None => t.claim.resource = Resource(t)
        /\ claim[t.op] = None \/ ("EXPIRE" \in Disturbances /\ claim[t.op].cmd = t.cmd)
    BY <1>1, <2>1 DEF Claimed
  <2>3. t.op \in Ops
    BY <2>2 DEF Request
  <2>4. lock'[t.op] = m /\ claim'[t.op] = claim[t.op]
    BY <2>2, <2>3 DEF Spared, Lockable
  <2> QED
    BY <2>2, <2>4
<1>7. t.effect # None \/ t.pc = "select" =>
          /\ RowsOf(t.cmd)' = RowsOf(t.cmd)
          /\ t.cmd.target # None => RowOf(t.cmd)' = RowOf(t.cmd)
          /\ t.cmd.target \in Events => event'[t.cmd.target] = event[t.cmd.target]
          /\ t.cmd.target \in Reviews =>
                /\ review'[t.cmd.target] = review[t.cmd.target]
                /\ event'[review[t.cmd.target].event] = event[review[t.cmd.target].event]
          /\ t.cmd.target \in Categories => category'[t.cmd.target] = category[t.cmd.target]
  <2>1. SUFFICES ASSUME t.effect # None \/ t.pc = "select"
                 PROVE  /\ RowsOf(t.cmd)' = RowsOf(t.cmd)
                        /\ t.cmd.target # None => RowOf(t.cmd)' = RowOf(t.cmd)
                        /\ t.cmd.target \in Events => event'[t.cmd.target] = event[t.cmd.target]
                        /\ t.cmd.target \in Reviews =>
                              /\ review'[t.cmd.target] = review[t.cmd.target]
                              /\ event'[review[t.cmd.target].event] = event[review[t.cmd.target].event]
                        /\ t.cmd.target \in Categories => category'[t.cmd.target] = category[t.cmd.target]
    OBVIOUS
  <2>2. \A x \in RowsOf(t.cmd) : lock[x] = m
    BY <1>1, <2>1 DEF Checked
  <2> QED
    BY <1>4, <2>2, TargetStays
<1>8. Checked(m, t)'
  <2>1. SUFFICES ASSUME t.effect # None \/ t.pc = "select"
                 PROVE  /\ \A x \in RowsOf(t.cmd)' : lock'[x] = m
                        /\ Found(m, t.cmd)'
                        /\ t.version # None => RowOf(t.cmd)'.version = t.version
                        /\ StateAllows(t.cmd)'
    BY DEF Checked
  <2>2. /\ \A x \in RowsOf(t.cmd) : lock[x] = m
        /\ Found(m, t.cmd)
        /\ t.version # None => RowOf(t.cmd).version = t.version
        /\ StateAllows(t.cmd)
    BY <1>1, <2>1 DEF Checked
  <2>3. \A x \in RowsOf(t.cmd) : x \in Lockable
    BY <1>3, <1>4, TargetRow DEF RowsOf, Lockable, Ledger!TypeOK, Ledger!ReviewRow, Command, Ledger!Resources
  <2>4. \A x \in RowsOf(t.cmd)' : lock'[x] = m
    BY <1>7, <2>1, <2>2, <2>3 DEF Spared
  <2>5. Found(m, t.cmd)'
    BY <1>3, <1>4, <1>7, <2>1, <2>2, TargetRow DEF Found, ReviewKinds
  <2>6. t.cmd.target = None => t.cmd.kind \in {"CREATE", "CREATE_CATEGORY"}
    BY <1>3, <1>4, TargetRow, KindCases, Constants DEF DecisionKinds, LifecycleKinds, ReviewKinds
  <2>7. t.version # None => RowOf(t.cmd)'.version = t.version
    BY <1>1, <1>7, <2>1, <2>2, <2>6 DEF Named, Conditional, LifecycleKinds
  <2>8. StateAllows(t.cmd)'
    BY <1>7, <2>1, <2>2, <2>6 DEF StateAllows, DecisionKinds, Ledger!IsPending, Ledger!IsReversible
  <2> QED
    BY <2>4, <2>5, <2>7, <2>8
<1>9. Validated(m, t)'
  <2>1. SUFFICES ASSUME t.cmd.category # None,
                        t.effect # None \/ (t.pc \in {"claim", "apply"} /\ t.cmd.kind # "UPDATE")
                 PROVE  /\ lock'[t.cmd.category] = m
                        /\ category'[t.cmd.category].status = "ACTIVE"
                        /\ CategoryFits(t)'
    BY DEF Validated
  <2>2. /\ lock[t.cmd.category] = m
        /\ category[t.cmd.category].status = "ACTIVE"
        /\ CategoryFits(t)
    BY <1>1, <2>1 DEF Validated
  <2>3. t.cmd.category \in Categories /\ category[t.cmd.category] # None
    BY <1>1, <2>1, WhoSelects
  <2>4. lock'[t.cmd.category] = m /\ category'[t.cmd.category] = category[t.cmd.category]
    BY <2>2, <2>3 DEF Spared, Lockable
  <2>5. t.cmd.kind = "UPDATE" => event'[t.cmd.target] = event[t.cmd.target]
    BY <1>3, <1>4, <1>7, <2>1, TargetRow
  <2> QED
    BY <2>2, <2>4, <2>5 DEF CategoryFits, Ledger!Fits
<1>10. Written(m, t)'
  <2>1. CASE t.effect = None
    BY <2>1 DEF Written
  <2>2. CASE t.effect # None
    BY <1>1, <2>2, WrittenStays
  <2> QED
    BY <2>1, <2>2
<1> QED
  BY <1>1, <1>2, <1>5, <1>6, <1>8, <1>9, <1>10 DEF RequestOK, Request

-----------------------------------------------------------------------------
(* Steps inside a transaction.                                             *)

\* A step that commits nothing, and lets go of no lock but the member's own.
OwnStep(m, u) ==
    /\ tx' = [tx EXCEPT ![m] = u]
    /\ UNCHANGED <<ledgerVars, claim, minted, effects>>
    /\ enabled' \in BOOLEAN
    /\ lock' \in [Lockable -> Members \cup {None}]
    /\ \A x \in Lockable : lock'[x] # m => lock'[x] = lock[x] \/ (lock[x] = m /\ lock'[x] = None)
    /\ \A x \in Lockable : lock'[x] = m => lock[x] \in {None, m} /\ u # Idle
    /\ \/ u = Idle
       \/ tx[m] # Idle /\ Draws(u) = Draws(tx[m])
       \/ \A n \in Members \ {m} : tx[n] # Idle => Draws(u) \cap Draws(tx[n]) = {}

\* Such a step keeps the invariant if the member's own request is in order.
LEMMA OwnStepKeeps ==
    ASSUME IInv, NEW m \in Members, NEW u, u = Idle \/ RequestOK(m, u)', OwnStep(m, u)
    PROVE  IInv'
<1>1. /\ tx \in [Members -> {Idle} \cup Request]
      /\ tx' = [tx EXCEPT ![m] = u]
      /\ category' = category /\ event' = event /\ review' = review /\ audit' = audit
      /\ claim' = claim /\ minted' = minted /\ effects' = effects
      /\ lock \in [Lockable -> Members \cup {None}] /\ lock' \in [Lockable -> Members \cup {None}]
  BY DEF IInv, OwnStep, ledgerVars
<1>2. u \in {Idle} \cup Request
  BY DEF RequestOK, Request
<1>3. tx' \in [Members -> {Idle} \cup Request]
  BY <1>1, <1>2
<1>4. tx'[m] = u /\ \A n \in Members \ {m} : tx'[n] = tx[n]
  BY <1>1
<1>5. Ledger!TypeOK /\ Ledger!TypeOK'
  BY <1>1 DEF IInv, Ledger!TypeOK
<1>6. \A n \in Members \ {m} : \A x \in Lockable : lock[x] = n <=> lock'[x] = n
  BY <1>1, Constants DEF OwnStep
<1>7. \A x \in Lockable : lock'[x] # None => tx'[lock'[x]] # Idle
  <2>1. SUFFICES ASSUME NEW x \in Lockable, lock'[x] # None PROVE tx'[lock'[x]] # Idle
    OBVIOUS
  <2>2. CASE lock'[x] = m
    BY <1>4, <2>2 DEF OwnStep
  <2>3. CASE lock'[x] # m
    <3>1. lock'[x] \in Members \ {m} /\ lock[x] = lock'[x]
      BY <1>1, <1>6, <2>1, <2>3
    <3> QED
      BY <1>4, <2>1, <3>1 DEF IInv
  <2> QED
    BY <2>2, <2>3
<1>8. RequestsOK'
  <2>1. SUFFICES ASSUME NEW n \in Members, tx'[n] # Idle PROVE RequestOK(n, tx[n])'
    BY DEF RequestsOK
  <2>2. CASE n = m
    <3>1. u # Idle /\ RequestOK(m, u)'
      BY <1>4, <2>1, <2>2
    <3> QED
      BY <1>4, <2>2, <3>1
  <2>3. CASE n # m
    <3>1. tx'[n] = tx[n] /\ tx[n] # Idle /\ tx[n] \in Request
      BY <1>1, <1>4, <2>1, <2>3
    <3>2. PICK t \in Request : t = tx[n]
      BY <3>1
    <3>3. RequestOK(n, t)
      BY <3>1, <3>2 DEF IInv, RequestsOK
    <3>4. Spared(n, t)
      BY <1>1, <1>6, <2>3 DEF Spared
    <3>5. ReviewsNameEvents
      BY DEF IInv
    <3>6. RequestOK(n, t)'
      BY <1>5, <3>3, <3>4, <3>5, RequestStays
    <3> QED
      BY <3>1, <3>2, <3>6
  <2> QED
    BY <2>2, <2>3
<1>9. DrawsDisjoint'
  <2>1. SUFFICES ASSUME NEW a \in Members, NEW b \in Members, a # b, tx'[a] # Idle, tx'[b] # Idle
                 PROVE  Draws(tx[a])' \cap Draws(tx[b])' = {}
    BY DEF DrawsDisjoint
  <2>2. PICK s \in Request, t \in Request : s = tx'[a] /\ t = tx'[b]
    BY <1>3, <2>1
  <2>3. Draws(s) \cap Draws(t) = {}
    <3>1. CASE a # m /\ b # m
      <4>1. s = tx[a] /\ t = tx[b]
        BY <1>4, <2>2, <3>1
      <4> QED
        BY <2>1, <2>2, <4>1 DEF IInv, DrawsDisjoint
    <3>2. CASE a = m
      <4>1. s = u /\ b # m /\ t = tx[b] /\ u # Idle /\ tx[b] # Idle
        BY <1>4, <2>1, <2>2, <3>2
      <4>2. tx[m] # Idle => Draws(tx[m]) \cap Draws(tx[b]) = {}
        BY <4>1 DEF IInv, DrawsDisjoint
      <4> QED
        BY <4>1, <4>2 DEF OwnStep
    <3>3. CASE b = m
      <4>1. t = u /\ a # m /\ s = tx[a] /\ u # Idle /\ tx[a] # Idle
        BY <1>4, <2>1, <2>2, <3>3
      <4>2. tx[m] # Idle => Draws(tx[m]) \cap Draws(tx[a]) = {}
        BY <4>1 DEF IInv, DrawsDisjoint
      <4> QED
        BY <4>1, <4>2 DEF OwnStep
    <3> QED
      BY <3>1, <3>2, <3>3
  <2> QED
    BY <2>2, <2>3
<1>10. ReviewsNameEvents'
  BY <1>1 DEF IInv, ReviewsNameEvents
<1>11. ClaimsKept'
  BY <1>1 DEF IInv, ClaimsKept, Kept, ReplayAvailable, Existing
<1>12. AppliedOnce'
  BY <1>1 DEF IInv, AppliedOnce, Spent
<1>13. "EXPIRE" \notin Disturbances => CompletedIffApplied'
  BY <1>1 DEF IInv, CompletedIffApplied
<1> QED
  BY <1>1, <1>3, <1>5, <1>7, <1>8, <1>9, <1>10, <1>11, <1>12, <1>13 DEF IInv, OwnStep

\* Locking free rows is the member's own affair.
LEMMA TakeKeeps ==
    ASSUME lock \in [Lockable -> Members \cup {None}], NEW m \in Members, NEW rows,
           \A x \in rows : Free(m, x), Take(m, rows)
    PROVE  /\ lock' \in [Lockable -> Members \cup {None}]
           /\ \A x \in Lockable : lock'[x] # m => lock'[x] = lock[x]
           /\ \A x \in Lockable : lock'[x] = m => lock[x] \in {None, m}
           /\ \A x \in Lockable : x \in rows \/ lock[x] = m => lock'[x] = m
BY DEF Take, Free

\* So is letting go of its own.
LEMMA ReleaseKeeps ==
    ASSUME lock \in [Lockable -> Members \cup {None}], NEW m \in Members, Release(m)
    PROVE  /\ lock' \in [Lockable -> Members \cup {None}]
           /\ \A x \in Lockable : lock'[x] # m
           /\ \A x \in Lockable : lock[x] # m => lock'[x] = lock[x]
           /\ \A x \in Lockable : lock[x] = m => lock'[x] = None
BY Constants DEF Release

\* A request keeps the rows it names while it advances.
LEMMA SameNames ==
    ASSUME UNCHANGED ledgerVars, NEW t \in Request, NEW u \in Request, Named(t),
           u.op = t.op, u.cmd = t.cmd, u.version = t.version, u.new = t.new
    PROVE  Named(u)' /\ Draws(u) = Draws(t)
BY DEF ledgerVars, Named, TargetExists, DrawsFresh, DrawsOne, DrawsTwo, Draws

\* An answer without an effect leaves nothing to check but its claim.
LEMMA AnswerOK ==
    ASSUME UNCHANGED ledgerVars, NEW m \in Members, NEW t \in Request, NEW u \in Request, Named(t),
           u.op = t.op, u.cmd = t.cmd, u.version = t.version, u.new = t.new,
           u.pc = "respond", u.effect = None, u.reply # "REPLAY_UNAVAILABLE", Claimed(m, u)'
    PROVE  RequestOK(m, u)'
<1>1. Named(u)'
  BY SameNames
<1> QED
  BY <1>1 DEF RequestOK, Stage, Validated, Checked, Written, Request

\* The rows a command writes fit their tables.
LEMMA RowsTyped ==
    ASSUME Ledger!TypeOK, NEW m \in Members, NEW t \in Request, Named(t)
    PROVE  /\ t.cmd.kind \in {"RENAME_CATEGORY", "ARCHIVE_CATEGORY"} =>
                 RewrittenRow(t) \in Ledger!CategoryRow
           /\ t.cmd.kind \in {"UPDATE"} \cup DecisionKinds \cup LifecycleKinds =>
                 RewrittenRow(t) \in Ledger!EventRow
           /\ t.cmd.kind = "RESOLVE" => RewrittenRow(t) \in Ledger!ReviewRow
           /\ \A y \in Draws(t) :
                 /\ t.cmd.kind = "CREATE_CATEGORY" => InsertedRow(m, t, y) \in Ledger!CategoryRow
                 /\ t.cmd.kind \in {"CREATE", "REVERSE", "CORRECT"} =>
                       InsertedRow(m, t, y) \in Ledger!EventRow
                 /\ t.cmd.kind \in ReviewKinds => InsertedRow(m, t, y) \in Ledger!ReviewRow
<1>1. t.cmd \in Command /\ t.cmd.kind \in Kinds /\ t.cmd.body \in Body
  BY DEF Request, Command
<1>2. TargetExists(t.cmd) /\ t.cmd.kind = t.cmd.body.kind /\ WellFormed(t.cmd.body)
  BY DEF Named
<1>3. t.cmd.kind \in {"RENAME_CATEGORY", "ARCHIVE_CATEGORY"} => RewrittenRow(t) \in Ledger!CategoryRow
  <2>1. SUFFICES ASSUME t.cmd.kind \in {"RENAME_CATEGORY", "ARCHIVE_CATEGORY"}
                 PROVE  RewrittenRow(t) \in Ledger!CategoryRow
    OBVIOUS
  <2>2. RowOf(t.cmd) \in Ledger!CategoryRow
    BY <1>1, <1>2, <2>1, TargetRow DEF Ledger!TypeOK
  <2>3. PICK row \in Ledger!CategoryRow : row = RowOf(t.cmd)
    BY <2>2
  <2>10. row.version + 1 \in Ledger!Version
    BY DEF Ledger!CategoryRow, Ledger!Version
  <2>4. t.cmd.kind = "RENAME_CATEGORY" => t.cmd.body.name \in Names
    BY <1>2 DEF WellFormed
  <2>5. CASE t.cmd.kind = "RENAME_CATEGORY"
    <3>1. RewrittenRow(t) = [row EXCEPT !.name = t.cmd.body.name, !.version = @ + 1]
      BY <2>3, <2>5 DEF RewrittenRow
    <3> QED
      BY <2>4, <2>5, <3>1, <2>10 DEF Ledger!CategoryRow
  <2>6. CASE t.cmd.kind = "ARCHIVE_CATEGORY"
    <3>1. RewrittenRow(t) = [row EXCEPT !.status = "ARCHIVED", !.version = @ + 1]
      BY <2>3, <2>6 DEF RewrittenRow
    <3> QED
      BY <3>1, <2>10 DEF Ledger!CategoryRow
  <2> QED
    BY <2>1, <2>5, <2>6
<1>4. t.cmd.kind \in {"UPDATE"} \cup DecisionKinds \cup LifecycleKinds => RewrittenRow(t) \in Ledger!EventRow
  <2>1. SUFFICES ASSUME t.cmd.kind \in {"UPDATE"} \cup DecisionKinds \cup LifecycleKinds
                 PROVE  RewrittenRow(t) \in Ledger!EventRow
    OBVIOUS
  <2>2. RowOf(t.cmd) \in Ledger!EventRow
    BY <1>1, <1>2, <2>1, TargetRow DEF Ledger!TypeOK
  <2>3. PICK row \in Ledger!EventRow : row = RowOf(t.cmd)
    BY <2>2
  <2>10. row.version + 1 \in Ledger!Version
    BY DEF Ledger!EventRow, Ledger!Version
  <2>4. t.cmd.kind = "UPDATE" =>
            /\ t.cmd.category \in Categories
            /\ t.cmd.body.activity \in Activities /\ t.cmd.body.amount \in Amounts
    BY <1>2, WhoSelects DEF WellFormed, SelectsCategory
  <2>5. CASE t.cmd.kind = "UPDATE"
    <3>1. RewrittenRow(t) = [row EXCEPT !.category = t.cmd.category, !.activity = t.cmd.body.activity,
                                        !.amount = t.cmd.body.amount, !.version = @ + 1]
      BY <2>3, <2>5 DEF RewrittenRow
    <3> QED
      BY <2>4, <2>5, <3>1, <2>10 DEF Ledger!EventRow
  <2>6. CASE t.cmd.kind = "APPROVE"
    <3>1. RewrittenRow(t) = [row EXCEPT !.approval = "APPROVED", !.posting = "EFFECTIVE", !.version = @ + 1]
      BY <2>3, <2>6 DEF RewrittenRow
    <3> QED
      BY <3>1, <2>10 DEF Ledger!EventRow
  <2>7. CASE t.cmd.kind = "REJECT"
    <3>1. RewrittenRow(t) = [row EXCEPT !.approval = "REJECTED", !.version = @ + 1]
      BY <2>3, <2>7 DEF RewrittenRow
    <3> QED
      BY <3>1, <2>10 DEF Ledger!EventRow
  <2>8. CASE t.cmd.kind \in {"REVERSE", "CORRECT"}
    <3>1. RewrittenRow(t) = [row EXCEPT !.posting = "REVERSED", !.version = @ + 1]
      BY <2>3, <2>8 DEF RewrittenRow
    <3> QED
      BY <3>1, <2>10 DEF Ledger!EventRow
  <2>9. CASE t.cmd.kind = "ARCHIVE"
    <3>1. RewrittenRow(t) = [row EXCEPT !.archived = TRUE, !.version = @ + 1]
      BY <2>3, <2>9 DEF RewrittenRow
    <3> QED
      BY <3>1, <2>10 DEF Ledger!EventRow
  <2> QED
    BY <2>1, <2>5, <2>6, <2>7, <2>8, <2>9 DEF DecisionKinds, LifecycleKinds
<1>5. t.cmd.kind = "RESOLVE" => RewrittenRow(t) \in Ledger!ReviewRow
  <2>1. SUFFICES ASSUME t.cmd.kind = "RESOLVE" PROVE RewrittenRow(t) \in Ledger!ReviewRow
    OBVIOUS
  <2>2. RowOf(t.cmd) \in Ledger!ReviewRow
    BY <1>1, <1>2, <2>1, TargetRow DEF Ledger!TypeOK
  <2>3. PICK row \in Ledger!ReviewRow : row = RowOf(t.cmd)
    BY <2>2
  <2>10. row.version + 1 \in Ledger!Version
    BY DEF Ledger!ReviewRow, Ledger!Version
  <2>4. RewrittenRow(t) = [row EXCEPT !.flag = "RESOLVED", !.version = @ + 1]
    BY <2>1, <2>3 DEF RewrittenRow
  <2> QED
    BY <2>4, <2>10 DEF Ledger!ReviewRow
<1>6. ASSUME NEW y \in Draws(t)
      PROVE  /\ t.cmd.kind = "CREATE_CATEGORY" => InsertedRow(m, t, y) \in Ledger!CategoryRow
             /\ t.cmd.kind \in {"CREATE", "REVERSE", "CORRECT"} => InsertedRow(m, t, y) \in Ledger!EventRow
             /\ t.cmd.kind \in ReviewKinds => InsertedRow(m, t, y) \in Ledger!ReviewRow
  <2>10. 1 \in Ledger!Version
    BY DEF Ledger!Version
  <2>1. CASE t.cmd.kind = "CREATE_CATEGORY"
    <3>1. /\ t.cmd.body.name \in Names /\ t.cmd.body.applicability \in {"INCOME", "EXPENSE", "BOTH"}
          /\ t.cmd.body.activity \in Activities \cup {None}
      BY <1>1, <1>2, <2>1 DEF WellFormed, Body
    <3>2. InsertedRow(m, t, y) =
              [name |-> t.cmd.body.name, applicability |-> t.cmd.body.applicability,
               activity |-> t.cmd.body.activity, status |-> "ACTIVE", version |-> 1]
      BY <2>1 DEF InsertedRow, ReviewKinds
    <3> QED
      BY <2>1, <2>10, <3>1, <3>2 DEF Ledger!CategoryRow, ReviewKinds
  <2>2. CASE t.cmd.kind \in ReviewKinds
    <3>1. t.cmd.target \in Events
      BY <1>1, <1>2, <2>2, TargetRow
    <3>2. InsertedRow(m, t, y) =
              [event |-> t.cmd.target, kind |-> t.cmd.kind, author |-> m, version |-> 1,
               flag |-> IF t.cmd.kind = "FLAG" THEN "OPEN" ELSE None]
      BY <2>2 DEF InsertedRow, ReviewKinds
    <3> QED
      BY <2>2, <2>10, <3>1, <3>2 DEF Ledger!ReviewRow, ReviewKinds
  <2>3. ASSUME NEW direction \in {"INFLOW", "OUTFLOW"}, t.cmd.category \in Categories,
               NEW activity \in Activities, NEW amount \in Amounts
        PROVE  Ledger!NewEvent(m, t.cmd.category, direction, activity, amount) \in Ledger!EventRow
    BY <2>3, <2>10, Constants DEF Ledger!NewEvent, Ledger!EventRow, Ledger!Directions
  <2>4. t.cmd.category # None /\ t.cmd.kind # "UPDATE" =>
            /\ t.cmd.category \in Categories /\ t.cmd.body.direction \in {"INFLOW", "OUTFLOW"}
            /\ t.cmd.body.activity \in Activities /\ t.cmd.body.amount \in Amounts
    BY <1>2, WhoSelects DEF WellFormed
  <2>5. CASE t.cmd.kind = "CREATE"
    <3>1. t.cmd.category # None
      BY <2>5, WhoSelects
    <3>2. InsertedRow(m, t, y) = Ledger!NewEvent(m, t.cmd.category, t.cmd.body.direction,
                                                 t.cmd.body.activity, t.cmd.body.amount)
      BY <2>5 DEF InsertedRow, ReviewKinds
    <3> QED
      BY <2>3, <2>4, <2>5, <3>1, <3>2 DEF ReviewKinds
  <2>6. CASE t.cmd.kind \in {"REVERSE", "CORRECT"} /\ y = t.new[1]
    <3>1. t.cmd.target \in Events /\ event[t.cmd.target] \in Ledger!EventRow
      BY <1>1, <1>2, <2>6, TargetRow DEF LifecycleKinds, Ledger!TypeOK
    <3>2. InsertedRow(m, t, y) = Ledger!ReversalOf(m, t.cmd.target)
      BY <2>6 DEF InsertedRow, ReviewKinds
    <3>3. Ledger!ReversalOf(m, t.cmd.target) \in Ledger!EventRow
      BY <2>10, <3>1 DEF Ledger!ReversalOf, Ledger!EventRow, Ledger!Directions, Ledger!Opposite
    <3> QED
      BY <2>6, <3>2, <3>3 DEF ReviewKinds
  <2>7. CASE t.cmd.kind \in {"REVERSE", "CORRECT"} /\ y # t.new[1]
    <3>1. t.cmd.kind = "CORRECT" /\ t.cmd.category # None
      BY <2>7 DEF Named, DrawsFresh, DrawsOne, Draws, ReviewKinds
    <3>2. InsertedRow(m, t, y) =
              Ledger!ReplacementFor(m, t.cmd.target, t.cmd.category, t.cmd.body.direction,
                                    t.cmd.body.activity, t.cmd.body.amount)
      BY <2>7, <3>1 DEF InsertedRow, ReviewKinds
    <3>3. t.cmd.target \in Events
      BY <1>1, <1>2, <3>1, TargetRow DEF LifecycleKinds
    <3>4. Ledger!NewEvent(m, t.cmd.category, t.cmd.body.direction, t.cmd.body.activity,
                          t.cmd.body.amount) \in Ledger!EventRow
      BY <2>3, <2>4, <3>1
    <3>5. InsertedRow(m, t, y) \in Ledger!EventRow
      BY <3>2, <3>3, <3>4 DEF Ledger!ReplacementFor, Ledger!EventRow
    <3> QED
      BY <3>1, <3>5 DEF ReviewKinds
  <2> QED
    BY <2>1, <2>2, <2>5, <2>6, <2>7
<1> QED
  BY <1>3, <1>4, <1>5, <1>6

\* What a command is about to write is an effect.
LEMMA EffectTyped ==
    ASSUME Ledger!TypeOK, NEW m \in Members, NEW t \in Request, Named(t)
    PROVE  /\ Resource(t) \in Ledger!Resources
           /\ [rows |-> Writes(m, t), action |-> AuditAction(m, t.cmd.kind), resource |-> Resource(t)]
                 \in Effects
<1>1. t.cmd \in Command /\ t.cmd.kind \in Kinds /\ TargetExists(t.cmd) /\ DrawsFresh(t)
  BY DEF Request, Command, Named
<1>2. t.cmd.kind \notin Inserting =>
          /\ t.cmd.target \in Ledger!Resources
          /\ t.cmd.kind \in {"RENAME_CATEGORY", "ARCHIVE_CATEGORY"} \cup {"UPDATE", "RESOLVE"}
                               \cup DecisionKinds \cup LifecycleKinds
  BY <1>1, TargetRow, KindCases, Constants DEF Inserting, DecisionKinds, LifecycleKinds, ReviewKinds
<1>3. t.cmd.kind \in Inserting =>
          /\ t.cmd.kind \in {"CREATE", "CREATE_CATEGORY"} \cup ReviewKinds
          /\ t.new[1] \in Ledger!Resources
  <2>1. \A x : t.new = <<x>> => t.new[1] = x
    OBVIOUS
  <2>2. DOMAIN category = Categories /\ DOMAIN event = Events /\ DOMAIN review = Reviews
    BY DEF Ledger!TypeOK
  <2>3. t.cmd.kind \in Inserting => DrawsOne(t, category) \/ DrawsOne(t, event) \/ DrawsOne(t, review)
    BY <1>1 DEF DrawsFresh, Inserting, ReviewKinds
  <2> QED
    BY <2>1, <2>2, <2>3, Constants DEF DrawsOne, Inserting
<1>4. Resource(t) \in Ledger!Resources
  BY <1>2, <1>3 DEF Resource
<1>5. AuditAction(m, t.cmd.kind) \in Ledger!AuditActions
  BY <1>1, KindCases DEF AuditAction, Ledger!AuditActions
<1>6. PICK X \in SUBSET Ledger!Resources :
          X = (IF t.cmd.kind \in Inserting THEN {} ELSE {t.cmd.target}) \cup Draws(t)
  BY <1>1, <1>2, DrawsWhere, Constants
<1>7. \A y \in X : (IF y \in Draws(t) THEN InsertedRow(m, t, y) ELSE RewrittenRow(t)) \in TableRow
  <2>1. SUFFICES ASSUME NEW y \in X
                 PROVE  (IF y \in Draws(t) THEN InsertedRow(m, t, y) ELSE RewrittenRow(t)) \in TableRow
    OBVIOUS
  <2>2. CASE y \in Draws(t)
    <3>1. \/ t.cmd.kind = "CREATE_CATEGORY" \/ t.cmd.kind \in {"CREATE", "REVERSE", "CORRECT"}
          \/ t.cmd.kind \in ReviewKinds
      BY <1>1, <2>2, DrawsWhere
    <3> QED
      BY <2>2, <3>1, RowsTyped DEF TableRow
  <2>3. CASE y \notin Draws(t)
    <3>1. t.cmd.kind \notin Inserting
      BY <1>6, <2>1, <2>3
    <3> QED
      BY <1>2, <2>3, <3>1, RowsTyped DEF TableRow
  <2> QED
    BY <2>2, <2>3
<1>8. Writes(m, t) \in [X -> TableRow]
  BY <1>6, <1>7 DEF Writes
<1>9. Writes(m, t) \in UNION {[Y -> TableRow] : Y \in SUBSET Ledger!Resources}
  BY <1>8
<1> QED
  BY <1>4, <1>5, <1>9 DEF Effects

\* A command that passed its checks, and holds the rows they were made on, may
\* write.
LEMMA PerformedOK ==
    ASSUME Ledger!TypeOK, UNCHANGED <<ledgerVars, claim, minted, effects>>,
           NEW m \in Members, NEW t \in Request, RequestOK(m, t), t.pc \in {"apply", "select"},
           \A x \in Lockable : lock[x] = m => lock'[x] = m,
           \A x \in RowsOf(t.cmd) : lock'[x] = m,
           Found(m, t.cmd), t.version # None => RowOf(t.cmd).version = t.version,
           StateAllows(t.cmd), ~NameTaken(t), ~DatabaseRefuses(m, t),
           t.cmd.kind = "UPDATE" =>
               lock'[t.cmd.category] = m /\ category[t.cmd.category].status = "ACTIVE" /\ CategoryFits(t),
           t.cmd.kind = "UPDATE" \/ t.pc = "apply",
           NEW u, u = Performed(m, t)
    PROVE  RequestOK(m, u)' /\ Draws(u) = Draws(t)
<1>1. /\ category' = category /\ event' = event /\ review' = review
      /\ claim' = claim /\ minted' = minted
  BY DEF ledgerVars
<1>2. /\ Named(t) /\ Stage(m, t) /\ Claimed(m, t) /\ Validated(m, t)
      /\ t.effect = None
  BY DEF RequestOK, Stage
<1>3. PICK e \in Effects :
          e = [rows |-> Writes(m, t), action |-> AuditAction(m, t.cmd.kind), resource |-> Resource(t)]
  BY <1>2, EffectTyped
<1>4. e # None
  BY Constants
<1>5. t.cmd \in Command /\ t.op \in Ops \cup {None} /\ t.claim \in ClaimRows \cup {None}
  BY DEF Request
<1>6. PICK c \in ClaimRows \cup {None} :
          /\ c = IF t.claim = None THEN None ELSE ClaimRow(m, t, "COMPLETED", "OK", Resource(t))
          /\ t.claim # None => c \in ClaimRows
  <2>1. ClaimRow(m, t, "COMPLETED", "OK", Resource(t)) \in ClaimRows
    BY <1>2, <1>5, EffectTyped DEF ClaimRow, ClaimRows, ClaimStates
  <2> QED
    BY <2>1
<1>7. u = [t EXCEPT !.pc = "respond", !.reply = "OK", !.effect = e, !.claim = c]
  BY <1>3, <1>6 DEF Performed
<1>8. /\ u \in Request
      /\ u.pc = "respond" /\ u.reply = "OK" /\ u.effect = e /\ u.claim = c
      /\ u.op = t.op /\ u.cmd = t.cmd /\ u.version = t.version /\ u.new = t.new
  BY <1>7 DEF Request, Steps, Codes
<1>9. Named(u)' /\ Draws(u) = Draws(t)
  BY <1>2, <1>8, SameNames
<1>10. Stage(m, u)'
  <2>1. Permitted(m, t.cmd.kind) /\ (t.op # None => t.claim # None)
    BY <1>2, Constants DEF Stage, Named, Idempotent, LifecycleKinds, DecisionKinds, ReviewKinds
  <2>2. t.claim # None => c # None
    BY <1>6, Constants
  <2> QED
    BY <1>8, <2>1, <2>2 DEF Stage
<1>11. Claimed(m, u)'
  <2>1. SUFFICES ASSUME u.claim # None
                 PROVE  /\ u.op # None /\ lock'[u.op] = m
                        /\ u.claim.actor = m /\ u.claim.cmd = u.cmd
                        /\ u.claim.state = "COMPLETED" <=> u.effect # None
                        /\ u.effect # None => u.claim.resource = Resource(u)
                        /\ claim'[u.op] = None \/ ("EXPIRE" \in Disturbances /\ claim'[u.op].cmd = u.cmd)
    BY DEF Claimed, Resource
  <2>2. t.claim # None
    BY <1>6, <1>8, <2>1
  <2>3. c.actor = m /\ c.cmd = t.cmd /\ c.state = "COMPLETED" /\ c.resource = Resource(t)
    BY <1>6, <2>2 DEF ClaimRow
  <2>4. /\ t.op # None /\ lock[t.op] = m
        /\ claim[t.op] = None \/ ("EXPIRE" \in Disturbances /\ claim[t.op].cmd = t.cmd)
    BY <1>2, <2>2 DEF Claimed
  <2>5. lock'[t.op] = m
    BY <1>5, <2>4 DEF Lockable
  <2> QED
    BY <1>1, <1>4, <1>8, <2>3, <2>4, <2>5 DEF Resource
<1>12. Validated(m, u)'
  <2>1. SUFFICES ASSUME t.cmd.category # None
                 PROVE  /\ lock'[t.cmd.category] = m
                        /\ category'[t.cmd.category].status = "ACTIVE"
                        /\ CategoryFits(u)'
    BY <1>8 DEF Validated
  <2>2. /\ lock'[t.cmd.category] = m
        /\ category[t.cmd.category].status = "ACTIVE"
        /\ CategoryFits(t)
    <3>1. CASE t.cmd.kind = "UPDATE"
      BY <3>1
    <3>2. CASE t.cmd.kind # "UPDATE"
      <4>1. t.cmd.category \in Lockable
        BY <1>2, <2>1, WhoSelects DEF Lockable
      <4> QED
        BY <1>2, <2>1, <3>2, <4>1 DEF Validated
    <3> QED
      BY <3>1, <3>2
  <2> QED
    BY <1>1, <1>8, <2>2 DEF CategoryFits, Ledger!Fits
<1>13. Checked(m, u)'
  <2>1. RowsOf(u.cmd)' = RowsOf(t.cmd) /\ RowOf(u.cmd)' = RowOf(t.cmd)
    BY <1>1, <1>8 DEF RowsOf, RowOf
  <2>2. Found(m, u.cmd)'
    BY <1>1, <1>8 DEF Found
  <2>3. StateAllows(u.cmd)'
    BY <1>8, <2>1 DEF StateAllows
  <2> QED
    BY <1>8, <2>1, <2>2, <2>3 DEF Checked
<1>14. Written(m, u)'
  <2>1. ~NameTaken(u)'
    BY <1>1, <1>8 DEF NameTaken, Ledger!ScopeNameFree
  <2>2. ~DatabaseRefuses(m, u)'
    BY <1>1, <1>8 DEF DatabaseRefuses, Mints, Ledger!HistoryGuard, Ledger!ReversalOf
  <2>3. RewrittenRow(u)' = RewrittenRow(t)
    BY <1>1, <1>8 DEF RewrittenRow, RowOf
  <2>4. ASSUME NEW y
        PROVE  InsertedRow(m, u, y)' = InsertedRow(m, t, y)
    BY <1>1, <1>8 DEF InsertedRow, Ledger!ReversalOf
  <2>5. Writes(m, u)' = Writes(m, t)
    BY <1>8, <1>9, <2>3, <2>4 DEF Writes, Draws
  <2>6. u.effect = [rows |-> Writes(m, u)', action |-> AuditAction(m, u.cmd.kind), resource |-> Resource(u)]
    BY <1>3, <1>8, <2>5 DEF Resource
  <2> QED
    BY <2>1, <2>2, <2>6 DEF Written, AuditAction, Resource
<1> QED
  BY <1>8, <1>9, <1>10, <1>11, <1>12, <1>13, <1>14 DEF RequestOK, Request

\* A member whose request is not over has one in order.
LEMMA OpenRequest ==
    ASSUME IInv, NEW m \in Members
    PROVE  /\ tx[m].pc = "idle" <=> tx[m] = Idle
           /\ tx[m] # Idle => tx[m] \in Request /\ RequestOK(m, tx[m])
BY DEF IInv, RequestsOK, Request, Steps, Idle

LEMMA IdleIsNoRequest ==
    ASSUME NEW t \in Request
    PROVE  t # Idle
BY DEF Request, Idle

LEMMA CrashKeeps ==
    ASSUME IInv, NEW m \in Members, Crash(m)
    PROVE  IInv'
<1>1. lock \in [Lockable -> Members \cup {None}] /\ Release(m)
  BY DEF IInv, Crash
<1>2. PICK u : u = Idle
  OBVIOUS
<1>3. OwnStep(m, u)
  BY <1>1, <1>2, ReleaseKeeps DEF Crash, OwnStep, Step, Untouched, IInv
<1> QED
  BY <1>2, <1>3, OwnStepKeeps

LEMMA BreakDeadlockKeeps ==
    ASSUME IInv, NEW m \in Members, BreakDeadlock(m)
    PROVE  IInv'
<1>1. lock \in [Lockable -> Members \cup {None}] /\ Release(m)
  BY DEF IInv, BreakDeadlock
<1>2. tx[m].pc \in {"category", "claim", "apply", "select"}
  BY DEF BreakDeadlock, WaitsFor, Wanted
<1>3. PICK t \in Request : t = tx[m]
  BY <1>2, OpenRequest
<1>4. RequestOK(m, t) /\ t.pc # "respond" /\ tx[m] # Idle
  BY <1>2, <1>3, OpenRequest
<1>5. t.effect = None /\ Named(t)
  BY <1>4 DEF RequestOK, Stage
<1>6. PICK u : u = RolledBack(t)
  OBVIOUS
<1>7. /\ u \in Request /\ u.op = t.op /\ u.cmd = t.cmd /\ u.version = t.version /\ u.new = t.new
      /\ u.pc = "respond" /\ u.effect = None /\ u.reply = "INTERNAL_ERROR" /\ u.claim = None
  BY <1>5, <1>6 DEF RolledBack, Answer, Request, Steps, Codes
<1>8. UNCHANGED ledgerVars
  BY DEF BreakDeadlock, Untouched
<1>9. Claimed(m, u)'
  BY <1>7 DEF Claimed
<1>10. RequestOK(m, u)'
  BY <1>5, <1>7, <1>8, <1>9, AnswerOK
<1>11. Draws(u) = Draws(tx[m])
  BY <1>3, <1>7 DEF Draws
<1>12. OwnStep(m, u)
  BY <1>1, <1>3, <1>4, <1>6, <1>11, ReleaseKeeps DEF BreakDeadlock, OwnStep, Step, Untouched, IInv
<1> QED
  BY <1>10, <1>12, OwnStepKeeps

LEMMA ToggleModuleKeeps ==
    ASSUME IInv, NEW m \in Members, ToggleModule(m)
    PROVE  IInv'
<1>1. PICK u : u = Idle
  OBVIOUS
<1>2. tx[m] = Idle
  BY OpenRequest DEF ToggleModule
<1>3. tx' = [tx EXCEPT ![m] = u]
  BY <1>1, <1>2 DEF ToggleModule, IInv
<1>4. \A x \in Lockable : lock[x] # m
  BY <1>2, Constants DEF IInv
<1>5. OwnStep(m, u)
  BY <1>1, <1>3, <1>4 DEF ToggleModule, OwnStep, IInv
<1> QED
  BY <1>1, <1>5, OwnStepKeeps

LEMMA ValidateCategoryKeeps ==
    ASSUME IInv, NEW m \in Members, ValidateCategory(m)
    PROVE  IInv'
<1>1. PICK t \in Request : t = tx[m]
  BY OpenRequest DEF ValidateCategory
<1>2. RequestOK(m, t) /\ t.pc = "category" /\ tx[m] # Idle
  BY <1>1, OpenRequest DEF ValidateCategory
<1>3. t.effect = None /\ Named(t) /\ t.claim = None /\ t.cmd.kind # "UPDATE" /\ t.cmd.category # None
      /\ Permitted(m, t.cmd.kind) /\ t.reply # "REPLAY_UNAVAILABLE"
  BY <1>2 DEF RequestOK, Stage
<1>4. t.cmd.category \in Categories /\ t.cmd.kind \in Idempotent
  BY <1>3, WhoSelects DEF Idempotent, LifecycleKinds
<1>5. PICK u : u = CASE CategoryLocked(t) = {} -> Answer(t, "NOT_FOUND")
                     [] CategoryLocked(t) # {} /\ ~CategoryFits(t) -> Answer(t, "INVALID_CATEGORY")
                     [] OTHER -> [t EXCEPT !.pc = "claim"]
  OBVIOUS
<1>6. /\ tx' = [tx EXCEPT ![m] = u]
      /\ Take(m, CategoryLocked(t)) /\ \A x \in CategoryLocked(t) : Free(m, x)
      /\ lock \in [Lockable -> Members \cup {None}]
      /\ UNCHANGED <<ledgerVars, enabled, claim, minted, effects>>
  BY <1>1, <1>5 DEF ValidateCategory, Step, Untouched, IInv
<1>7. /\ lock' \in [Lockable -> Members \cup {None}]
      /\ \A x \in Lockable : lock'[x] # m => lock'[x] = lock[x]
      /\ \A x \in Lockable : lock'[x] = m => lock[x] \in {None, m}
      /\ \A x \in Lockable : x \in CategoryLocked(t) \/ lock[x] = m => lock'[x] = m
  BY <1>6, TakeKeeps
<1>8. RequestOK(m, u)' /\ Draws(u) = Draws(t)
  <2>1. CASE \E code \in {"NOT_FOUND", "INVALID_CATEGORY"} : u = Answer(t, code)
    <3>1. PICK code \in {"NOT_FOUND", "INVALID_CATEGORY"} : u = Answer(t, code)
      BY <2>1
    <3>2. /\ u \in Request /\ u.op = t.op /\ u.cmd = t.cmd /\ u.version = t.version /\ u.new = t.new
          /\ u.pc = "respond" /\ u.effect = None /\ u.reply = code /\ u.claim = None
      BY <1>3, <3>1 DEF Answer, Request, Steps, Codes
    <3>3. Claimed(m, u)'
      BY <3>2 DEF Claimed
    <3> QED
      BY <1>3, <1>6, <3>2, <3>3, AnswerOK DEF Draws
  <2>2. CASE u = [t EXCEPT !.pc = "claim"] /\ CategoryLocked(t) # {} /\ CategoryFits(t)
    <3>1. /\ u \in Request /\ u.op = t.op /\ u.cmd = t.cmd /\ u.version = t.version /\ u.new = t.new
          /\ u.pc = "claim" /\ u.effect = None /\ u.reply = t.reply /\ u.claim = None
      BY <1>3, <2>2 DEF Request, Steps
    <3>2. Named(u)' /\ Draws(u) = Draws(t)
      BY <1>3, <1>6, <3>1, SameNames
    <3>3. Stage(m, u)'
      BY <1>3, <1>4, <3>1 DEF Stage
    <3>4. t.cmd.category \in CategoryLocked(t) /\ category[t.cmd.category].status = "ACTIVE"
      BY <2>2 DEF CategoryLocked
    <3>5. lock'[t.cmd.category] = m
      BY <1>4, <1>7, <3>4 DEF Lockable
    <3>6. category' = category /\ event' = event
      BY <1>6 DEF ledgerVars
    <3>7. Validated(m, u)'
      BY <2>2, <3>1, <3>4, <3>5, <3>6 DEF Validated, CategoryFits, Ledger!Fits
    <3> QED
      BY <1>3, <3>1, <3>2, <3>3, <3>7 DEF RequestOK, Request, Claimed, Checked, Written
  <2>3. \/ \E code \in {"NOT_FOUND", "INVALID_CATEGORY"} : u = Answer(t, code)
        \/ u = [t EXCEPT !.pc = "claim"] /\ CategoryLocked(t) # {} /\ CategoryFits(t)
    BY <1>5
  <2> QED
    BY <2>1, <2>2, <2>3
<1>9. u # Idle
  BY <1>5, <1>8, IdleIsNoRequest DEF RequestOK, Request, Idle
<1>10. Draws(u) = Draws(tx[m])
  BY <1>1, <1>8 DEF Draws
<1>11. OwnStep(m, u)
  BY <1>2, <1>6, <1>7, <1>9, <1>10 DEF OwnStep, IInv
<1> QED
  BY <1>8, <1>11, OwnStepKeeps

\* A replay never finds its outcome gone.
LEMMA ReplayFinds ==
    ASSUME IInv, NEW op \in Ops, claim[op] # None
    PROVE  /\ ReplayAnswer(claim[op]) \in Codes \cup {None} \/ claim[op].state = "IN_PROGRESS"
           /\ claim[op].state # "IN_PROGRESS" => ReplayAnswer(claim[op]) # "REPLAY_UNAVAILABLE"
<1>1. PICK old \in ClaimRows : old = claim[op]
  BY DEF IInv
<1>2. old.state = "COMPLETED" => ReplayAvailable(old)
  BY <1>1 DEF IInv, ClaimsKept, Kept
<1>3. old.state \in ClaimStates /\ old.code \in {"OK", "NOT_FOUND", "VERSION_MISMATCH", "INVALID_STATE", None}
  BY DEF ClaimRows
<1>4. CASE old.state = "FAILED"
  <2>1. ReplayAnswer(old) = old.code
    BY <1>4 DEF ReplayAnswer
  <2>2. None # "REPLAY_UNAVAILABLE"
    BY Constants DEF Codes
  <2> QED
    BY <1>1, <1>3, <2>1, <2>2 DEF Codes
<1>5. CASE old.state = "COMPLETED"
  <2>1. ReplayAnswer(old) \in {"NOT_FOUND", "REPLAYED"}
    BY <1>2, <1>5 DEF ReplayAnswer, IInv
  <2> QED
    BY <1>1, <2>1 DEF Codes
<1>6. CASE old.state = "IN_PROGRESS"
  BY <1>1, <1>6
<1> QED
  BY <1>3, <1>4, <1>5, <1>6 DEF ClaimStates

\* What an existing claim answers.
LEMMA ClaimAnswers ==
    ASSUME IInv, NEW m \in Members, NEW t \in Request, t.op \in Ops
    PROVE  /\ ClaimAnswer(m, t) \in {"KEY_REUSED", "NOT_FOUND", "CONFLICT", "REPLAY", None}
           /\ ClaimAnswer(m, t) = None => claim[t.op] = None
           /\ ClaimAnswer(m, t) = "REPLAY" =>
                 claim[t.op] # None /\ claim[t.op].cmd = t.cmd /\ claim[t.op].state # "IN_PROGRESS"
<1>1. None \notin {"KEY_REUSED", "NOT_FOUND", "CONFLICT", "REPLAY"}
  BY Constants DEF Codes
<1> QED
  BY <1>1 DEF ClaimAnswer

LEMMA ClaimKeeps ==
    ASSUME IInv, NEW m \in Members, Claim(m)
    PROVE  IInv'
<1>1. PICK t \in Request : t = tx[m]
  BY OpenRequest DEF Claim
<1>2. RequestOK(m, t) /\ t.pc = "claim" /\ tx[m] # Idle
  BY <1>1, OpenRequest DEF Claim
<1>3. t.effect = None /\ Named(t) /\ t.claim = None /\ t.cmd.kind \in Idempotent
      /\ Permitted(m, t.cmd.kind) /\ t.reply # "REPLAY_UNAVAILABLE"
  BY <1>2 DEF RequestOK, Stage
<1>4. t.op \in Ops /\ t.op # None /\ t.cmd \in Command /\ t.cmd.kind # "UPDATE"
  BY <1>3, Constants DEF Named, Request, Idempotent, LifecycleKinds, DecisionKinds, ReviewKinds
<1>5. /\ Take(m, {t.op}) /\ \A x \in {t.op} : Free(m, x)
      /\ lock \in [Lockable -> Members \cup {None}]
      /\ UNCHANGED <<ledgerVars, enabled, claim, minted, effects>>
  BY <1>1 DEF Claim, Untouched, IInv
<1>6. /\ lock' \in [Lockable -> Members \cup {None}]
      /\ \A x \in Lockable : lock'[x] # m => lock'[x] = lock[x]
      /\ \A x \in Lockable : lock'[x] = m => lock[x] \in {None, m}
      /\ \A x \in Lockable : x \in {t.op} \/ lock[x] = m => lock'[x] = m
  BY <1>5, TakeKeeps
<1>7. lock'[t.op] = m /\ claim' = claim /\ category' = category /\ event' = event
  BY <1>4, <1>5, <1>6 DEF Lockable, ledgerVars
<1>8. PICK u : /\ tx' = [tx EXCEPT ![m] = u]
               /\ \/ /\ \/ ClaimAnswer(m, t) = None
                        \/ ClaimAnswer(m, t) = "REPLAY" /\ "EXPIRE" \in Disturbances
                     /\ u = [t EXCEPT !.pc = "apply", !.claim = ClaimRow(m, t, "IN_PROGRESS", None, None)]
                  \/ /\ ClaimAnswer(m, t) \notin {None, "REPLAY"}
                     /\ u = Answer(t, ClaimAnswer(m, t))
                  \/ /\ ClaimAnswer(m, t) = "REPLAY"
                     /\ u = Answer(t, ReplayAnswer(claim[t.op]))
  BY <1>1 DEF Claim, Step
<1>9. RequestOK(m, u)' /\ Draws(u) = Draws(t)
  <2>1. ASSUME NEW code \in Codes \cup {None}, code # "REPLAY_UNAVAILABLE", u = Answer(t, code)
        PROVE  RequestOK(m, u)' /\ Draws(u) = Draws(t)
    <3>1. /\ u \in Request /\ u.op = t.op /\ u.cmd = t.cmd /\ u.version = t.version /\ u.new = t.new
          /\ u.pc = "respond" /\ u.effect = None /\ u.reply = code /\ u.claim = None
      BY <1>3, <2>1 DEF Answer, Request, Steps
    <3>2. Claimed(m, u)'
      BY <3>1 DEF Claimed
    <3> QED
      BY <1>3, <1>5, <2>1, <3>1, <3>2, AnswerOK DEF Draws
  <2>2. CASE ClaimAnswer(m, t) \notin {None, "REPLAY"} /\ u = Answer(t, ClaimAnswer(m, t))
    <3>1. PICK code \in {"KEY_REUSED", "NOT_FOUND", "CONFLICT"} : code = ClaimAnswer(m, t)
      BY <1>4, <2>2, ClaimAnswers
    <3>2. code \in Codes \cup {None} /\ code # "REPLAY_UNAVAILABLE"
      BY DEF Codes
    <3> QED
      BY <2>1, <2>2, <3>1, <3>2
  <2>3. CASE ClaimAnswer(m, t) = "REPLAY" /\ u = Answer(t, ReplayAnswer(claim[t.op]))
    <3>1. claim[t.op] # None /\ claim[t.op].state # "IN_PROGRESS"
      BY <1>4, <2>3, ClaimAnswers
    <3>2. PICK code \in Codes \cup {None} :
              code = ReplayAnswer(claim[t.op]) /\ code # "REPLAY_UNAVAILABLE"
      BY <1>4, <3>1, ReplayFinds
    <3> QED
      BY <2>1, <2>3, <3>2
  <2>4. CASE /\ \/ ClaimAnswer(m, t) = None
                \/ ClaimAnswer(m, t) = "REPLAY" /\ "EXPIRE" \in Disturbances
             /\ u = [t EXCEPT !.pc = "apply", !.claim = ClaimRow(m, t, "IN_PROGRESS", None, None)]
    <3>1. PICK c \in ClaimRows : c = ClaimRow(m, t, "IN_PROGRESS", None, None)
      BY <1>4 DEF ClaimRow, ClaimRows, ClaimStates
    <3>2. c # None /\ c.actor = m /\ c.cmd = t.cmd /\ c.state = "IN_PROGRESS"
      BY <3>1, Constants DEF ClaimRow
    <3>3. u = [t EXCEPT !.pc = "apply", !.claim = c]
      BY <2>4, <3>1
    <3>4. /\ u \in Request /\ u.op = t.op /\ u.cmd = t.cmd /\ u.version = t.version /\ u.new = t.new
          /\ u.pc = "apply" /\ u.effect = None /\ u.reply = t.reply /\ u.claim = c
      BY <1>3, <3>3 DEF Request, Steps
    <3>5. Named(u)' /\ Draws(u) = Draws(t)
      BY <1>3, <1>5, <3>4, SameNames
    <3>6. Stage(m, u)'
      BY <1>3, <3>2, <3>4 DEF Stage
    <3>7. claim[t.op] = None \/ ("EXPIRE" \in Disturbances /\ claim[t.op].cmd = t.cmd)
      BY <1>4, <2>4, ClaimAnswers
    <3>8. Claimed(m, u)'
      BY <1>4, <1>7, <3>2, <3>4, <3>7 DEF Claimed
    <3>9. Validated(m, u)'
      <4>1. SUFFICES ASSUME t.cmd.category # None
                     PROVE  /\ lock'[t.cmd.category] = m
                            /\ category'[t.cmd.category].status = "ACTIVE"
                            /\ CategoryFits(u)'
        BY <3>4 DEF Validated
      <4>2. /\ lock[t.cmd.category] = m
            /\ category[t.cmd.category].status = "ACTIVE"
            /\ CategoryFits(t)
        BY <1>2, <1>4, <4>1 DEF RequestOK, Validated
      <4>3. t.cmd.category \in Lockable
        BY <1>3, <4>1, WhoSelects DEF Lockable
      <4> QED
        BY <1>6, <1>7, <3>4, <4>2, <4>3 DEF CategoryFits, Ledger!Fits
    <3> QED
      BY <1>3, <3>4, <3>5, <3>6, <3>8, <3>9 DEF RequestOK, Request, Checked, Written
  <2> QED
    BY <1>8, <2>2, <2>3, <2>4
<1>10. u # Idle
  BY <1>9, IdleIsNoRequest DEF RequestOK, Request, Idle
<1>11. Draws(u) = Draws(tx[m])
  BY <1>1, <1>9 DEF Draws
<1>12. OwnStep(m, u)
  BY <1>2, <1>5, <1>6, <1>8, <1>10, <1>11 DEF OwnStep, IInv
<1> QED
  BY <1>9, <1>12, OwnStepKeeps

\* The rows a request checks can be locked.
LEMMA RowsLockable ==
    ASSUME Ledger!TypeOK, NEW t \in Request, Named(t)
    PROVE  RowsOf(t.cmd) \subseteq Lockable
<1>1. t.cmd \in Command /\ t.cmd.kind \in Kinds /\ TargetExists(t.cmd)
  BY DEF Request, Command, Named
<1> QED
  BY <1>1, TargetRow DEF RowsOf, Lockable, Ledger!TypeOK, Ledger!ReviewRow, Command, Ledger!Resources

\* A refusal keeps the claim it has, drops it, or fails it.
Refusal(t, code, c) == [t EXCEPT !.pc = "respond", !.reply = code, !.claim = c]

LEMMA RefusalOK ==
    ASSUME UNCHANGED <<ledgerVars, claim>>, NEW m \in Members, NEW t \in Request, RequestOK(m, t),
           t.effect = None, \A x \in Lockable : lock[x] = m => lock'[x] = m,
           NEW code \in {"OK", "NOT_FOUND", "VERSION_MISMATCH", "INVALID_STATE", "DUPLICATE",
                         "INVALID_CATEGORY", "INTERNAL_ERROR"},
           NEW c, \/ c = None \/ c = t.claim
                  \/ /\ code \in {"NOT_FOUND", "VERSION_MISMATCH", "INVALID_STATE"}
                     /\ t.claim # None /\ c = ClaimRow(m, t, "FAILED", code, None),
           NEW u, u = Refusal(t, code, c)
    PROVE  RequestOK(m, u)' /\ Draws(u) = Draws(t)
<1>1. t.op \in Ops \cup {None} /\ t.claim \in ClaimRows \cup {None} /\ t.cmd \in Command
  BY DEF Request
<1>2. c \in ClaimRows \cup {None}
  BY <1>1 DEF ClaimRow, ClaimRows, ClaimStates
<1>3. /\ u \in Request /\ u.op = t.op /\ u.cmd = t.cmd /\ u.version = t.version /\ u.new = t.new
      /\ u.pc = "respond" /\ u.effect = None /\ u.reply = code /\ u.claim = c
  <2>1. code \in Codes
    BY DEF Codes
  <2> QED
    BY <1>2, <2>1 DEF Refusal, Request, Steps
<1>4. Named(t) /\ Claimed(m, t)
  BY DEF RequestOK
<1>5. Claimed(m, u)'
  <2>1. SUFFICES ASSUME c # None
                 PROVE  /\ t.op # None /\ lock'[t.op] = m
                        /\ c.actor = m /\ c.cmd = t.cmd
                        /\ c.state # "COMPLETED"
                        /\ claim'[t.op] = None \/ ("EXPIRE" \in Disturbances /\ claim'[t.op].cmd = t.cmd)
    BY <1>3 DEF Claimed, Resource
  <2>2. t.claim # None
    BY <2>1
  <2>3. /\ t.op # None /\ lock[t.op] = m
        /\ t.claim.actor = m /\ t.claim.cmd = t.cmd /\ t.claim.state # "COMPLETED"
        /\ claim[t.op] = None \/ ("EXPIRE" \in Disturbances /\ claim[t.op].cmd = t.cmd)
    BY <1>4, <2>2 DEF Claimed
  <2>4. lock'[t.op] = m
    BY <1>1, <2>3 DEF Lockable
  <2>5. c.actor = m /\ c.cmd = t.cmd /\ c.state # "COMPLETED"
    BY <2>1, <2>3 DEF ClaimRow
  <2> QED
    BY <2>3, <2>4, <2>5
<1>6. code # "REPLAY_UNAVAILABLE"
  OBVIOUS
<1> QED
  BY <1>3, <1>4, <1>5, <1>6, AnswerOK DEF Draws

LEMMA ApplyKeeps ==
    ASSUME IInv, NEW m \in Members, Apply(m)
    PROVE  IInv'
<1>1. PICK t \in Request : t = tx[m]
  BY OpenRequest DEF Apply
<1>2. RequestOK(m, t) /\ t.pc = "apply" /\ tx[m] # Idle
  BY <1>1, OpenRequest DEF Apply
<1>3. t.effect = None /\ Named(t) /\ Permitted(m, t.cmd.kind) /\ t.reply # "REPLAY_UNAVAILABLE"
  BY <1>2 DEF RequestOK, Stage
<1>4. /\ Take(m, LockedRows(m, t.cmd)) /\ \A x \in LockedRows(m, t.cmd) : Free(m, x)
      /\ lock \in [Lockable -> Members \cup {None}]
      /\ UNCHANGED <<ledgerVars, enabled, claim, minted, effects>>
  BY <1>1 DEF Apply, Untouched, IInv
<1>5. /\ lock' \in [Lockable -> Members \cup {None}]
      /\ \A x \in Lockable : lock'[x] # m => lock'[x] = lock[x]
      /\ \A x \in Lockable : lock'[x] = m => lock[x] \in {None, m}
      /\ \A x \in Lockable : x \in LockedRows(m, t.cmd) \/ lock[x] = m => lock'[x] = m
  BY <1>4, TakeKeeps
<1>6. PICK u : /\ tx' = [tx EXCEPT ![m] = u]
               /\ u = IF Verdict(m, t) # "OK" THEN Refused(m, t, Verdict(m, t))
                      ELSE IF t.cmd.kind = "UPDATE" THEN [t EXCEPT !.pc = "select"]
                      ELSE Conclude(m, t)
  BY <1>1 DEF Apply, Step
<1>7. Verdict(m, t) \in {"NOT_FOUND", "VERSION_MISMATCH", "INVALID_STATE", "OK"}
  BY DEF Verdict
<1>8. Verdict(m, t) = "OK" =>
          /\ enabled /\ Found(m, t.cmd) /\ StateAllows(t.cmd)
          /\ t.version # None => RowOf(t.cmd).version = t.version
          /\ LockedRows(m, t.cmd) = RowsOf(t.cmd)
  BY DEF Verdict, LockedRows, RowsOf
<1>9. Verdict(m, t) = "OK" => \A x \in RowsOf(t.cmd) : lock'[x] = m
  BY <1>3, <1>5, <1>8, RowsLockable DEF IInv
<1>10. category' = category /\ event' = event /\ review' = review
  BY <1>4 DEF ledgerVars
<1>15. UNCHANGED <<ledgerVars, claim>>
  BY <1>4
<1>16. \A x \in Lockable : lock[x] = m => lock'[x] = m
  BY <1>5
<1>11. RequestOK(m, u)' /\ Draws(u) = Draws(t)
  <2>1. CASE Verdict(m, t) # "OK"
    <3>1. PICK code \in {"NOT_FOUND", "VERSION_MISMATCH", "INVALID_STATE"} : code = Verdict(m, t)
      BY <1>7, <2>1
    <3>2. PICK c : c = IF t.claim = None \/ t.cmd.kind = "CREATE" THEN t.claim
                       ELSE ClaimRow(m, t, "FAILED", code, None)
      OBVIOUS
    <3>3. u = Refusal(t, code, c)
      BY <1>6, <2>1, <3>1, <3>2 DEF Refused, Answer, Refusal, Request
    <3>4. \/ c = None \/ c = t.claim
          \/ /\ code \in {"NOT_FOUND", "VERSION_MISMATCH", "INVALID_STATE"}
             /\ t.claim # None /\ c = ClaimRow(m, t, "FAILED", code, None)
      BY <3>2
    <3>5. code \in {"OK", "NOT_FOUND", "VERSION_MISMATCH", "INVALID_STATE", "DUPLICATE",
                              "INVALID_CATEGORY", "INTERNAL_ERROR"}
      OBVIOUS
    <3>6. t.effect = None
      BY <1>3
    <3> QED
      BY <1>2, <1>15, <1>16, <3>3, <3>4, <3>5, <3>6, RefusalOK
  <2>2. CASE Verdict(m, t) = "OK" /\ t.cmd.kind = "UPDATE"
    <3>1. u = [t EXCEPT !.pc = "select"]
      BY <1>6, <2>2
    <3>2. /\ u \in Request /\ u.op = t.op /\ u.cmd = t.cmd /\ u.version = t.version /\ u.new = t.new
          /\ u.pc = "select" /\ u.effect = None /\ u.reply = t.reply /\ u.claim = t.claim
      BY <1>3, <3>1 DEF Request, Steps
    <3>3. Named(u)' /\ Draws(u) = Draws(t)
      BY <1>3, <1>4, <3>2, SameNames
    <3>4. t.claim = None
      BY <1>2, <2>2, Constants DEF RequestOK, Named, Claimed, Idempotent, LifecycleKinds, DecisionKinds, ReviewKinds
    <3>5. Stage(m, u)'
      BY <1>3, <2>2, <3>2 DEF Stage
    <3>6. Checked(m, u)'
      <4>1. RowsOf(u.cmd)' = RowsOf(t.cmd) /\ RowOf(u.cmd)' = RowOf(t.cmd)
        BY <1>10, <3>2 DEF RowsOf, RowOf
      <4>2. Found(m, u.cmd)'
        BY <1>8, <1>10, <2>2, <3>2 DEF Found
      <4>3. StateAllows(u.cmd)'
        BY <1>8, <2>2, <3>2, <4>1 DEF StateAllows
      <4> QED
        BY <1>8, <1>9, <2>2, <3>2, <4>1, <4>2, <4>3 DEF Checked
    <3> QED
      BY <1>3, <3>2, <3>3, <3>4, <3>5, <3>6 DEF RequestOK, Request, Claimed, Validated, Written
  <2>3. CASE Verdict(m, t) = "OK" /\ t.cmd.kind # "UPDATE" /\ NameTaken(t)
    <3>1. PICK c : c = t.claim
      OBVIOUS
    <3>2. u = Answer(t, "DUPLICATE")
      BY <1>6, <2>3 DEF Conclude
    <3>3. PICK code \in {"OK", "NOT_FOUND", "VERSION_MISMATCH", "INVALID_STATE", "DUPLICATE",
                              "INVALID_CATEGORY", "INTERNAL_ERROR"} : code = "DUPLICATE"
      OBVIOUS
    <3>4. u = Refusal(t, code, c)
      BY <3>1, <3>2, <3>3 DEF Answer, Refusal, Request
    <3>5. \/ c = None \/ c = t.claim
          \/ /\ code \in {"NOT_FOUND", "VERSION_MISMATCH", "INVALID_STATE"}
             /\ t.claim # None /\ c = ClaimRow(m, t, "FAILED", code, None)
      BY <3>1
    <3>6. t.effect = None
      BY <1>3
    <3> QED
      BY <1>2, <1>15, <1>16, <3>4, <3>5, <3>6, RefusalOK
  <2>4. CASE Verdict(m, t) = "OK" /\ t.cmd.kind # "UPDATE" /\ ~NameTaken(t) /\ DatabaseRefuses(m, t)
    <3>1. PICK c : c = None
      OBVIOUS
    <3>2. u = RolledBack(t)
      BY <1>6, <2>4 DEF Conclude
    <3>3. PICK code \in {"OK", "NOT_FOUND", "VERSION_MISMATCH", "INVALID_STATE", "DUPLICATE",
                              "INVALID_CATEGORY", "INTERNAL_ERROR"} : code = "INTERNAL_ERROR"
      OBVIOUS
    <3>4. u = Refusal(t, code, c)
      BY <3>1, <3>2, <3>3 DEF Answer, Refusal, RolledBack
    <3>5. \/ c = None \/ c = t.claim
          \/ /\ code \in {"NOT_FOUND", "VERSION_MISMATCH", "INVALID_STATE"}
             /\ t.claim # None /\ c = ClaimRow(m, t, "FAILED", code, None)
      BY <3>1
    <3>6. t.effect = None
      BY <1>3
    <3> QED
      BY <1>2, <1>15, <1>16, <3>4, <3>5, <3>6, RefusalOK
  <2>5. CASE Verdict(m, t) = "OK" /\ t.cmd.kind # "UPDATE" /\ ~NameTaken(t) /\ ~DatabaseRefuses(m, t)
    <3>1. u = Performed(m, t)
      BY <1>6, <2>5 DEF Conclude
    <3>2. /\ t.pc \in {"apply", "select"}
          /\ t.cmd.kind = "UPDATE" =>
               lock'[t.cmd.category] = m /\ category[t.cmd.category].status = "ACTIVE" /\ CategoryFits(t)
          /\ t.cmd.kind = "UPDATE" \/ t.pc = "apply"
          /\ \A x \in RowsOf(t.cmd) : lock'[x] = m
          /\ Found(m, t.cmd) /\ (t.version # None => RowOf(t.cmd).version = t.version)
          /\ StateAllows(t.cmd) /\ ~NameTaken(t) /\ ~DatabaseRefuses(m, t)
      BY <1>2, <1>8, <1>9, <2>5
    <3>3. Ledger!TypeOK /\ UNCHANGED <<ledgerVars, claim, minted, effects>>
          /\ \A x \in Lockable : lock[x] = m => lock'[x] = m
      BY <1>4, <1>5 DEF IInv
    <3> QED
      BY <1>2, <3>1, <3>2, <3>3, PerformedOK
  <2> QED
    BY <2>1, <2>2, <2>3, <2>4, <2>5
<1>12. u # Idle
  BY <1>11, IdleIsNoRequest DEF RequestOK, Request, Idle
<1>13. Draws(u) = Draws(tx[m])
  BY <1>1, <1>11 DEF Draws
<1>14. OwnStep(m, u)
  BY <1>2, <1>4, <1>5, <1>6, <1>12, <1>13 DEF OwnStep, IInv
<1> QED
  BY <1>11, <1>14, OwnStepKeeps

LEMMA SelectCategoryKeeps ==
    ASSUME IInv, NEW m \in Members, SelectCategory(m)
    PROVE  IInv'
<1>1. PICK t \in Request : t = tx[m]
  BY OpenRequest DEF SelectCategory
<1>2. RequestOK(m, t) /\ t.pc = "select" /\ tx[m] # Idle
  BY <1>1, OpenRequest DEF SelectCategory
<1>3. /\ t.effect = None /\ Named(t) /\ t.cmd.kind = "UPDATE"
      /\ t.pc \in {"apply", "select"} /\ (t.cmd.kind = "UPDATE" \/ t.pc = "apply")
  BY <1>2 DEF RequestOK, Stage
<1>4. t.cmd.category \in Categories
  BY <1>3, WhoSelects
<1>5. PICK rows : rows = {c \in {t.cmd.category} : category[c].status = "ACTIVE"}
  OBVIOUS
<1>6. /\ Take(m, rows) /\ \A x \in rows : Free(m, x)
      /\ lock \in [Lockable -> Members \cup {None}]
      /\ UNCHANGED <<ledgerVars, enabled, claim, minted, effects>>
  BY <1>1, <1>5 DEF SelectCategory, Untouched, IInv
<1>7. /\ lock' \in [Lockable -> Members \cup {None}]
      /\ \A x \in Lockable : lock'[x] # m => lock'[x] = lock[x]
      /\ \A x \in Lockable : lock'[x] = m => lock[x] \in {None, m}
      /\ \A x \in Lockable : x \in rows \/ lock[x] = m => lock'[x] = m
  BY <1>6, TakeKeeps
<1>8. UNCHANGED <<ledgerVars, claim>> /\ UNCHANGED <<ledgerVars, claim, minted, effects>> /\ Ledger!TypeOK
  BY <1>6 DEF IInv
<1>9. \A x \in Lockable : lock[x] = m => lock'[x] = m
  BY <1>7
<1>10. PICK u : /\ tx' = [tx EXCEPT ![m] = u]
                /\ u = IF category[t.cmd.category].status # "ACTIVE" THEN Answer(t, "NOT_FOUND")
                       ELSE IF ~CategoryFits(t) THEN Answer(t, "INVALID_CATEGORY")
                       ELSE Performed(m, t)
  BY <1>1 DEF SelectCategory, Step
<1>11. RequestOK(m, u)' /\ Draws(u) = Draws(t)
  <2>1. CASE \E code \in {"NOT_FOUND", "INVALID_CATEGORY"} : u = Answer(t, code)
    <3>1. PICK code \in {"OK", "NOT_FOUND", "VERSION_MISMATCH", "INVALID_STATE", "DUPLICATE",
                         "INVALID_CATEGORY", "INTERNAL_ERROR"} : u = Answer(t, code)
      BY <2>1
    <3>2. PICK c : c = t.claim
      OBVIOUS
    <3>3. u = Refusal(t, code, c)
      BY <3>1, <3>2 DEF Answer, Refusal, Request
    <3>4. \/ c = None \/ c = t.claim
          \/ /\ code \in {"NOT_FOUND", "VERSION_MISMATCH", "INVALID_STATE"}
             /\ t.claim # None /\ c = ClaimRow(m, t, "FAILED", code, None)
      BY <3>2
    <3>5. t.effect = None
      BY <1>3
    <3>6. UNCHANGED <<ledgerVars, claim>>
      BY <1>8
    <3> QED
      BY <1>2, <1>9, <3>3, <3>4, <3>5, <3>6, RefusalOK
  <2>2. CASE category[t.cmd.category].status = "ACTIVE" /\ CategoryFits(t) /\ u = Performed(m, t)
    <3>1. t.cmd.category \in rows
      BY <1>5, <2>2
    <3>2. lock'[t.cmd.category] = m
      BY <1>4, <1>7, <3>1 DEF Lockable
    <3>3. t.cmd.kind = "UPDATE" =>
              lock'[t.cmd.category] = m /\ category[t.cmd.category].status = "ACTIVE" /\ CategoryFits(t)
      BY <2>2, <3>2
    <3>4. /\ \A x \in RowsOf(t.cmd) : lock[x] = m
          /\ Found(m, t.cmd) /\ (t.version # None => RowOf(t.cmd).version = t.version)
          /\ StateAllows(t.cmd)
      BY <1>2 DEF RequestOK, Checked
    <3>5. \A x \in RowsOf(t.cmd) : lock'[x] = m
      BY <1>3, <1>8, <1>9, <3>4, RowsLockable
    <3>6. ~NameTaken(t) /\ ~DatabaseRefuses(m, t)
      BY <1>3 DEF NameTaken, DatabaseRefuses, Mints, ReviewKinds
    <3>7. u = Performed(m, t) /\ UNCHANGED <<ledgerVars, claim, minted, effects>>
      BY <1>8, <2>2
    <3> QED
      BY <1>2, <1>3, <1>8, <1>9, <3>3, <3>4, <3>5, <3>6, <3>7, PerformedOK
  <2> QED
    BY <1>10, <2>1, <2>2
<1>12. u # Idle
  BY <1>11, IdleIsNoRequest DEF RequestOK, Request, Idle
<1>13. Draws(u) = Draws(tx[m])
  BY <1>1, <1>11 DEF Draws
<1>14. OwnStep(m, u)
  BY <1>2, <1>6, <1>7, <1>10, <1>12, <1>13 DEF OwnStep, IInv
<1> QED
  BY <1>11, <1>14, OwnStepKeeps

\* The identifiers drawn for a command are those it needs.
LEMMA NewIdsFresh ==
    ASSUME Ledger!TypeOK, NEW body \in Body, NEW new \in NewIds(body)
    PROVE  /\ new \in Seq(Ledger!Resources)
           /\ body.kind = "CREATE_CATEGORY" =>
                 \E x \in DOMAIN category \ Drawn : category[x] = None /\ new = <<x>>
           /\ body.kind \in {"CREATE", "REVERSE"} \/ (body.kind = "CORRECT" /\ body.amount = None) =>
                 \E x \in DOMAIN event \ Drawn : event[x] = None /\ new = <<x>>
           /\ body.kind = "CORRECT" /\ body.amount # None =>
                 \E x, y \in DOMAIN event \ Drawn :
                     event[x] = None /\ event[y] = None /\ x # y /\ new = <<x, y>>
           /\ body.kind \in ReviewKinds =>
                 \E x \in DOMAIN review \ Drawn : review[x] = None /\ new = <<x>>
           /\ body.kind \notin {"CREATE_CATEGORY", "CREATE", "REVERSE", "CORRECT"} \cup ReviewKinds =>
                 new = <<>>
<1>1. /\ DOMAIN category = Categories /\ DOMAIN event = Events /\ DOMAIN review = Reviews
  BY DEF Ledger!TypeOK
<1>2. body.kind = "CREATE_CATEGORY" =>
          \E x \in DOMAIN category \ Drawn : category[x] = None /\ new = <<x>>
  BY DEF NewIds, Existing, ReviewKinds
<1>3. body.kind \in {"CREATE", "REVERSE"} \/ (body.kind = "CORRECT" /\ body.amount = None) =>
          \E x \in DOMAIN event \ Drawn : event[x] = None /\ new = <<x>>
  BY DEF NewIds, Existing, ReviewKinds
<1>4. body.kind = "CORRECT" /\ body.amount # None =>
          \E x, y \in DOMAIN event \ Drawn :
              event[x] = None /\ event[y] = None /\ x # y /\ new = <<x, y>>
  <2>1. SUFFICES ASSUME body.kind = "CORRECT", body.amount # None
                 PROVE  \E x, y \in DOMAIN event \ Drawn :
                            event[x] = None /\ event[y] = None /\ x # y /\ new = <<x, y>>
    OBVIOUS
  <2>2. PICK F : F = DOMAIN event \ (Existing(event) \cup Drawn)
    OBVIOUS
  <2>3. new \in {pair \in F \X F : pair[1] # pair[2]}
    BY <2>1, <2>2 DEF NewIds, ReviewKinds
  <2>4. PICK x \in F, y \in F : x # y /\ new = <<x, y>>
    BY <2>3
  <2> QED
    BY <2>2, <2>4 DEF Existing
<1>5. body.kind \in ReviewKinds =>
          \E x \in DOMAIN review \ Drawn : review[x] = None /\ new = <<x>>
  BY DEF NewIds, Existing, ReviewKinds
<1>6. body.kind \notin {"CREATE_CATEGORY", "CREATE", "REVERSE", "CORRECT"} \cup ReviewKinds => new = <<>>
  BY DEF NewIds, ReviewKinds
<1>7. \A x \in Ledger!Resources : <<x>> \in Seq(Ledger!Resources)
  OBVIOUS
<1>8. \A x, y \in Ledger!Resources : <<x, y>> \in Seq(Ledger!Resources)
  OBVIOUS
<1>9. <<>> \in Seq(Ledger!Resources)
  OBVIOUS
<1>10. new \in Seq(Ledger!Resources)
  <2>1. \/ new = <<>>
        \/ \E x \in Ledger!Resources : new = <<x>>
        \/ \E x, y \in Ledger!Resources : new = <<x, y>>
    <3>1. CASE body.kind = "CREATE_CATEGORY"
      BY <1>1, <1>2, <3>1, Constants
    <3>2. CASE body.kind \in {"CREATE", "REVERSE"} \/ (body.kind = "CORRECT" /\ body.amount = None)
      BY <1>1, <1>3, <3>2, Constants
    <3>3. CASE body.kind = "CORRECT" /\ body.amount # None
      BY <1>1, <1>4, <3>3, Constants
    <3>4. CASE body.kind \in ReviewKinds
      BY <1>1, <1>5, <3>4, Constants
    <3> QED
      BY <1>6, <3>1, <3>2, <3>3, <3>4
  <2> QED
    BY <1>7, <1>8, <1>9, <2>1
<1> QED
  BY <1>2, <1>3, <1>4, <1>5, <1>6, <1>10

\* A request as it is sent, and the transaction that begins with it.
CommandOf(body, x, c) == [body |-> body, kind |-> body.kind, target |-> x, category |-> c]
Begun(m, op, cmd, v, new) ==
    [pc |-> FirstStep(m, cmd), op |-> op, cmd |-> cmd, version |-> v, new |-> new,
     claim |-> None, effect |-> None,
     reply |-> IF Permitted(m, cmd.kind) THEN None ELSE "PERMISSION_DENIED"]

LEMMA BeginKeeps ==
    ASSUME IInv, NEW m \in Members, Begin(m)
    PROVE  IInv'
<1>1. PICK q \in Requests[m] :
      \E x \in Targets(q[2].kind),
         c \in IF SelectsCategory(q[2]) THEN Existing(category) ELSE {None},
         new \in NewIds(q[2]) :
      \E v \in Preconditions(CommandOf(q[2], x, c)) :
          tx' = [tx EXCEPT ![m] = Begun(m, q[1], CommandOf(q[2], x, c), v, new)]
  BY DEF Begin, CommandOf, Begun
<1>2. PICK op, body : op = q[1] /\ body = q[2]
  OBVIOUS
<1>3. /\ op \in Ops \cup {None} /\ body \in Body
      /\ WellFormed(body) /\ (op # None <=> body.kind \in Idempotent)
  BY <1>2, CommandsAssumption
<1>4. PICK x \in Targets(body.kind),
           c \in IF SelectsCategory(body) THEN Existing(category) ELSE {None},
           new \in NewIds(body) :
      \E v \in Preconditions(CommandOf(body, x, c)) :
          tx' = [tx EXCEPT ![m] = Begun(m, op, CommandOf(body, x, c), v, new)]
  BY <1>1, <1>2
<1>5. PICK cmd : cmd = CommandOf(body, x, c)
  OBVIOUS
<1>6. PICK v \in Preconditions(cmd) : tx' = [tx EXCEPT ![m] = Begun(m, op, cmd, v, new)]
  BY <1>4, <1>5
<1>7. PICK u : u = Begun(m, op, cmd, v, new)
  OBVIOUS
<1>8. tx' = [tx EXCEPT ![m] = u]
  BY <1>6, <1>7
<1>9. /\ UNCHANGED <<ledgerVars, enabled, claim, minted, effects, lock>>
      /\ tx[m] = Idle
      /\ Ledger!TypeOK
  BY OpenRequest DEF Begin, IInv
<1>10. /\ DOMAIN category = Categories /\ DOMAIN event = Events /\ DOMAIN review = Reviews
  BY <1>9 DEF Ledger!TypeOK
<1>11. cmd.body = body /\ cmd.kind = body.kind /\ cmd.target = x /\ cmd.category = c /\ body.kind \in Kinds
  BY <1>3, <1>5 DEF Body, CommandOf
<1>12. TargetExists(cmd) /\ x \in Ledger!Resources \cup {None}
  BY <1>4, <1>10, <1>11, Constants DEF Targets, Existing, TargetExists
<1>13. IF SelectsCategory(body) THEN c \in Categories /\ category[c] # None ELSE c = None
  BY <1>4, <1>10 DEF Existing
<1>14. cmd \in Command
  BY <1>3, <1>5, <1>12, <1>13 DEF Command, Body, CommandOf
<1>15. IF cmd.kind \in Conditional
       THEN v \in Nat /\ (cmd.kind \in {"UPDATE", "RENAME_CATEGORY"} => v < MaxVersion)
       ELSE v = None
  <2>1. CASE cmd.kind \notin Conditional
    BY <1>6, <2>1 DEF Preconditions
  <2>2. CASE cmd.kind \in Conditional
    <3>1. v \in 1 .. RowOf(cmd).version /\ (cmd.kind \in {"UPDATE", "RENAME_CATEGORY"} => v < MaxVersion)
      BY <1>6, <2>2 DEF Preconditions
    <3>2. RowOf(cmd) \in Ledger!CategoryRow \cup Ledger!EventRow \cup Ledger!ReviewRow
      BY <1>9, <1>12, <1>14, <2>2, TargetRow DEF Conditional, LifecycleKinds, Ledger!TypeOK
    <3>3. RowOf(cmd).version \in Nat
      BY <3>2 DEF Ledger!CategoryRow, Ledger!EventRow, Ledger!ReviewRow, Ledger!Version
    <3> QED
      BY <2>2, <3>1, <3>3
  <2> QED
    BY <2>1, <2>2
<1>16. FirstStep(m, cmd) \in {"category", "claim", "apply", "respond"}
  BY DEF FirstStep
<1>17. /\ u.pc = FirstStep(m, cmd) /\ u.op = op /\ u.cmd = cmd /\ u.version = v /\ u.new = new
       /\ u.claim = None /\ u.effect = None
       /\ u.reply = IF Permitted(m, body.kind) THEN None ELSE "PERMISSION_DENIED"
  BY <1>7, <1>11 DEF Begun
<1>18. u \in Request
  <2>1. new \in Seq(Ledger!Resources)
    BY <1>3, <1>4, <1>9, NewIdsFresh
  <2>2. v \in Nat \cup {None}
    BY <1>15
  <2>3. FirstStep(m, cmd) \in Steps
    BY <1>16 DEF Steps
  <2>4. (IF Permitted(m, body.kind) THEN None ELSE "PERMISSION_DENIED") \in Codes \cup {None}
    BY DEF Codes
  <2> QED
    BY <1>3, <1>7, <1>11, <1>14, <2>1, <2>2, <2>3, <2>4 DEF Begun, Request
<1>19. Named(u)
  <2>1. c = None => ~SelectsCategory(body)
    BY <1>13, Constants
  <2>2. body.kind = "CORRECT" => (c = None <=> body.amount = None)
    BY <1>13, <2>1 DEF SelectsCategory
  <2>3. DrawsFresh(u)
    BY <1>3, <1>4, <1>9, <1>11, <1>17, <2>2, NewIdsFresh
       DEF DrawsFresh, DrawsOne, DrawsTwo, ReviewKinds
  <2> QED
    BY <1>3, <1>11, <1>12, <1>13, <1>15, <1>17, <2>3 DEF Named
<1>20. Draws(u) \cap Drawn = {}
  <2>1. /\ body.kind = "CREATE_CATEGORY" => \E y \in DOMAIN category \ Drawn : u.new = <<y>>
        /\ body.kind \in {"CREATE", "REVERSE"} \/ (body.kind = "CORRECT" /\ body.amount = None) =>
              \E y \in DOMAIN event \ Drawn : u.new = <<y>>
        /\ body.kind = "CORRECT" /\ body.amount # None =>
              \E y, z \in DOMAIN event \ Drawn : u.new = <<y, z>>
        /\ body.kind \in ReviewKinds => \E y \in DOMAIN review \ Drawn : u.new = <<y>>
        /\ body.kind \notin {"CREATE_CATEGORY", "CREATE", "REVERSE", "CORRECT"} \cup ReviewKinds =>
              u.new = <<>>
    BY <1>3, <1>4, <1>9, <1>17, NewIdsFresh
  <2>2. CASE u.new = <<>>
    BY <2>2 DEF Draws
  <2>3. ASSUME NEW y, y \notin Drawn, u.new = <<y>> PROVE Draws(u) \cap Drawn = {}
    BY <2>3 DEF Draws
  <2>4. ASSUME NEW y, NEW z, y \notin Drawn, z \notin Drawn, u.new = <<y, z>>
        PROVE  Draws(u) \cap Drawn = {}
    BY <2>4 DEF Draws
  <2>5. \/ u.new = <<>>
        \/ \E y : y \notin Drawn /\ u.new = <<y>>
        \/ \E y, z : y \notin Drawn /\ z \notin Drawn /\ u.new = <<y, z>>
    BY <2>1
  <2> QED
    BY <2>2, <2>3, <2>4, <2>5
<1>21. \A n \in Members \ {m} : tx[n] # Idle => Draws(u) \cap Draws(tx[n]) = {}
  <2>1. \A n \in Members : tx[n] # Idle => Draws(tx[n]) \subseteq Drawn
    BY OpenRequest DEF Drawn
  <2> QED
    BY <1>20, <2>1
<1>22. Named(u)'
  BY <1>9, <1>18, <1>19, SameNames
<1>23. RequestOK(m, u)'
  <2>1. Stage(m, u)
    <3>1. op # None <=> cmd.kind \in Idempotent
      BY <1>3, <1>11
    <3>2. FirstStep(m, cmd) = "category" => cmd.kind # "UPDATE" /\ cmd.category # None
      BY DEF FirstStep
    <3>3. FirstStep(m, cmd) = "claim" => cmd.kind \in Idempotent
      BY DEF FirstStep
    <3>4. FirstStep(m, cmd) = "apply" => op = None
      BY <3>1 DEF FirstStep
    <3>5. FirstStep(m, cmd) # "respond" => Permitted(m, cmd.kind)
      BY DEF FirstStep
    <3> QED
      BY <1>16, <1>17, <3>2, <3>3, <3>4, <3>5 DEF Stage
  <2>2. u.pc \in {"claim", "apply"} /\ cmd.kind # "UPDATE" => cmd.category = None
    BY <1>17 DEF FirstStep
  <2>3. u.pc # "select"
    BY <1>16, <1>17
  <2>4. u.reply # "REPLAY_UNAVAILABLE"
    BY <1>17, Constants DEF Codes
  <2> QED
    BY <1>17, <1>18, <1>22, <2>1, <2>2, <2>3, <2>4
       DEF RequestOK, Request, Stage, Claimed, Validated, Checked, Written
<1>24. u # Idle
  BY <1>18, IdleIsNoRequest
<1>25. \A y \in Lockable : lock[y] # m
  BY <1>9, Constants DEF IInv
<1>26. OwnStep(m, u)
  BY <1>8, <1>9, <1>21, <1>24, <1>25 DEF OwnStep, IInv
<1> QED
  BY <1>23, <1>26, OwnStepKeeps

-----------------------------------------------------------------------------
(* The commit.                                                             *)

\* A commit with an effect installs what the command writes, and nothing else.
Installs(m, t) ==
    /\ category' = Install(category, t)
    /\ event' = Install(event, t)
    /\ review' = Install(review, t)
    /\ audit' = Ledger!Record(Resource(t), AuditAction(m, t.cmd.kind))

\* The rows the command changes and inserts.
LEMMA Installed ==
    ASSUME Ledger!TypeOK, NEW m \in Members, NEW t \in Request, RequestOK(m, t), t.effect # None,
           Installs(m, t), NEW x
    PROVE  /\ x \in Categories =>
                 category'[x] = IF x \in Draws(t) THEN InsertedRow(m, t, x)
                                ELSE IF t.cmd.kind \notin Inserting /\ x = t.cmd.target
                                     THEN RewrittenRow(t) ELSE category[x]
           /\ x \in Events =>
                 event'[x] = IF x \in Draws(t) THEN InsertedRow(m, t, x)
                             ELSE IF t.cmd.kind \notin Inserting /\ x = t.cmd.target
                                  THEN RewrittenRow(t) ELSE event[x]
           /\ x \in Reviews =>
                 review'[x] = IF x \in Draws(t) THEN InsertedRow(m, t, x)
                              ELSE IF t.cmd.kind \notin Inserting /\ x = t.cmd.target
                                   THEN RewrittenRow(t) ELSE review[x]
<1>1. t.effect = [rows |-> Writes(m, t), action |-> AuditAction(m, t.cmd.kind), resource |-> Resource(t)]
  BY DEF RequestOK, Written
<1>2. t.effect.rows = Writes(m, t)
  BY <1>1
<1>3. /\ DOMAIN category = Categories /\ DOMAIN event = Events /\ DOMAIN review = Reviews
  BY DEF Ledger!TypeOK
<1>4. x \in DOMAIN t.effect.rows <=> x \in Draws(t) \/ (t.cmd.kind \notin Inserting /\ x = t.cmd.target)
  BY <1>2 DEF Writes
<1>5. x \in DOMAIN t.effect.rows =>
          t.effect.rows[x] = IF x \in Draws(t) THEN InsertedRow(m, t, x) ELSE RewrittenRow(t)
  BY <1>2, <1>4 DEF Writes
<1>6. x \in Categories => category'[x] = IF x \in DOMAIN t.effect.rows THEN t.effect.rows[x] ELSE category[x]
  BY <1>3 DEF Installs, Install
<1>7. x \in Events => event'[x] = IF x \in DOMAIN t.effect.rows THEN t.effect.rows[x] ELSE event[x]
  BY <1>3 DEF Installs, Install
<1>8. x \in Reviews => review'[x] = IF x \in DOMAIN t.effect.rows THEN t.effect.rows[x] ELSE review[x]
  BY <1>3 DEF Installs, Install
<1> QED
  BY <1>4, <1>5, <1>6, <1>7, <1>8

\* Which table the changed row and the inserted rows belong to.
LEMMA InstalledWhere ==
    ASSUME Ledger!TypeOK, NEW m \in Members, NEW t \in Request, RequestOK(m, t)
    PROVE  /\ t.cmd.kind \notin Inserting => t.cmd.target \notin Draws(t)
           /\ \A x \in Categories :
                 /\ x \in Draws(t) => /\ t.cmd.kind = "CREATE_CATEGORY" /\ category[x] = None
                                      /\ InsertedRow(m, t, x) \in Ledger!CategoryRow
                 /\ t.cmd.kind \notin Inserting /\ x = t.cmd.target =>
                       /\ t.cmd.kind \in {"RENAME_CATEGORY", "ARCHIVE_CATEGORY"}
                       /\ category[x] # None /\ RowOf(t.cmd) = category[x]
                       /\ RewrittenRow(t) \in Ledger!CategoryRow
           /\ \A x \in Events :
                 /\ x \in Draws(t) => /\ t.cmd.kind \in {"CREATE", "REVERSE", "CORRECT"} /\ event[x] = None
                                      /\ InsertedRow(m, t, x) \in Ledger!EventRow
                 /\ t.cmd.kind \notin Inserting /\ x = t.cmd.target =>
                       /\ t.cmd.kind \in {"UPDATE"} \cup DecisionKinds \cup LifecycleKinds
                       /\ event[x] # None /\ RowOf(t.cmd) = event[x]
                       /\ RewrittenRow(t) \in Ledger!EventRow
           /\ \A x \in Reviews :
                 /\ x \in Draws(t) => /\ t.cmd.kind \in ReviewKinds /\ review[x] = None
                                      /\ InsertedRow(m, t, x) \in Ledger!ReviewRow
                 /\ t.cmd.kind \notin Inserting /\ x = t.cmd.target =>
                       /\ t.cmd.kind = "RESOLVE"
                       /\ review[x] # None /\ RowOf(t.cmd) = review[x]
                       /\ RewrittenRow(t) \in Ledger!ReviewRow
<1>1. /\ t.cmd \in Command /\ t.cmd.kind \in Kinds /\ Named(t) /\ TargetExists(t.cmd) /\ DrawsFresh(t)
  BY DEF RequestOK, Request, Command, Named
<1>2. \A x \in Draws(t) :
          \/ x \in Categories /\ category[x] = None
          \/ x \in Events /\ event[x] = None
          \/ x \in Reviews /\ review[x] = None
  BY <1>1, DrawsWhere
<1>3. \A x \in Draws(t) :
          /\ x \in Categories => t.cmd.kind = "CREATE_CATEGORY" /\ category[x] = None
          /\ x \in Reviews => t.cmd.kind \in ReviewKinds /\ review[x] = None
          /\ x \in Events => t.cmd.kind \in {"CREATE", "REVERSE", "CORRECT"} /\ event[x] = None
  BY <1>1, <1>2, DrawsWhere, Constants
<1>4. t.cmd.kind \notin Inserting =>
          \/ /\ t.cmd.kind \in {"RENAME_CATEGORY", "ARCHIVE_CATEGORY"}
             /\ t.cmd.target \in Categories /\ category[t.cmd.target] # None
             /\ RowOf(t.cmd) = category[t.cmd.target]
          \/ /\ t.cmd.kind \in {"UPDATE"} \cup DecisionKinds \cup LifecycleKinds
             /\ t.cmd.target \in Events /\ event[t.cmd.target] # None
             /\ RowOf(t.cmd) = event[t.cmd.target]
          \/ /\ t.cmd.kind = "RESOLVE"
             /\ t.cmd.target \in Reviews /\ review[t.cmd.target] # None
             /\ RowOf(t.cmd) = review[t.cmd.target]
  BY <1>1, TargetRow, KindCases DEF Inserting, ReviewKinds, DecisionKinds, LifecycleKinds
<1>5. t.cmd.kind \notin Inserting => t.cmd.target \notin Draws(t)
  BY <1>2, <1>4, Constants
<1>6. /\ t.cmd.kind \in {"RENAME_CATEGORY", "ARCHIVE_CATEGORY"} =>
                 RewrittenRow(t) \in Ledger!CategoryRow
      /\ t.cmd.kind \in {"UPDATE"} \cup DecisionKinds \cup LifecycleKinds =>
                 RewrittenRow(t) \in Ledger!EventRow
      /\ t.cmd.kind = "RESOLVE" => RewrittenRow(t) \in Ledger!ReviewRow
      /\ \A y \in Draws(t) :
            /\ t.cmd.kind = "CREATE_CATEGORY" => InsertedRow(m, t, y) \in Ledger!CategoryRow
            /\ t.cmd.kind \in {"CREATE", "REVERSE", "CORRECT"} =>
                  InsertedRow(m, t, y) \in Ledger!EventRow
            /\ t.cmd.kind \in ReviewKinds => InsertedRow(m, t, y) \in Ledger!ReviewRow
  BY <1>1, RowsTyped
<1> QED
  BY <1>3, <1>4, <1>5, <1>6, Constants

\* The tables keep their types.
LEMMA InstallsTyped ==
    ASSUME Ledger!TypeOK, NEW m \in Members, NEW t \in Request, RequestOK(m, t), t.effect # None,
           Installs(m, t)
    PROVE  Ledger!TypeOK'
<1>1. /\ DOMAIN category = Categories /\ DOMAIN event = Events /\ DOMAIN review = Reviews
      /\ audit \in [Ledger!Resources -> Seq(Ledger!AuditActions)]
  BY DEF Ledger!TypeOK
<1>2. category' \in [Categories -> Ledger!CategoryRow \cup {None}]
  <2>1. \A x \in Categories : category'[x] \in Ledger!CategoryRow \cup {None}
    BY Installed, InstalledWhere DEF Ledger!TypeOK
  <2>2. category' = [x \in Categories |-> category'[x]]
    BY <1>1 DEF Installs, Install
  <2> QED
    BY <2>1, <2>2
<1>3. event' \in [Events -> Ledger!EventRow \cup {None}]
  <2>1. \A x \in Events : event'[x] \in Ledger!EventRow \cup {None}
    BY Installed, InstalledWhere DEF Ledger!TypeOK
  <2>2. event' = [x \in Events |-> event'[x]]
    BY <1>1 DEF Installs, Install
  <2> QED
    BY <2>1, <2>2
<1>4. review' \in [Reviews -> Ledger!ReviewRow \cup {None}]
  <2>1. \A x \in Reviews : review'[x] \in Ledger!ReviewRow \cup {None}
    BY Installed, InstalledWhere DEF Ledger!TypeOK
  <2>2. review' = [x \in Reviews |-> review'[x]]
    BY <1>1 DEF Installs, Install
  <2> QED
    BY <2>1, <2>2
<1>5. audit' \in [Ledger!Resources -> Seq(Ledger!AuditActions)]
  <2>1. Named(t) /\ t.cmd.kind \in Kinds
    BY DEF RequestOK, Request, Command
  <2>2. AuditAction(m, t.cmd.kind) \in Ledger!AuditActions
    BY <2>1, KindCases DEF AuditAction, Ledger!AuditActions
  <2>3. Resource(t) \in Ledger!Resources
    BY <2>1, EffectTyped
  <2>4. Append(audit[Resource(t)], AuditAction(m, t.cmd.kind)) \in Seq(Ledger!AuditActions)
    BY <1>1, <2>2, <2>3
  <2> QED
    BY <1>1, <2>3, <2>4 DEF Installs, Ledger!Record
<1> QED
  BY <1>2, <1>3, <1>4, <1>5 DEF Ledger!TypeOK

\* What no commit changes: a decision, a reversal and its effect, the event of
\* a review, and that a row exists.
RowsEvolve ==
    /\ \A x \in Categories : category[x] # None => category'[x] # None
    /\ \A x \in Events :
          event[x] # None =>
              /\ event'[x] # None
              /\ event[x].approval # "PENDING" => event'[x].approval = event[x].approval
              /\ event[x].archived => event'[x].archived
              /\ event'[x].reverses = event[x].reverses
              /\ event[x].reverses # None /\ event[x].posting = "EFFECTIVE" => event'[x].posting = "EFFECTIVE"
    /\ \A x \in Reviews :
          review[x] # None => review'[x] # None /\ review'[x].event = review[x].event

\* The next version of an event keeps what must stay.
LEMMA RewrittenEvent ==
    ASSUME Ledger!TypeOK, NEW m \in Members, NEW t \in Request, RequestOK(m, t), t.effect # None,
           t.cmd.kind \notin Inserting, t.cmd.target \in Events
    PROVE  /\ event[t.cmd.target].approval # "PENDING" =>
                 RewrittenRow(t).approval = event[t.cmd.target].approval
           /\ event[t.cmd.target].archived => RewrittenRow(t).archived
           /\ RewrittenRow(t).reverses = event[t.cmd.target].reverses
           /\ event[t.cmd.target].reverses # None /\ event[t.cmd.target].posting = "EFFECTIVE" =>
                 RewrittenRow(t).posting = "EFFECTIVE"
           /\ t.cmd.kind = "APPROVE" => RewrittenRow(t).approval = "APPROVED"
           /\ t.cmd.kind = "REJECT" => RewrittenRow(t).approval = "REJECTED"
           /\ t.cmd.kind = "ARCHIVE" => RewrittenRow(t).archived
<1>1. /\ t.cmd.kind \in {"UPDATE"} \cup DecisionKinds \cup LifecycleKinds
      /\ RowOf(t.cmd) = event[t.cmd.target] /\ event[t.cmd.target] # None
  BY InstalledWhere
<1>2. PICK row \in Ledger!EventRow : row = RowOf(t.cmd) /\ row = event[t.cmd.target]
  BY <1>1 DEF Ledger!TypeOK
<1>3. StateAllows(t.cmd)
  BY DEF RequestOK, Checked
<1>4. CASE t.cmd.kind = "UPDATE"
  <2>1. RewrittenRow(t) = [row EXCEPT !.category = t.cmd.category, !.activity = t.cmd.body.activity,
                                      !.amount = t.cmd.body.amount, !.version = @ + 1]
    BY <1>2, <1>4 DEF RewrittenRow
  <2> QED
    BY <1>2, <1>4, <2>1 DEF Ledger!EventRow
<1>5. CASE t.cmd.kind \in DecisionKinds
  <2>1. row.approval = "PENDING"
    BY <1>2, <1>3, <1>5 DEF StateAllows, Ledger!IsPending, DecisionKinds
  <2>2. CASE t.cmd.kind = "APPROVE"
    <3>1. RewrittenRow(t) = [row EXCEPT !.approval = "APPROVED", !.posting = "EFFECTIVE", !.version = @ + 1]
      BY <1>2, <2>2 DEF RewrittenRow
    <3> QED
      BY <1>2, <2>1, <2>2, <3>1 DEF Ledger!EventRow
  <2>3. CASE t.cmd.kind = "REJECT"
    <3>1. RewrittenRow(t) = [row EXCEPT !.approval = "REJECTED", !.version = @ + 1]
      BY <1>2, <2>3 DEF RewrittenRow
    <3> QED
      BY <1>2, <2>1, <2>3, <3>1 DEF Ledger!EventRow
  <2> QED
    BY <1>5, <2>2, <2>3 DEF DecisionKinds
<1>6. CASE t.cmd.kind \in {"REVERSE", "CORRECT"}
  <2>1. row.reverses = None
    BY <1>2, <1>3, <1>6 DEF StateAllows, Ledger!IsReversible, DecisionKinds
  <2>2. RewrittenRow(t) = [row EXCEPT !.posting = "REVERSED", !.version = @ + 1]
    BY <1>2, <1>6 DEF RewrittenRow
  <2> QED
    BY <1>2, <1>6, <2>1, <2>2 DEF Ledger!EventRow
<1>7. CASE t.cmd.kind = "ARCHIVE"
  <2>1. RewrittenRow(t) = [row EXCEPT !.archived = TRUE, !.version = @ + 1]
    BY <1>2, <1>7 DEF RewrittenRow
  <2> QED
    BY <1>2, <1>7, <2>1 DEF Ledger!EventRow
<1> QED
  BY <1>1, <1>4, <1>5, <1>6, <1>7 DEF LifecycleKinds

LEMMA InstallsEvolve ==
    ASSUME Ledger!TypeOK, NEW m \in Members, NEW t \in Request, RequestOK(m, t), t.effect # None,
           Installs(m, t)
    PROVE  RowsEvolve
<1>1. /\ None \notin Ledger!CategoryRow /\ None \notin Ledger!EventRow /\ None \notin Ledger!ReviewRow
  BY Constants
<1>2. \A x \in Categories : category[x] # None => category'[x] # None
  BY <1>1, Installed, InstalledWhere
<1>3. ASSUME NEW x \in Events, event[x] # None
      PROVE  /\ event'[x] # None
             /\ event[x].approval # "PENDING" => event'[x].approval = event[x].approval
             /\ event[x].archived => event'[x].archived
             /\ event'[x].reverses = event[x].reverses
             /\ event[x].reverses # None /\ event[x].posting = "EFFECTIVE" => event'[x].posting = "EFFECTIVE"
  <2>1. x \notin Draws(t)
    BY <1>3, InstalledWhere
  <2>2. CASE t.cmd.kind \notin Inserting /\ x = t.cmd.target
    <3>1. event'[x] = RewrittenRow(t) /\ RewrittenRow(t) \in Ledger!EventRow
      BY <2>1, <2>2, Installed, InstalledWhere
    <3> QED
      BY <1>1, <2>2, <3>1, RewrittenEvent
  <2>3. CASE ~(t.cmd.kind \notin Inserting /\ x = t.cmd.target)
    <3>1. event'[x] = event[x]
      BY <2>1, <2>3, Installed
    <3> QED
      BY <1>3, <3>1
  <2> QED
    BY <2>2, <2>3
<1>4. ASSUME NEW x \in Reviews, review[x] # None
      PROVE  review'[x] # None /\ review'[x].event = review[x].event
  <2>1. x \notin Draws(t)
    BY <1>4, InstalledWhere
  <2>2. CASE t.cmd.kind \notin Inserting /\ x = t.cmd.target
    <3>1. /\ review'[x] = RewrittenRow(t) /\ RewrittenRow(t) \in Ledger!ReviewRow
          /\ t.cmd.kind = "RESOLVE" /\ RowOf(t.cmd) = review[x]
      BY <2>1, <2>2, Installed, InstalledWhere
    <3>2. PICK row \in Ledger!ReviewRow : row = review[x]
      BY <1>4 DEF Ledger!TypeOK
    <3>3. RewrittenRow(t) = [row EXCEPT !.flag = "RESOLVED", !.version = @ + 1]
      BY <3>1, <3>2 DEF RewrittenRow
    <3> QED
      BY <1>1, <3>1, <3>2, <3>3 DEF Ledger!ReviewRow
  <2>3. CASE ~(t.cmd.kind \notin Inserting /\ x = t.cmd.target)
    <3>1. review'[x] = review[x]
      BY <2>1, <2>3, Installed
    <3> QED
      BY <1>4, <3>1
  <2> QED
    BY <2>2, <2>3
<1> QED
  BY <1>2, <1>3, <1>4 DEF RowsEvolve

\* Later commits leave what a completed command did.
LEMMA KeptStays ==
    ASSUME Ledger!TypeOK, Ledger!TypeOK', ReviewsNameEvents, RowsEvolve, NEW old \in ClaimRows, Kept(old)
    PROVE  Kept(old)'
<1>1. old.cmd.kind \in Idempotent
  BY DEF Kept
<1>2. /\ DOMAIN event = Events /\ DOMAIN event' = Events
  BY DEF Ledger!TypeOK
<1>3. CASE old.cmd.kind \in {"APPROVE", "REJECT", "ARCHIVE"}
  BY <1>3 DEF Kept, ReplayAvailable, RowsEvolve, DecisionKinds, LifecycleKinds, ReviewKinds
<1>4. CASE old.cmd.kind \in {"REVERSE", "CORRECT"}
  <2>1. PICK r \in Existing(event) : /\ event[r].reverses = old.resource
                                     /\ event[r].approval = "APPROVED"
                                     /\ event[r].posting = "EFFECTIVE"
    BY <1>4 DEF Kept, ReplayAvailable, ReviewKinds
  <2>2. r \in Events /\ event[r] # None
    BY <1>2, <2>1 DEF Existing
  <2>3. old.resource \in Events /\ event[old.resource] # None
    BY <1>4 DEF Kept, DecisionKinds, LifecycleKinds
  <2>4. event[r].reverses # None
    BY <2>1, <2>3, Constants
  <2>5. /\ event'[r] # None
        /\ event'[r].reverses = old.resource
        /\ event'[r].approval = "APPROVED"
        /\ event'[r].posting = "EFFECTIVE"
    BY <2>1, <2>2, <2>4 DEF RowsEvolve
  <2>6. event'[old.resource] # None
    BY <2>3 DEF RowsEvolve
  <2>7. r \in Existing(event)'
    BY <1>2, <2>2, <2>5 DEF Existing
  <2>8. ReplayAvailable(old)'
    BY <1>4, <2>5, <2>7 DEF ReplayAvailable, ReviewKinds
  <2> QED
    BY <1>1, <1>4, <2>3, <2>6, <2>8 DEF Kept, ReviewKinds
<1>5. CASE old.cmd.kind \in ReviewKinds
  <2>1. /\ old.resource \in Reviews /\ review[old.resource] # None
        /\ event[review[old.resource].event].approval = "APPROVED"
    BY <1>5 DEF Kept, ReplayAvailable, ReviewKinds
  <2>2. review[old.resource].event \in Events /\ event[review[old.resource].event] # None
    BY <2>1 DEF ReviewsNameEvents, Ledger!TypeOK, Ledger!ReviewRow
  <2>3. /\ review'[old.resource] # None /\ review'[old.resource].event = review[old.resource].event
        /\ event'[review[old.resource].event].approval = "APPROVED"
    BY <2>1, <2>2 DEF RowsEvolve
  <2>4. ReplayAvailable(old)'
    BY <1>5, <2>3 DEF ReplayAvailable, ReviewKinds
  <2> QED
    BY <1>1, <1>5, <2>1, <2>3, <2>4 DEF Kept, ReviewKinds, DecisionKinds, LifecycleKinds
<1>6. CASE old.cmd.kind = "CREATE"
  BY <1>1, <1>6 DEF Kept, ReplayAvailable, ReviewKinds, DecisionKinds, LifecycleKinds
<1> QED
  BY <1>1, <1>3, <1>4, <1>5, <1>6 DEF Idempotent, DecisionKinds, LifecycleKinds

\* A command that was applied stays spent.
LEMMA SpentStays ==
    ASSUME RowsEvolve, minted \subseteq minted', NEW op, NEW cmd, Spent(op, cmd)
    PROVE  Spent(op, cmd)'
<1>3. cmd.kind \in Idempotent
  BY DEF Spent
<1>1. CASE cmd.kind \in {"CREATE", "REVERSE", "CORRECT"} \cup ReviewKinds
  BY <1>1 DEF Spent, ReviewKinds, DecisionKinds
<1>2. CASE cmd.kind \in DecisionKinds \cup {"ARCHIVE"}
  BY <1>2 DEF Spent, ReviewKinds, DecisionKinds, RowsEvolve
<1> QED
  BY <1>1, <1>2, <1>3 DEF Idempotent, DecisionKinds, LifecycleKinds

\* A commit spares the rows of every other open request.
LEMMA CommitSpares ==
    ASSUME Ledger!TypeOK, NEW m \in Members, NEW n \in Members, m # n,
           NEW t \in Request, RequestOK(m, t), t.effect # None, Installs(m, t),
           NEW s \in Request, RequestOK(n, s), Draws(s) \cap Draws(t) = {},
           \A x \in Lockable : lock[x] # m => lock'[x] = lock[x],
           claim' = IF t.claim = None THEN claim ELSE [claim EXCEPT ![t.op] = t.claim],
           claim \in [Ops -> ClaimRows \cup {None}],
           minted' = minted \cup Mints(t)
    PROVE  Spared(n, s)
<1>1. RowsEvolve
  BY InstallsEvolve
<1>2. t.cmd.kind \notin Inserting => t.cmd.target \in Lockable /\ lock[t.cmd.target] = m
  <2>1. Named(t) /\ t.cmd \in Command
    BY DEF RequestOK, Request
  <2>2. t.cmd.kind \notin Inserting => t.cmd.target # None
    BY <2>1, TargetRow, KindCases, Constants
       DEF Named, Command, Inserting, LifecycleKinds, DecisionKinds, ReviewKinds
  <2>3. t.cmd.target # None => t.cmd.target \in RowsOf(t.cmd)
    BY DEF RowsOf
  <2>4. \A x \in RowsOf(t.cmd) : x \in Lockable /\ lock[x] = m
    BY <2>1, RowsLockable DEF RequestOK, Checked
  <2> QED
    BY <2>2, <2>3, <2>4
<1>3. \A x \in Draws(s) :
          \/ x \in Categories /\ category[x] = None
          \/ x \in Events /\ event[x] = None
          \/ x \in Reviews /\ review[x] = None
  BY DrawsWhere DEF RequestOK, Named
<1>4. ASSUME NEW x \in Categories, x \in Draws(s) \/ (lock[x] = n /\ category[x] # None)
      PROVE  category'[x] = category[x]
  <2>1. x \notin Draws(t)
    BY <1>4, InstalledWhere
  <2>2. ~(t.cmd.kind \notin Inserting /\ x = t.cmd.target)
    BY <1>2, <1>3, <1>4, InstalledWhere, Constants
  <2> QED
    BY <2>1, <2>2, Installed
<1>5. ASSUME NEW x \in Events, x \in Draws(s) \/ (lock[x] = n /\ event[x] # None)
      PROVE  event'[x] = event[x]
  <2>1. x \notin Draws(t)
    BY <1>5, InstalledWhere
  <2>2. ~(t.cmd.kind \notin Inserting /\ x = t.cmd.target)
    BY <1>2, <1>3, <1>5, InstalledWhere, Constants
  <2> QED
    BY <2>1, <2>2, Installed
<1>6. ASSUME NEW x \in Reviews, x \in Draws(s) \/ (lock[x] = n /\ review[x] # None)
      PROVE  review'[x] = review[x]
  <2>1. x \notin Draws(t)
    BY <1>6, InstalledWhere
  <2>2. ~(t.cmd.kind \notin Inserting /\ x = t.cmd.target)
    BY <1>2, <1>3, <1>6, InstalledWhere, Constants
  <2> QED
    BY <2>1, <2>2, Installed
<1>7. \A x \in Lockable : lock[x] = n => lock'[x] = n
  OBVIOUS
<1>8. ASSUME NEW op \in Ops, lock[op] = n
      PROVE  /\ claim'[op] = claim[op]
             /\ <<"financial_events", op>> \in minted' <=> <<"financial_events", op>> \in minted
             /\ <<"financial_event_reviews", op>> \in minted' <=>
                    <<"financial_event_reviews", op>> \in minted
  <2>1. t.claim # None => t.op \in Ops /\ lock[t.op] = m
    BY DEF RequestOK, Claimed, Request
  <2>2. t.op # None => t.claim # None
    BY DEF RequestOK, Stage
  <2>3. t.op # op
    BY <1>8, <2>1, <2>2, Constants
  <2>4. claim'[op] = claim[op]
    BY <2>1, <2>3
  <2>5. \A table : <<table, op>> \notin Mints(t)
    BY <2>3 DEF Mints
  <2> QED
    BY <2>4, <2>5
<1>9. ASSUME Role[n] = "ADMIN"
      PROVE  /\ category' = category
             /\ \A e \in Events :
                   event[e] # None /\ event[e].approval = "APPROVED" => event'[e] = event[e]
  <2>1. t.cmd.kind \in Kinds /\ Permitted(m, t.cmd.kind) /\ StateAllows(t.cmd)
    BY DEF RequestOK, Request, Command, Stage, Checked
  <2>2. Role[m] # "ADMIN"
    BY <1>9, CommandsAssumption
  <2>3. t.cmd.kind \in {"CREATE", "UPDATE"} \cup ReviewKinds
    BY <2>1, <2>2, AdminKinds, KindCases DEF DecisionKinds, LifecycleKinds, CategoryKinds, ReviewKinds
  <2>4. \A x \in Categories : category'[x] = category[x]
    BY <2>3, Installed, InstalledWhere DEF ReviewKinds
  <2>5. category' = category
    <3>1. category' \in [Categories -> Ledger!CategoryRow \cup {None}]
      BY InstallsTyped DEF Ledger!TypeOK
    <3>2. category \in [Categories -> Ledger!CategoryRow \cup {None}]
      BY DEF Ledger!TypeOK
    <3> QED
      BY <2>4, <3>1, <3>2
  <2>6. ASSUME NEW e \in Events, event[e] # None, event[e].approval = "APPROVED"
        PROVE  event'[e] = event[e]
    <3>1. e \notin Draws(t)
      BY <2>6, InstalledWhere
    <3>2. ~(t.cmd.kind \notin Inserting /\ e = t.cmd.target)
      <4>1. SUFFICES ASSUME t.cmd.kind \notin Inserting, e = t.cmd.target PROVE FALSE
        OBVIOUS
      <4>2. t.cmd.kind = "UPDATE" /\ RowOf(t.cmd) = event[e]
        BY <2>3, <4>1, InstalledWhere DEF Inserting
      <4> QED
        BY <2>1, <2>6, <4>2 DEF StateAllows, Ledger!IsPending, DecisionKinds
    <3> QED
      BY <3>1, <3>2, Installed
  <2> QED
    BY <2>5, <2>6
<1> QED
  BY <1>1, <1>4, <1>5, <1>6, <1>7, <1>8, <1>9 DEF Spared, RowsEvolve

\* The identifiers of the rows a command inserts.
LEMMA FirstDrawn ==
    ASSUME Ledger!TypeOK, NEW t \in Request, DrawsFresh(t)
    PROVE  /\ t.cmd.kind \in {"CREATE", "REVERSE", "CORRECT"} => t.new[1] \in Draws(t) /\ t.new[1] \in Events
           /\ t.cmd.kind \in ReviewKinds => Draws(t) = {t.new[1]} /\ t.new[1] \in Reviews
           /\ t.cmd.kind = "CREATE_CATEGORY" => Draws(t) = {t.new[1]} /\ t.new[1] \in Categories
           /\ t.cmd.kind \in {"CREATE", "REVERSE"} \/ (t.cmd.kind = "CORRECT" /\ t.cmd.category = None) =>
                 Draws(t) = {t.new[1]}
           /\ t.cmd.kind = "CORRECT" /\ t.cmd.category # None =>
                 /\ Draws(t) = {t.new[1], t.new[2]} /\ t.new[1] # t.new[2]
                 /\ t.new[2] \in Events
           /\ t.cmd.kind \notin {"CREATE", "REVERSE", "CORRECT", "CREATE_CATEGORY"} \cup ReviewKinds =>
                 Draws(t) = {}
<1>1. /\ DOMAIN category = Categories /\ DOMAIN event = Events /\ DOMAIN review = Reviews
  BY DEF Ledger!TypeOK
<1>2. ASSUME NEW x, t.new = <<x>> PROVE Draws(t) = {x} /\ t.new[1] = x
  BY <1>2 DEF Draws
<1>3. ASSUME NEW x, NEW y, t.new = <<x, y>> PROVE Draws(t) = {x, y} /\ t.new[1] = x /\ t.new[2] = y
  BY <1>3 DEF Draws
<1>4. t.new = <<>> => Draws(t) = {}
  BY DEF Draws
<1>5. CASE t.cmd.kind \in {"CREATE", "REVERSE"} \/ (t.cmd.kind = "CORRECT" /\ t.cmd.category = None)
  <2>1. DrawsOne(t, event)
    BY <1>5 DEF DrawsFresh, ReviewKinds
  <2> QED
    BY <1>1, <1>2, <1>5, <2>1 DEF DrawsOne, ReviewKinds
<1>6. CASE t.cmd.kind = "CORRECT" /\ t.cmd.category # None
  <2>1. DrawsTwo(t, event)
    BY <1>6 DEF DrawsFresh, ReviewKinds
  <2> QED
    BY <1>1, <1>3, <1>6, <2>1 DEF DrawsTwo, ReviewKinds
<1>7. CASE t.cmd.kind \in ReviewKinds
  <2>1. DrawsOne(t, review)
    BY <1>7 DEF DrawsFresh, ReviewKinds
  <2> QED
    BY <1>1, <1>2, <1>7, <2>1 DEF DrawsOne, ReviewKinds
<1>8. CASE t.cmd.kind = "CREATE_CATEGORY"
  <2>1. DrawsOne(t, category)
    BY <1>8 DEF DrawsFresh, ReviewKinds
  <2> QED
    BY <1>1, <1>2, <1>8, <2>1 DEF DrawsOne, ReviewKinds
<1>9. CASE t.cmd.kind \notin {"CREATE", "REVERSE", "CORRECT", "CREATE_CATEGORY"} \cup ReviewKinds
  <2>1. t.new = <<>>
    BY <1>9 DEF DrawsFresh
  <2> QED
    BY <1>4, <1>9, <2>1
<1> QED
  BY <1>5, <1>6, <1>7, <1>8, <1>9

\* What a command that completes its claim has just done can be read back.
LEMMA KeptNow ==
    ASSUME Ledger!TypeOK, NEW m \in Members, NEW t \in Request, RequestOK(m, t), t.effect # None,
           Installs(m, t), t.claim # None
    PROVE  Kept(t.claim)'
<1>1. t.claim.cmd = t.cmd /\ t.claim.resource = Resource(t) /\ t.op # None
  BY DEF RequestOK, Claimed
<1>2. /\ t.cmd.kind \in Idempotent /\ Named(t) /\ DrawsFresh(t) /\ StateAllows(t.cmd) /\ Found(m, t.cmd)
      /\ t.cmd \in Command /\ TargetExists(t.cmd)
  BY <1>1 DEF RequestOK, Named, Checked, Request
<1>3. RowsEvolve /\ DOMAIN event' = Events
  BY InstallsEvolve, InstallsTyped DEF Ledger!TypeOK
<1>4. CASE t.cmd.kind \in {"APPROVE", "REJECT", "ARCHIVE"}
  <2>1. Resource(t) = t.cmd.target /\ t.cmd.kind \notin Inserting
    BY <1>4 DEF Resource, Inserting, ReviewKinds
  <2>2. t.cmd.target \in Events /\ event[t.cmd.target] # None
    BY <1>2, <1>4, TargetRow DEF DecisionKinds, LifecycleKinds
  <2>3. event'[t.cmd.target] = RewrittenRow(t)
    BY <2>1, <2>2, Installed, InstalledWhere
  <2>4. /\ t.cmd.kind = "APPROVE" => event'[t.cmd.target].approval = "APPROVED"
        /\ t.cmd.kind = "REJECT" => event'[t.cmd.target].approval = "REJECTED"
        /\ t.cmd.kind = "ARCHIVE" => event'[t.cmd.target].archived
    BY <2>1, <2>2, <2>3, RewrittenEvent
  <2>5. event'[t.cmd.target] # None
    BY <1>3, <2>2 DEF RowsEvolve
  <2> QED
    BY <1>1, <1>2, <1>4, <2>1, <2>2, <2>4, <2>5 DEF Kept, ReplayAvailable, ReviewKinds
<1>5. CASE t.cmd.kind \in {"REVERSE", "CORRECT"}
  <2>1. Resource(t) = t.cmd.target
    BY <1>5 DEF Resource, Inserting, ReviewKinds
  <2>2. t.cmd.target \in Events /\ event[t.cmd.target] # None /\ RowOf(t.cmd) = event[t.cmd.target]
    BY <1>2, <1>5, TargetRow DEF DecisionKinds, LifecycleKinds
  <2>3. PICK row \in Ledger!EventRow : row = event[t.cmd.target]
    BY <2>2 DEF Ledger!TypeOK
  <2>4. row.approval = "APPROVED" /\ row.posting = "EFFECTIVE"
    BY <1>2, <1>5, <2>2, <2>3 DEF StateAllows, Ledger!IsReversible, DecisionKinds
  <2>5. PICK r \in Events : r = t.new[1] /\ r \in Draws(t)
    BY <1>2, <1>5, FirstDrawn
  <2>6. event'[r] = InsertedRow(m, t, r) /\ InsertedRow(m, t, r) \in Ledger!EventRow
    BY <2>5, Installed, InstalledWhere
  <2>7. InsertedRow(m, t, r) = [row EXCEPT !.direction = Ledger!Opposite(@), !.creator = m,
                                           !.reverses = t.cmd.target, !.replaces = None,
                                           !.archived = FALSE, !.version = 1]
    BY <1>5, <2>3, <2>5 DEF InsertedRow, Ledger!ReversalOf, ReviewKinds
  <2>8. /\ event'[r] # None /\ event'[r].reverses = t.cmd.target
        /\ event'[r].approval = "APPROVED" /\ event'[r].posting = "EFFECTIVE"
    <3>1. event'[r] # None
      BY <2>6, Constants
    <3> QED
      BY <2>4, <2>6, <2>7, <3>1 DEF Ledger!EventRow
  <2>9. r \in Existing(event)'
    BY <1>3, <2>8 DEF Existing
  <2>10. event'[t.cmd.target] # None
    BY <1>3, <2>2 DEF RowsEvolve
  <2> QED
    BY <1>1, <1>2, <1>5, <2>1, <2>2, <2>8, <2>9, <2>10 DEF Kept, ReplayAvailable, ReviewKinds
<1>6. CASE t.cmd.kind \in ReviewKinds
  <2>1. Resource(t) = t.new[1]
    BY <1>6 DEF Resource, Inserting
  <2>2. t.cmd.target \in Events /\ event[t.cmd.target] # None
    BY <1>2, <1>6, TargetRow
  <2>3. event[t.cmd.target].approval = "APPROVED"
    BY <1>2, <1>6 DEF Found, ReviewKinds
  <2>4. PICK v \in Reviews : v = t.new[1] /\ v \in Draws(t)
    BY <1>2, <1>6, FirstDrawn
  <2>5. review'[v] = InsertedRow(m, t, v) /\ InsertedRow(m, t, v) \in Ledger!ReviewRow
    BY <2>4, Installed, InstalledWhere
  <2>6. InsertedRow(m, t, v).event = t.cmd.target
    BY <1>6 DEF InsertedRow, ReviewKinds
  <2>7. review'[v] # None /\ event'[review'[v].event].approval = "APPROVED"
    BY <1>3, <2>2, <2>3, <2>5, <2>6, Constants DEF RowsEvolve
  <2> QED
    BY <1>1, <1>2, <1>6, <2>1, <2>4, <2>7
       DEF Kept, ReplayAvailable, ReviewKinds, DecisionKinds, LifecycleKinds
<1>7. CASE t.cmd.kind = "CREATE"
  BY <1>1, <1>2, <1>7 DEF Kept, ReplayAvailable, ReviewKinds, DecisionKinds, LifecycleKinds
<1> QED
  BY <1>2, <1>4, <1>5, <1>6, <1>7 DEF Idempotent, DecisionKinds, LifecycleKinds

\* A command that was applied is spent, and no spent command is applied.
LEMMA SpentNow ==
    ASSUME Ledger!TypeOK, NEW m \in Members, NEW t \in Request, RequestOK(m, t), t.effect # None,
           Installs(m, t), t.op # None, minted' = minted \cup Mints(t)
    PROVE  ~Spent(t.op, t.cmd) /\ Spent(t.op, t.cmd)'
<1>1. /\ t.cmd.kind \in Idempotent /\ Named(t) /\ StateAllows(t.cmd)
      /\ t.cmd \in Command /\ TargetExists(t.cmd) /\ ~DatabaseRefuses(m, t)
  BY DEF RequestOK, Named, Checked, Request, Written
<1>2. CASE t.cmd.kind \in {"CREATE", "REVERSE", "CORRECT"} \cup ReviewKinds
  <2>1. Mints(t) \cap minted = {}
    BY <1>1 DEF DatabaseRefuses
  <2> QED
    BY <1>1, <1>2, <2>1 DEF Spent, Mints, ReviewKinds, DecisionKinds
<1>3. CASE t.cmd.kind \in {"APPROVE", "REJECT", "ARCHIVE"}
  <2>1. /\ t.cmd.target \in Events /\ event[t.cmd.target] # None
        /\ RowOf(t.cmd) = event[t.cmd.target] /\ t.cmd.kind \notin Inserting
    BY <1>1, <1>3, TargetRow DEF DecisionKinds, LifecycleKinds, Inserting, ReviewKinds
  <2>2. event'[t.cmd.target] = RewrittenRow(t)
    BY <2>1, Installed, InstalledWhere
  <2>3. /\ t.cmd.kind = "APPROVE" => event'[t.cmd.target].approval = "APPROVED"
        /\ t.cmd.kind = "REJECT" => event'[t.cmd.target].approval = "REJECTED"
        /\ t.cmd.kind = "ARCHIVE" => event'[t.cmd.target].archived
    BY <2>1, <2>2, RewrittenEvent
  <2>4. event'[t.cmd.target] # None
    BY <2>1, InstallsEvolve DEF RowsEvolve
  <2>5. /\ t.cmd.kind \in DecisionKinds => event[t.cmd.target].approval = "PENDING"
        /\ t.cmd.kind = "ARCHIVE" => ~event[t.cmd.target].archived
    BY <1>1, <2>1 DEF StateAllows, DecisionKinds, Ledger!IsPending
  <2> QED
    BY <1>1, <1>3, <2>1, <2>3, <2>4, <2>5 DEF Spent, DecisionKinds, ReviewKinds
<1> QED
  BY <1>1, <1>2, <1>3 DEF Idempotent, DecisionKinds, LifecycleKinds

\* The parts of a commit.
LEMMA CommitParts ==
    ASSUME IInv, NEW m \in Members, Commit(m), NEW t \in Request, t = tx[m]
    PROVE  /\ tx' = [tx EXCEPT ![m] = Idle] /\ Release(m) /\ enabled' = enabled
           /\ claim' = IF t.claim = None THEN claim ELSE [claim EXCEPT ![t.op] = t.claim]
           /\ t.effect = None =>
                 /\ category' = category /\ event' = event /\ review' = review /\ audit' = audit
                 /\ minted' = minted /\ effects' = effects
           /\ t.effect # None =>
                 /\ Installs(m, t) /\ minted' = minted \cup Mints(t)
                 /\ effects' = IF t.op = None THEN effects ELSE [effects EXCEPT ![t.op] = @ + 1]
<1>1. t.pc = "respond" /\ RequestOK(m, t)
  BY OpenRequest, IdleIsNoRequest DEF Commit
<1>2. t.effect # None =>
          t.effect = [rows |-> Writes(m, t), action |-> AuditAction(m, t.cmd.kind), resource |-> Resource(t)]
  BY <1>1 DEF RequestOK, Written
<1>3. t.effect # None => t.effect.resource = Resource(t) /\ t.effect.action = AuditAction(m, t.cmd.kind)
  BY <1>2
<1>4. /\ category' = Install(category, t) /\ event' = Install(event, t) /\ review' = Install(review, t)
      /\ audit' = IF t.effect = None THEN audit ELSE Ledger!Record(t.effect.resource, t.effect.action)
      /\ claim' = IF t.claim = None THEN claim ELSE [claim EXCEPT ![t.op] = t.claim]
      /\ minted' = IF t.effect = None THEN minted ELSE minted \cup Mints(t)
      /\ effects' = IF t.effect = None \/ t.op = None THEN effects
                    ELSE [effects EXCEPT ![t.op] = @ + 1]
  BY DEF Commit
<1>5. t.effect = None => category' = category /\ event' = event /\ review' = review
  BY <1>4 DEF Install
<1>6. t.effect # None => Installs(m, t)
  BY <1>3, <1>4 DEF Installs
<1> QED
  BY <1>4, <1>5, <1>6 DEF Commit, Step

LEMMA CommitKeeps ==
    ASSUME IInv, NEW m \in Members, Commit(m)
    PROVE  IInv'
<1>1. PICK t \in Request : t = tx[m]
  BY OpenRequest DEF Commit, Idle
<1>2. tx[m] # Idle /\ RequestOK(m, t)
  BY <1>1, OpenRequest, IdleIsNoRequest
<1>3. /\ tx' = [tx EXCEPT ![m] = Idle] /\ Release(m) /\ enabled' = enabled
      /\ claim' = IF t.claim = None THEN claim ELSE [claim EXCEPT ![t.op] = t.claim]
  BY <1>1, CommitParts
<1>4. t.effect = None =>
          /\ category' = category /\ event' = event /\ review' = review /\ audit' = audit
          /\ minted' = minted /\ effects' = effects
  BY <1>1, CommitParts
<1>5. t.effect # None =>
          /\ Installs(m, t) /\ minted' = minted \cup Mints(t)
          /\ effects' = IF t.op = None THEN effects ELSE [effects EXCEPT ![t.op] = @ + 1]
  BY <1>1, CommitParts
<1>6. /\ Ledger!TypeOK /\ tx \in [Members -> {Idle} \cup Request]
      /\ claim \in [Ops -> ClaimRows \cup {None}] /\ effects \in [Ops -> Nat]
      /\ lock \in [Lockable -> Members \cup {None}]
      /\ ReviewsNameEvents
  BY DEF IInv
<1>7. /\ lock' \in [Lockable -> Members \cup {None}]
      /\ \A x \in Lockable : lock'[x] # m
      /\ \A x \in Lockable : lock[x] # m => lock'[x] = lock[x]
      /\ \A x \in Lockable : lock[x] = m => lock'[x] = None
  BY <1>3, <1>6, ReleaseKeeps
<1>8. tx'[m] = Idle /\ (\A n \in Members \ {m} : tx'[n] = tx[n]) /\ tx' \in [Members -> {Idle} \cup Request]
  BY <1>3, <1>6
<1>9. Ledger!TypeOK'
  <2>1. CASE t.effect = None
    BY <1>4, <1>6, <2>1 DEF Ledger!TypeOK
  <2>2. CASE t.effect # None
    BY <1>2, <1>5, <1>6, <2>2, InstallsTyped
  <2> QED
    BY <2>1, <2>2
<1>10. RowsEvolve
  <2>1. CASE t.effect = None
    BY <1>4, <2>1 DEF RowsEvolve
  <2>2. CASE t.effect # None
    BY <1>2, <1>5, <1>6, <2>2, InstallsEvolve
  <2> QED
    BY <2>1, <2>2
<1>11. /\ t.claim # None =>
             /\ t.op \in Ops /\ lock[t.op] = m /\ t.claim \in ClaimRows
             /\ t.claim.cmd = t.cmd /\ (t.claim.state = "COMPLETED" <=> t.effect # None)
             /\ claim[t.op] = None \/ ("EXPIRE" \in Disturbances /\ claim[t.op].cmd = t.cmd)
       /\ t.op # None => t.op \in Ops /\ t.cmd.kind \in Idempotent
       /\ t.effect # None /\ t.op # None => t.claim # None
  BY <1>2 DEF RequestOK, Named, Claimed, Stage, Request
<1>12. claim' \in [Ops -> ClaimRows \cup {None}]
  BY <1>3, <1>6, <1>11
<1>13. minted' \subseteq {"financial_events", "financial_event_reviews"} \X Ops
  <2>1. Mints(t) \subseteq {"financial_events", "financial_event_reviews"} \X Ops
    <3>1. Mints(t) # {} => t.cmd.kind \in Idempotent
      BY DEF Mints, Idempotent, LifecycleKinds, ReviewKinds
    <3>2. Mints(t) # {} => t.op \in Ops
      BY <1>2, <1>11, <3>1 DEF RequestOK, Named
    <3> QED
      BY <3>2 DEF Mints
  <2> QED
    BY <1>4, <1>5, <2>1 DEF IInv
<1>14. effects' \in [Ops -> Nat]
  BY <1>4, <1>5, <1>6, <1>11
<1>15. \A x \in Lockable : lock'[x] # None => tx'[lock'[x]] # Idle
  <2>1. SUFFICES ASSUME NEW x \in Lockable, lock'[x] # None PROVE tx'[lock'[x]] # Idle
    OBVIOUS
  <2>2. lock'[x] = lock[x] /\ lock[x] \in Members \ {m}
    BY <1>6, <1>7, <2>1
  <2> QED
    BY <1>8, <2>1, <2>2 DEF IInv
<1>16. RequestsOK'
  <2>1. SUFFICES ASSUME NEW n \in Members, tx'[n] # Idle PROVE RequestOK(n, tx[n])'
    BY DEF RequestsOK
  <2>2. n # m /\ tx'[n] = tx[n] /\ tx[n] # Idle
    BY <1>8, <2>1
  <2>3. PICK s \in Request : s = tx[n]
    BY <1>6, <2>2
  <2>4. RequestOK(n, s)
    BY <2>2, <2>3, OpenRequest
  <2>5. Draws(s) \cap Draws(t) = {}
    BY <1>1, <1>2, <2>2, <2>3 DEF IInv, DrawsDisjoint
  <2>6. Spared(n, s)
    <3>1. CASE t.effect = None
      BY <1>3, <1>4, <1>7, <1>11, <2>2, <3>1 DEF Spared
    <3>2. CASE t.effect # None
      BY <1>2, <1>3, <1>5, <1>6, <1>7, <2>2, <2>4, <2>5, <3>2, CommitSpares
    <3> QED
      BY <3>1, <3>2
  <2>7. RequestOK(n, s)'
    BY <1>6, <1>9, <2>4, <2>6, RequestStays
  <2> QED
    BY <2>2, <2>3, <2>7
<1>17. DrawsDisjoint'
  <2>1. SUFFICES ASSUME NEW a \in Members, NEW b \in Members, a # b, tx'[a] # Idle, tx'[b] # Idle
                 PROVE  Draws(tx[a])' \cap Draws(tx[b])' = {}
    BY DEF DrawsDisjoint
  <2>2. PICK r \in Request, s \in Request : r = tx'[a] /\ s = tx'[b]
    BY <1>8, <2>1
  <2>3. r = tx[a] /\ s = tx[b] /\ tx[a] # Idle /\ tx[b] # Idle
    BY <1>8, <2>1, <2>2
  <2>4. Draws(r) \cap Draws(s) = {}
    BY <2>1, <2>3 DEF IInv, DrawsDisjoint
  <2> QED
    BY <2>2, <2>4
<1>18. ReviewsNameEvents'
  <2>1. SUFFICES ASSUME NEW v \in Reviews, review'[v] # None PROVE event'[review'[v].event] # None
    BY DEF ReviewsNameEvents
  <2>2. CASE review[v] # None
    <3>1. review[v].event \in Events /\ event[review[v].event] # None
      BY <1>6, <2>2 DEF ReviewsNameEvents, Ledger!TypeOK, Ledger!ReviewRow
    <3> QED
      BY <1>10, <2>2, <3>1 DEF RowsEvolve
  <2>3. CASE review[v] = None
    <3>1. t.effect # None
      BY <1>4, <2>1, <2>3
    <3>2. /\ v \in Draws(t) /\ review'[v] = InsertedRow(m, t, v) /\ t.cmd.kind \in ReviewKinds
      BY <1>2, <1>5, <1>6, <2>1, <2>3, <3>1, Installed, InstalledWhere
    <3>3. InsertedRow(m, t, v).event = t.cmd.target
      BY <3>2 DEF InsertedRow, ReviewKinds
    <3>4. t.cmd.target \in Events /\ event[t.cmd.target] # None
      BY <1>2, <3>2, TargetRow DEF RequestOK, Named, Request
    <3> QED
      BY <1>10, <3>2, <3>3, <3>4 DEF RowsEvolve
  <2> QED
    BY <2>2, <2>3
<1>19. ClaimsKept'
  <2>1. SUFFICES ASSUME NEW op \in Ops, claim'[op] # None, claim'[op].state = "COMPLETED"
                 PROVE  Kept(claim[op])'
    BY DEF ClaimsKept
  <2>2. PICK old \in ClaimRows : old = claim'[op]
    BY <1>12, <2>1
  <2>3. CASE t.claim # None /\ op = t.op
    <3>1. old = t.claim
      BY <1>3, <1>6, <2>2, <2>3
    <3>2. t.effect # None
      BY <1>11, <2>1, <2>2, <2>3, <3>1
    <3>3. Kept(t.claim)'
      BY <1>2, <1>5, <1>6, <2>3, <3>2, KeptNow
    <3> QED
      BY <2>2, <3>1, <3>3
  <2>4. CASE ~(t.claim # None /\ op = t.op)
    <3>1. old = claim[op]
      BY <1>3, <1>6, <1>11, <2>2, <2>4
    <3>2. Kept(old)
      BY <2>1, <2>2, <3>1 DEF IInv, ClaimsKept
    <3>3. Kept(old)'
      BY <1>6, <1>9, <1>10, <3>2, KeptStays
    <3> QED
      BY <2>2, <3>3
  <2> QED
    BY <2>3, <2>4
<1>20. minted \subseteq minted'
  BY <1>4, <1>5
<1>21. t.effect # None /\ t.op # None => effects[t.op] = 0 /\ Spent(t.op, t.cmd)'
  <2>1. SUFFICES ASSUME t.effect # None, t.op # None
                 PROVE  effects[t.op] = 0 /\ Spent(t.op, t.cmd)'
    OBVIOUS
  <2>2. ~Spent(t.op, t.cmd) /\ Spent(t.op, t.cmd)'
    BY <1>2, <1>5, <1>6, <2>1, SpentNow
  <2>3. effects[t.op] = 0 \/ (claim[t.op] # None /\ Spent(t.op, claim[t.op].cmd))
    BY <1>11, <2>1 DEF IInv, AppliedOnce
  <2> QED
    BY <1>11, <2>1, <2>2, <2>3
<1>22. AppliedOnce'
  <2>1. SUFFICES ASSUME NEW op \in Ops, effects'[op] # 0
                 PROVE  effects'[op] = 1 /\ claim'[op] # None /\ Spent(op, claim[op].cmd)'
    BY DEF AppliedOnce
  <2>2. CASE t.effect # None /\ op = t.op
    <3>1. t.op # None /\ t.claim # None
      BY <1>11, <2>2, Constants
    <3>2. effects'[op] = 1
      BY <1>5, <1>6, <1>21, <2>2, <3>1
    <3>3. claim'[op] = t.claim
      BY <1>3, <1>6, <2>2, <3>1
    <3>4. Spent(op, t.cmd)'
      BY <1>21, <2>2, <3>1
    <3>5. claim'[op].cmd = t.cmd
      BY <1>11, <3>1, <3>3
    <3> QED
      BY <3>1, <3>2, <3>3, <3>4, <3>5
  <2>3. CASE ~(t.effect # None /\ op = t.op)
    <3>1. effects'[op] = effects[op]
      BY <1>4, <1>5, <1>6, <1>11, <2>3
    <3>2. effects[op] = 1 /\ claim[op] # None /\ Spent(op, claim[op].cmd)
      BY <2>1, <3>1 DEF IInv, AppliedOnce
    <3>3. PICK cmd : cmd = claim[op].cmd
      OBVIOUS
    <3>4. claim'[op] # None /\ claim'[op].cmd = cmd
      <4>1. CASE t.claim # None /\ op = t.op
        <5>1. claim'[op] = t.claim /\ claim[op].cmd = t.cmd
          BY <1>3, <1>6, <1>11, <3>2, <4>1
        <5> QED
          BY <1>11, <3>3, <4>1, <5>1
      <4>2. CASE ~(t.claim # None /\ op = t.op)
        BY <1>3, <1>6, <1>11, <3>2, <3>3, <4>2
      <4> QED
        BY <4>1, <4>2
    <3>5. Spent(op, cmd)'
      BY <1>10, <1>20, <3>2, <3>3, SpentStays
    <3> QED
      BY <3>1, <3>2, <3>4, <3>5
  <2> QED
    BY <2>2, <2>3
<1>23. "EXPIRE" \notin Disturbances => CompletedIffApplied'
  <2>1. SUFFICES ASSUME "EXPIRE" \notin Disturbances, NEW op \in Ops
                 PROVE  (claim'[op] # None /\ claim'[op].state = "COMPLETED") <=> effects'[op] = 1
    BY DEF CompletedIffApplied
  <2>2. (claim[op] # None /\ claim[op].state = "COMPLETED") <=> effects[op] = 1
    BY <2>1 DEF IInv, CompletedIffApplied
  <2>3. CASE t.claim # None /\ op = t.op
    <3>1. claim'[op] = t.claim /\ claim[op] = None
      BY <1>3, <1>6, <1>11, <2>1, <2>3
    <3>2. effects[op] = 0
      BY <2>2, <3>1 DEF IInv, AppliedOnce
    <3>3. effects'[op] = IF t.effect = None THEN 0 ELSE 1
      BY <1>4, <1>5, <1>6, <2>3, <3>2, Constants
    <3> QED
      BY <1>11, <2>3, <3>1, <3>3
  <2>4. CASE ~(t.claim # None /\ op = t.op)
    <3>1. claim'[op] = claim[op]
      BY <1>3, <1>6, <1>11, <2>4
    <3>2. effects'[op] = effects[op]
      BY <1>4, <1>5, <1>6, <1>11, <2>4
    <3> QED
      BY <2>2, <3>1, <3>2
  <2> QED
    BY <2>3, <2>4
<1> QED
  BY <1>3, <1>7, <1>8, <1>9, <1>12, <1>13, <1>14, <1>15, <1>16, <1>17, <1>18, <1>19, <1>22, <1>23 DEF IInv

LEMMA StutterKeeps ==
    ASSUME IInv, UNCHANGED vars
    PROVE  IInv'
<1>1. /\ tx' = tx /\ category' = category /\ event' = event /\ review' = review /\ audit' = audit
      /\ enabled' = enabled /\ claim' = claim /\ minted' = minted /\ effects' = effects /\ lock' = lock
  BY DEF vars
<1>2. Ledger!TypeOK /\ Ledger!TypeOK'
  BY <1>1 DEF IInv, Ledger!TypeOK
<1>3. RequestsOK'
  <2>1. SUFFICES ASSUME NEW n \in Members, tx'[n] # Idle PROVE RequestOK(n, tx[n])'
    BY DEF RequestsOK
  <2>2. PICK s \in Request : s = tx[n]
    BY <1>1, <2>1, OpenRequest
  <2>3. RequestOK(n, s) /\ ReviewsNameEvents
    BY <1>1, <2>1, <2>2, OpenRequest DEF IInv
  <2>4. Spared(n, s)
    BY <1>1 DEF Spared
  <2>5. RequestOK(n, s)'
    BY <1>2, <2>3, <2>4, RequestStays
  <2> QED
    BY <1>1, <2>2, <2>5
<1>4. DrawsDisjoint'
  <2>1. SUFFICES ASSUME NEW a \in Members, NEW b \in Members, a # b, tx'[a] # Idle, tx'[b] # Idle
                 PROVE  Draws(tx[a])' \cap Draws(tx[b])' = {}
    BY DEF DrawsDisjoint
  <2>2. PICK r, s : r = tx[a] /\ s = tx[b] /\ r = tx'[a] /\ s = tx'[b]
    BY <1>1
  <2>3. Draws(r) \cap Draws(s) = {}
    BY <1>1, <2>1, <2>2 DEF IInv, DrawsDisjoint
  <2> QED
    BY <2>2, <2>3
<1>5. ReviewsNameEvents'
  BY <1>1 DEF IInv, ReviewsNameEvents
<1>6. ClaimsKept'
  BY <1>1 DEF IInv, ClaimsKept, Kept, ReplayAvailable, Existing
<1>7. AppliedOnce'
  BY <1>1 DEF IInv, AppliedOnce, Spent
<1>8. "EXPIRE" \notin Disturbances => CompletedIffApplied'
  BY <1>1 DEF IInv, CompletedIffApplied
<1> QED
  BY <1>1, <1>2, <1>3, <1>4, <1>5, <1>6, <1>7, <1>8 DEF IInv

-----------------------------------------------------------------------------
(* Theorems.                                                               *)

LEMMA InitIInv == Init => IInv
<1>1. SUFFICES ASSUME Init PROVE IInv
  OBVIOUS
<1>2. Ledger!TypeOK
  BY <1>1 DEF Init, Ledger!Init, Ledger!TypeOK
<1>3. claim \in [Ops -> ClaimRows \cup {None}] /\ \A op \in Ops : claim[op] = None /\ effects[op] = 0
  BY <1>1 DEF Init
<1>4. effects \in [Ops -> Nat] /\ lock \in [Lockable -> Members \cup {None}] /\ \A x \in Lockable : lock[x] = None
  BY <1>1 DEF Init
<1>5. tx \in [Members -> {Idle} \cup Request] /\ \A m \in Members : tx[m] = Idle
  BY <1>1 DEF Init
<1>6. \A v \in Reviews : review[v] = None
  BY <1>1 DEF Init, Ledger!Init
<1> QED
  BY <1>1, <1>2, <1>3, <1>4, <1>5, <1>6
     DEF Init, IInv, RequestsOK, DrawsDisjoint, ReviewsNameEvents, ClaimsKept, AppliedOnce,
         CompletedIffApplied

LEMMA NextIInv == IInv /\ [Next]_vars => IInv'
<1>1. SUFFICES ASSUME IInv, [Next]_vars PROVE IInv'
  OBVIOUS
<1>2. CASE UNCHANGED vars
  BY <1>1, <1>2, StutterKeeps
<1>3. ASSUME NEW m \in Members, Begin(m) PROVE IInv'
  BY <1>1, <1>3, BeginKeeps
<1>4. ASSUME NEW m \in Members, ValidateCategory(m) PROVE IInv'
  BY <1>1, <1>4, ValidateCategoryKeeps
<1>5. ASSUME NEW m \in Members, Claim(m) PROVE IInv'
  BY <1>1, <1>5, ClaimKeeps
<1>6. ASSUME NEW m \in Members, Apply(m) PROVE IInv'
  BY <1>1, <1>6, ApplyKeeps
<1>7. ASSUME NEW m \in Members, SelectCategory(m) PROVE IInv'
  BY <1>1, <1>7, SelectCategoryKeeps
<1>8. ASSUME NEW m \in Members, Commit(m) PROVE IInv'
  BY <1>1, <1>8, CommitKeeps
<1>9. ASSUME NEW m \in Members, Crash(m) PROVE IInv'
  BY <1>1, <1>9, CrashKeeps
<1>10. ASSUME NEW m \in Members, BreakDeadlock(m) PROVE IInv'
  BY <1>1, <1>10, BreakDeadlockKeeps
<1>11. ASSUME NEW m \in Members, ToggleModule(m) PROVE IInv'
  BY <1>1, <1>11, ToggleModuleKeeps
<1> QED
  BY <1>1, <1>2, <1>3, <1>4, <1>5, <1>6, <1>7, <1>8, <1>9, <1>10, <1>11 DEF Next, Serve

\* The inductive invariant: whatever interleaves with it, an open request keeps
\* holding the locks, the category, the row version and the claim it has
\* checked, and its identifiers stay unused, until it commits.
THEOREM CommandsInvariant == Spec => []IInv
BY InitIInv, NextIInv, PTL DEF Spec

\* The tables, claims, locks and requests keep their types, and a lock is only
\* held by an open transaction.
THEOREM CommandsTypeCorrect == Spec => []TypeOK
<1>1. IInv => TypeOK
  <2>1. SUFFICES ASSUME IInv PROVE TypeOK
    OBVIOUS
  <2>2. \A op \in Ops : claim[op] # None => claim[op].actor \in Members /\ claim[op].state \in ClaimStates
    <3>1. SUFFICES ASSUME NEW op \in Ops, claim[op] # None
                   PROVE  claim[op].actor \in Members /\ claim[op].state \in ClaimStates
      OBVIOUS
    <3>2. claim[op] \in ClaimRows
      BY <2>1, <3>1 DEF IInv
    <3> QED
      BY <3>2 DEF ClaimRows
  <2>3. \A m \in Members : tx[m].pc \in {"idle", "category", "claim", "apply", "select", "respond"}
    BY <2>1 DEF IInv, Request, Steps, Idle
  <2>4. \A x \in Lockable : lock[x] # None => tx[lock[x]].pc # "idle"
    BY <2>1, OpenRequest DEF IInv
  <2> QED
    BY <2>1, <2>2, <2>3, <2>4 DEF IInv, TypeOK
<1> QED
  BY <1>1, CommandsInvariant, PTL

\* No operation is applied twice, whatever its client retries, whatever is
\* lost, and whether or not its claim has expired.
THEOREM AppliedAtMostOnce == Spec => []NeverTwice
<1>1. IInv => NeverTwice
  BY DEF IInv, AppliedOnce, NeverTwice
<1> QED
  BY <1>1, CommandsInvariant, PTL

\* While claims are kept, a claim says COMPLETED exactly when its effect is
\* committed.
THEOREM CompletedMeansApplied ==
    ASSUME "EXPIRE" \notin Disturbances
    PROVE  Spec => []CompletedIffApplied
<1>1. IInv => CompletedIffApplied
  BY DEF IInv
<1> QED
  BY <1>1, CommandsInvariant, PTL

\* A completed command can be read back for as long as its claim is kept.
THEOREM ReplaysStayAvailable == Spec => []ReplayStaysAvailable
<1>1. IInv => ReplayStaysAvailable
  <2>1. SUFFICES ASSUME IInv, NEW m \in Members, tx[m].pc = "respond"
                 PROVE  tx[m].reply # "REPLAY_UNAVAILABLE"
    BY DEF ReplayStaysAvailable
  <2> QED
    BY <2>1, OpenRequest DEF RequestOK, Idle
<1> QED
  BY <1>1, CommandsInvariant, PTL

\* A commit that rewrites a row replaces exactly the version its If-Match named.
THEOREM IfMatchAlwaysHonoured == Spec => IfMatchHonoured
<1>1. IInv => ConditionalStep
  <2>1. SUFFICES ASSUME IInv, NEW m \in Members, tx[m].pc = "respond",
                        tx[m].version # None, tx[m].effect # None
                 PROVE  RowOf(tx[m].cmd).version = tx[m].version
    BY DEF ConditionalStep
  <2>2. RequestOK(m, tx[m])
    BY <2>1, OpenRequest DEF Idle
  <2> QED
    BY <2>1, <2>2 DEF RequestOK, Checked
<1> QED
  BY <1>1, CommandsInvariant, PTL DEF IfMatchHonoured

-----------------------------------------------------------------------------
(* The refinement: a commit is one step of the ledger.                     *)

\* The tables a command leaves alone, and the row it rewrites.
LEMMA TablesAfter ==
    ASSUME Ledger!TypeOK, NEW m \in Members, NEW t \in Request, RequestOK(m, t), t.effect # None,
           Installs(m, t)
    PROVE  /\ t.cmd.kind \notin CategoryKinds => category' = category
           /\ t.cmd.kind \notin {"CREATE", "UPDATE"} \cup DecisionKinds \cup LifecycleKinds => event' = event
           /\ t.cmd.kind \notin {"RESOLVE"} \cup ReviewKinds => review' = review
           /\ t.cmd.kind \in {"RENAME_CATEGORY", "ARCHIVE_CATEGORY"} =>
                 category' = [category EXCEPT ![t.cmd.target] = RewrittenRow(t)]
           /\ t.cmd.kind \in {"UPDATE", "ARCHIVE"} \cup DecisionKinds =>
                 event' = [event EXCEPT ![t.cmd.target] = RewrittenRow(t)]
           /\ t.cmd.kind = "RESOLVE" => review' = [review EXCEPT ![t.cmd.target] = RewrittenRow(t)]
           /\ t.cmd.kind = "CREATE_CATEGORY" =>
                 category' = [category EXCEPT ![t.new[1]] = InsertedRow(m, t, t.new[1])]
           /\ t.cmd.kind = "CREATE" => event' = [event EXCEPT ![t.new[1]] = InsertedRow(m, t, t.new[1])]
           /\ t.cmd.kind \in ReviewKinds =>
                 review' = [review EXCEPT ![t.new[1]] = InsertedRow(m, t, t.new[1])]
<1>1. /\ category \in [Categories -> Ledger!CategoryRow \cup {None}]
      /\ event \in [Events -> Ledger!EventRow \cup {None}]
      /\ review \in [Reviews -> Ledger!ReviewRow \cup {None}]
      /\ category' \in [Categories -> Ledger!CategoryRow \cup {None}]
      /\ event' \in [Events -> Ledger!EventRow \cup {None}]
      /\ review' \in [Reviews -> Ledger!ReviewRow \cup {None}]
  BY InstallsTyped DEF Ledger!TypeOK
<1>2. t.cmd \in Command /\ t.cmd.kind \in Kinds /\ Named(t) /\ TargetExists(t.cmd) /\ DrawsFresh(t)
  BY DEF RequestOK, Request, Command, Named
<1>3. t.cmd.kind \notin CategoryKinds => category' = category
  <2>1. t.cmd.kind \notin CategoryKinds => \A x \in Categories : category'[x] = category[x]
    BY Installed, InstalledWhere DEF CategoryKinds
  <2> QED
    BY <1>1, <2>1
<1>4. t.cmd.kind \notin {"CREATE", "UPDATE"} \cup DecisionKinds \cup LifecycleKinds => event' = event
  <2>1. t.cmd.kind \notin {"CREATE", "UPDATE"} \cup DecisionKinds \cup LifecycleKinds =>
            \A x \in Events : event'[x] = event[x]
    BY Installed, InstalledWhere DEF LifecycleKinds
  <2> QED
    BY <1>1, <2>1
<1>5. t.cmd.kind \notin {"RESOLVE"} \cup ReviewKinds => review' = review
  <2>1. t.cmd.kind \notin {"RESOLVE"} \cup ReviewKinds => \A x \in Reviews : review'[x] = review[x]
    BY Installed, InstalledWhere
  <2> QED
    BY <1>1, <2>1
<1>6. t.cmd.kind \notin Inserting \cup {"REVERSE", "CORRECT"} => Draws(t) = {}
  BY <1>2, FirstDrawn DEF Inserting
<1>7. t.cmd.kind \in {"RENAME_CATEGORY", "ARCHIVE_CATEGORY"} =>
          category' = [category EXCEPT ![t.cmd.target] = RewrittenRow(t)]
  <2>1. t.cmd.kind \in {"RENAME_CATEGORY", "ARCHIVE_CATEGORY"} =>
            /\ t.cmd.kind \notin Inserting /\ Draws(t) = {} /\ t.cmd.target \in Categories
            /\ \A x \in Categories : category'[x] = IF x = t.cmd.target THEN RewrittenRow(t) ELSE category[x]
    BY <1>2, <1>6, TargetRow, Installed DEF Inserting, ReviewKinds
  <2> QED
    BY <1>1, <2>1
<1>8. t.cmd.kind \in {"UPDATE", "ARCHIVE"} \cup DecisionKinds =>
          event' = [event EXCEPT ![t.cmd.target] = RewrittenRow(t)]
  <2>1. t.cmd.kind \in {"UPDATE", "ARCHIVE"} \cup DecisionKinds =>
            t.cmd.kind \notin Inserting /\ Draws(t) = {} /\ t.cmd.target \in Events
    BY <1>2, <1>6, TargetRow DEF Inserting, ReviewKinds, DecisionKinds, LifecycleKinds
  <2>2. t.cmd.kind \in {"UPDATE", "ARCHIVE"} \cup DecisionKinds =>
            \A x \in Events : event'[x] = IF x = t.cmd.target THEN RewrittenRow(t) ELSE event[x]
    BY <2>1, Installed
  <2> QED
    BY <1>1, <2>1, <2>2
<1>9. t.cmd.kind = "RESOLVE" => review' = [review EXCEPT ![t.cmd.target] = RewrittenRow(t)]
  <2>1. t.cmd.kind = "RESOLVE" =>
            /\ t.cmd.kind \notin Inserting /\ Draws(t) = {} /\ t.cmd.target \in Reviews
            /\ \A x \in Reviews : review'[x] = IF x = t.cmd.target THEN RewrittenRow(t) ELSE review[x]
    BY <1>2, <1>6, TargetRow, Installed DEF Inserting, ReviewKinds
  <2> QED
    BY <1>1, <2>1
<1>10. t.cmd.kind = "CREATE_CATEGORY" =>
           category' = [category EXCEPT ![t.new[1]] = InsertedRow(m, t, t.new[1])]
  <2>1. t.cmd.kind = "CREATE_CATEGORY" => Draws(t) = {t.new[1]} /\ t.new[1] \in Categories /\ t.cmd.kind \in Inserting
    BY <1>2, FirstDrawn DEF Inserting
  <2>2. t.cmd.kind = "CREATE_CATEGORY" =>
            \A x \in Categories : category'[x] = IF x = t.new[1] THEN InsertedRow(m, t, t.new[1]) ELSE category[x]
    BY <2>1, Installed
  <2> QED
    BY <1>1, <2>1, <2>2
<1>11. t.cmd.kind = "CREATE" => event' = [event EXCEPT ![t.new[1]] = InsertedRow(m, t, t.new[1])]
  <2>1. t.cmd.kind = "CREATE" => Draws(t) = {t.new[1]} /\ t.new[1] \in Events /\ t.cmd.kind \in Inserting
    BY <1>2, FirstDrawn DEF Inserting
  <2>2. t.cmd.kind = "CREATE" =>
            \A x \in Events : event'[x] = IF x = t.new[1] THEN InsertedRow(m, t, t.new[1]) ELSE event[x]
    BY <2>1, Installed
  <2> QED
    BY <1>1, <2>1, <2>2
<1>12. t.cmd.kind \in ReviewKinds =>
           review' = [review EXCEPT ![t.new[1]] = InsertedRow(m, t, t.new[1])]
  <2>1. t.cmd.kind \in ReviewKinds => Draws(t) = {t.new[1]} /\ t.new[1] \in Reviews /\ t.cmd.kind \in Inserting
    BY <1>2, FirstDrawn DEF Inserting
  <2>2. t.cmd.kind \in ReviewKinds =>
            \A x \in Reviews : review'[x] = IF x = t.new[1] THEN InsertedRow(m, t, t.new[1]) ELSE review[x]
    BY <2>1, Installed
  <2> QED
    BY <1>1, <2>1, <2>2
<1> QED
  BY <1>3, <1>4, <1>5, <1>7, <1>8, <1>9, <1>10, <1>11, <1>12

\* What a request that commits an effect has checked.
LEMMA CommitChecked ==
    ASSUME NEW m \in Members, NEW t \in Request, RequestOK(m, t), t.effect # None
    PROVE  /\ t.cmd \in Command /\ t.cmd.body \in Body /\ t.cmd.kind \in Kinds
           /\ t.cmd.kind = t.cmd.body.kind /\ WellFormed(t.cmd.body)
           /\ Named(t) /\ TargetExists(t.cmd) /\ DrawsFresh(t)
           /\ Permitted(m, t.cmd.kind) /\ Found(m, t.cmd) /\ StateAllows(t.cmd)
           /\ ~NameTaken(t) /\ ~DatabaseRefuses(m, t)
           /\ t.cmd.kind \in Conditional => t.version \in Nat /\ RowOf(t.cmd).version = t.version
           /\ t.cmd.kind \in {"UPDATE", "RENAME_CATEGORY"} => RowOf(t.cmd).version < MaxVersion
           /\ t.cmd.category # None =>
                 /\ t.cmd.category \in Categories /\ category[t.cmd.category] # None
                 /\ category[t.cmd.category].status = "ACTIVE" /\ CategoryFits(t)
<1>1. t.cmd \in Command /\ t.cmd.body \in Body /\ t.cmd.kind \in Kinds /\ Named(t)
  BY DEF RequestOK, Request, Command
<1>2. t.cmd.kind \in Conditional => t.version \in Nat /\ RowOf(t.cmd).version = t.version
  BY <1>1, Constants DEF Named, RequestOK, Checked
<1>3. t.cmd.kind \in {"UPDATE", "RENAME_CATEGORY"} => RowOf(t.cmd).version < MaxVersion
  BY <1>1, <1>2 DEF Named, Conditional
<1>4. t.cmd.category # None =>
          /\ t.cmd.category \in Categories /\ category[t.cmd.category] # None
          /\ category[t.cmd.category].status = "ACTIVE" /\ CategoryFits(t)
  BY <1>1, WhoSelects DEF RequestOK, Validated
<1> QED
  BY <1>1, <1>2, <1>3, <1>4 DEF Named, RequestOK, Stage, Checked, Written

LEMMA CategoryCommandsImplement ==
    ASSUME Ledger!TypeOK, NEW m \in Members, NEW t \in Request, RequestOK(m, t), t.effect # None,
           Installs(m, t), t.cmd.kind \in CategoryKinds
    PROVE  Ledger!Next
<1>1. /\ t.cmd \in Command /\ t.cmd.body \in Body /\ t.cmd.kind = t.cmd.body.kind
      /\ WellFormed(t.cmd.body) /\ Named(t) /\ TargetExists(t.cmd) /\ DrawsFresh(t)
      /\ Permitted(m, t.cmd.kind) /\ StateAllows(t.cmd) /\ ~NameTaken(t)
  BY CommitChecked
<1>2. event' = event /\ review' = review
  BY TablesAfter DEF CategoryKinds, DecisionKinds, LifecycleKinds, ReviewKinds
<1>3. Ledger!Can(m, "MANAGE_FINANCE_CATEGORIES")
  BY <1>1 DEF Permitted, CategoryKinds, DecisionKinds, LifecycleKinds
<1>4. CASE t.cmd.kind = "CREATE_CATEGORY"
  <2>1. PICK c \in Categories : c = t.new[1] /\ c \in Draws(t)
    BY <1>1, <1>4, FirstDrawn
  <2>2. category[c] = None
    BY <2>1, InstalledWhere
  <2>3. /\ t.cmd.body.name \in Names /\ t.cmd.body.applicability \in {"INCOME", "EXPENSE", "BOTH"}
        /\ t.cmd.body.activity \in Activities \cup {None}
    BY <1>1, <1>4 DEF WellFormed, Body
  <2>4. Ledger!ScopeNameFree(c, t.cmd.body.name, t.cmd.body.applicability, t.cmd.body.activity)
    BY <1>1, <1>4, <2>1 DEF NameTaken
  <2>5. category' = [category EXCEPT ![c] = InsertedRow(m, t, c)]
    BY <1>4, <2>1, TablesAfter
  <2>6. InsertedRow(m, t, c) =
            [name |-> t.cmd.body.name, applicability |-> t.cmd.body.applicability,
             activity |-> t.cmd.body.activity, status |-> "ACTIVE", version |-> 1]
    BY <1>4 DEF InsertedRow, ReviewKinds
  <2>7. audit' = Ledger!Record(c, "CATEGORY_CREATED")
    BY <1>4, <2>1 DEF Installs, Resource, Inserting, AuditAction
  <2>8. Ledger!CreateCategory(m, c, t.cmd.body.name, t.cmd.body.applicability, t.cmd.body.activity)
    BY <1>2, <1>3, <2>2, <2>4, <2>5, <2>6, <2>7 DEF Ledger!CreateCategory
  <2> QED
    BY <2>3, <2>8 DEF Ledger!Next, Ledger!CategoryStep
<1>5. CASE t.cmd.kind \in {"RENAME_CATEGORY", "ARCHIVE_CATEGORY"}
  <2>1. PICK c \in Categories : c = t.cmd.target /\ category[c] # None /\ RowOf(t.cmd) = category[c]
    BY <1>1, <1>5, TargetRow
  <2>2. category[c].status = "ACTIVE"
    BY <1>1, <1>5, <2>1 DEF StateAllows, DecisionKinds
  <2>3. category' = [category EXCEPT ![c] = RewrittenRow(t)]
    BY <1>5, <2>1, TablesAfter
  <2>4. category \in [Categories -> Ledger!CategoryRow \cup {None}] /\ category[c] \in Ledger!CategoryRow
    BY <2>1 DEF Ledger!TypeOK
  <2>5. Resource(t) = c
    BY <1>5, <2>1 DEF Resource, Inserting, ReviewKinds
  <2>6. CASE t.cmd.kind = "RENAME_CATEGORY"
    <3>1. t.cmd.body.name \in Names
      BY <1>1, <2>6 DEF WellFormed
    <3>2. category[c].version < MaxVersion
      BY <2>1, <2>6, CommitChecked
    <3>3. Ledger!ScopeNameFree(c, t.cmd.body.name, category[c].applicability, category[c].activity)
      BY <1>1, <2>1, <2>6 DEF NameTaken
    <3>4. RewrittenRow(t) = [category[c] EXCEPT !.name = t.cmd.body.name, !.version = @ + 1]
      BY <2>1, <2>6 DEF RewrittenRow
    <3>5. category' = [category EXCEPT ![c].name = t.cmd.body.name, ![c].version = @ + 1]
      BY <2>3, <2>4, <3>4
    <3>6. audit' = Ledger!Record(c, "CATEGORY_UPDATED")
      BY <2>5, <2>6 DEF Installs, AuditAction
    <3>7. Ledger!RenameCategory(m, c, t.cmd.body.name)
      BY <1>2, <1>3, <2>1, <2>2, <3>2, <3>3, <3>5, <3>6 DEF Ledger!RenameCategory
    <3> QED
      BY <3>1, <3>7 DEF Ledger!Next, Ledger!CategoryStep
  <2>7. CASE t.cmd.kind = "ARCHIVE_CATEGORY"
    <3>1. RewrittenRow(t) = [category[c] EXCEPT !.status = "ARCHIVED", !.version = @ + 1]
      BY <2>1, <2>7 DEF RewrittenRow
    <3>2. category' = [category EXCEPT ![c].status = "ARCHIVED", ![c].version = @ + 1]
      BY <2>3, <2>4, <3>1
    <3>3. audit' = Ledger!Record(c, "CATEGORY_ARCHIVED")
      BY <2>5, <2>7 DEF Installs, AuditAction
    <3>4. Ledger!ArchiveCategory(m, c)
      BY <1>2, <1>3, <2>1, <2>2, <3>2, <3>3 DEF Ledger!ArchiveCategory
    <3> QED
      BY <3>4 DEF Ledger!Next, Ledger!CategoryStep
  <2> QED
    BY <1>5, <2>6, <2>7
<1> QED
  BY <1>4, <1>5 DEF CategoryKinds

LEMMA ReviewCommandsImplement ==
    ASSUME Ledger!TypeOK, ReviewsNameEvents,
           NEW m \in Members, NEW t \in Request, RequestOK(m, t), t.effect # None,
           Installs(m, t), t.cmd.kind \in {"RESOLVE"} \cup ReviewKinds
    PROVE  Ledger!Next
<1>1. /\ t.cmd \in Command /\ Named(t) /\ TargetExists(t.cmd) /\ DrawsFresh(t)
      /\ Permitted(m, t.cmd.kind) /\ StateAllows(t.cmd) /\ Found(m, t.cmd)
  BY CommitChecked
<1>2. event' = event /\ category' = category
  BY TablesAfter DEF CategoryKinds, DecisionKinds, LifecycleKinds, ReviewKinds
<1>3. CASE t.cmd.kind = "RESOLVE"
  <2>1. PICK v \in Reviews : v = t.cmd.target /\ review[v] # None /\ RowOf(t.cmd) = review[v]
    BY <1>1, <1>3, TargetRow
  <2>2. Role[m] = "ADMIN"
    BY <1>1, <1>3 DEF Permitted, DecisionKinds, LifecycleKinds, CategoryKinds
  <2>3. event[review[v].event].approval = "APPROVED"
    BY <1>1, <1>3, <2>1 DEF Found, ReviewKinds
  <2>4. review[v].kind = "FLAG" /\ review[v].flag = "OPEN"
    BY <1>1, <1>3, <2>1 DEF StateAllows, DecisionKinds
  <2>5. review \in [Reviews -> Ledger!ReviewRow \cup {None}] /\ review[v] \in Ledger!ReviewRow
    BY <2>1 DEF Ledger!TypeOK
  <2>6. review' = [review EXCEPT ![v] = RewrittenRow(t)]
    BY <1>3, <2>1, TablesAfter
  <2>7. RewrittenRow(t) = [review[v] EXCEPT !.flag = "RESOLVED", !.version = @ + 1]
    BY <1>3, <2>1 DEF RewrittenRow
  <2>8. review' = [review EXCEPT ![v].flag = "RESOLVED", ![v].version = @ + 1]
    BY <2>5, <2>6, <2>7
  <2>9. audit' = Ledger!Record(v, "FLAG_RESOLVED")
    BY <1>3, <2>1 DEF Installs, AuditAction, Resource, Inserting, ReviewKinds
  <2>10. Ledger!ResolveReview(m, v)
    BY <1>2, <2>1, <2>2, <2>3, <2>4, <2>8, <2>9 DEF Ledger!ResolveReview
  <2> QED
    BY <2>10 DEF Ledger!Next, Ledger!ReviewStep
<1>4. CASE t.cmd.kind \in ReviewKinds
  <2>1. PICK v \in Reviews : v = t.new[1] /\ v \in Draws(t)
    BY <1>1, <1>4, FirstDrawn
  <2>2. review[v] = None
    BY <2>1, InstalledWhere
  <2>3. PICK e \in Events : e = t.cmd.target /\ event[e] # None
    BY <1>1, <1>4, TargetRow
  <2>4. event[e].approval = "APPROVED"
    BY <1>1, <1>4, <2>3 DEF Found, ReviewKinds
  <2>5. Ledger!Can(m, "COMMENT_OR_FLAG") /\ (Role[m] = "ADMIN" => t.cmd.kind = "COMMENT")
    BY <1>1, <1>4 DEF Permitted, ReviewKinds, DecisionKinds, LifecycleKinds, CategoryKinds,
                      Ledger!Can, Ledger!RolesWith
  <2>6. review' = [review EXCEPT ![v] = InsertedRow(m, t, v)]
    BY <1>4, <2>1, TablesAfter
  <2>7. InsertedRow(m, t, v) =
            [event |-> e, kind |-> t.cmd.kind, author |-> m, version |-> 1,
             flag |-> IF t.cmd.kind = "FLAG" THEN "OPEN" ELSE None]
    BY <1>4, <2>3 DEF InsertedRow, ReviewKinds
  <2>8. audit' = Ledger!Record(v, IF t.cmd.kind = "FLAG" THEN "FLAGGED" ELSE "COMMENTED")
    BY <1>4, <2>1 DEF Installs, AuditAction, Resource, Inserting, ReviewKinds
  <2>9. Ledger!CreateReview(m, v, e, t.cmd.kind)
    BY <1>2, <2>2, <2>3, <2>4, <2>5, <2>6, <2>7, <2>8 DEF Ledger!CreateReview
  <2> QED
    BY <1>4, <2>9 DEF Ledger!Next, Ledger!ReviewStep, ReviewKinds
<1> QED
  BY <1>3, <1>4

LEMMA EventCommandsImplement ==
    ASSUME Ledger!TypeOK, NEW m \in Members, NEW t \in Request, RequestOK(m, t), t.effect # None,
           Installs(m, t), t.cmd.kind \in {"CREATE", "UPDATE", "ARCHIVE"} \cup DecisionKinds
    PROVE  Ledger!Next
<1>1. /\ t.cmd \in Command /\ t.cmd.body \in Body /\ t.cmd.kind = t.cmd.body.kind
      /\ WellFormed(t.cmd.body) /\ Named(t) /\ TargetExists(t.cmd) /\ DrawsFresh(t)
      /\ Permitted(m, t.cmd.kind) /\ Found(m, t.cmd) /\ StateAllows(t.cmd) /\ ~DatabaseRefuses(m, t)
  BY CommitChecked
<1>2. category' = category /\ review' = review
  BY TablesAfter DEF CategoryKinds, DecisionKinds, ReviewKinds
<1>3. t.cmd.kind \in {"CREATE", "UPDATE"} =>
          /\ t.cmd.body.activity \in Activities /\ t.cmd.body.amount \in Amounts
          /\ t.cmd.category \in Categories /\ category[t.cmd.category] # None
          /\ category[t.cmd.category].status = "ACTIVE" /\ CategoryFits(t)
  <2>1. t.cmd.kind \in {"CREATE", "UPDATE"} => SelectsCategory(t.cmd.body) /\ t.cmd.category # None
    BY <1>1, WhoSelects DEF SelectsCategory
  <2>2. t.cmd.category # None =>
            /\ t.cmd.category \in Categories /\ category[t.cmd.category] # None
            /\ category[t.cmd.category].status = "ACTIVE" /\ CategoryFits(t)
    BY CommitChecked
  <2> QED
    BY <1>1, <2>1, <2>2 DEF WellFormed
<1>4. CASE t.cmd.kind = "CREATE"
  <2>1. PICK e \in Events : e = t.new[1] /\ e \in Draws(t)
    BY <1>1, <1>4, FirstDrawn
  <2>2. event[e] = None
    BY <2>1, InstalledWhere
  <2>3. t.cmd.body.direction \in Ledger!Directions
    BY <1>1, <1>4 DEF WellFormed, SelectsCategory, Ledger!Directions
  <2>4. Ledger!Selectable(t.cmd.category, t.cmd.body.direction, t.cmd.body.activity)
    BY <1>3, <1>4 DEF CategoryFits, Ledger!Selectable
  <2>5. Ledger!Can(m, "CREATE_FINANCIAL_SUBMISSION")
    BY <1>1, <1>4 DEF Permitted, DecisionKinds, LifecycleKinds, CategoryKinds
  <2>6. event' = [event EXCEPT ![e] = InsertedRow(m, t, e)]
    BY <1>4, <2>1, TablesAfter
  <2>7. InsertedRow(m, t, e) =
            Ledger!NewEvent(m, t.cmd.category, t.cmd.body.direction, t.cmd.body.activity, t.cmd.body.amount)
    BY <1>4 DEF InsertedRow, ReviewKinds
  <2>8. audit' = Ledger!Record(e, IF Role[m] = "ADMIN" THEN "CREATED_APPROVED" ELSE "SUBMITTED")
    BY <1>4, <2>1 DEF Installs, AuditAction, Resource, Inserting
  <2>9. Ledger!CreateEvent(m, e, t.cmd.category, t.cmd.body.direction, t.cmd.body.activity, t.cmd.body.amount)
    BY <1>2, <2>2, <2>4, <2>5, <2>6, <2>7, <2>8 DEF Ledger!CreateEvent
  <2> QED
    BY <1>3, <1>4, <2>2, <2>3, <2>9 DEF Ledger!Next, Ledger!EventStep, Ledger!Fresh, Ledger!Rows
<1>5. CASE t.cmd.kind \in {"UPDATE", "ARCHIVE"} \cup DecisionKinds
  <2>1. PICK e \in Events : e = t.cmd.target /\ event[e] # None /\ RowOf(t.cmd) = event[e]
    BY <1>1, <1>5, TargetRow DEF LifecycleKinds
  <2>2. event' = [event EXCEPT ![e] = RewrittenRow(t)]
    BY <1>5, <2>1, TablesAfter
  <2>3. event \in [Events -> Ledger!EventRow \cup {None}] /\ event[e] \in Ledger!EventRow
    BY <2>1 DEF Ledger!TypeOK
  <2>4. Resource(t) = e
    BY <1>5, <2>1 DEF Resource, Inserting, ReviewKinds, DecisionKinds
  <2>5. CASE t.cmd.kind = "UPDATE"
    <3>1. Role[m] = "CONTRIBUTOR"
      BY <1>1, <2>5 DEF Permitted, DecisionKinds, LifecycleKinds, CategoryKinds
    <3>2. event[e].creator = m
      BY <1>1, <2>1, <2>5 DEF Found, ReviewKinds
    <3>3. Ledger!IsPending(event[e])
      BY <1>1, <2>1, <2>5 DEF StateAllows
    <3>4. event[e].version < MaxVersion
      BY <2>1, <2>5, CommitChecked
    <3>5. Ledger!Selectable(t.cmd.category, event[e].direction, t.cmd.body.activity)
      BY <1>3, <2>1, <2>5 DEF CategoryFits, Ledger!Selectable
    <3>6. RewrittenRow(t) = [event[e] EXCEPT !.category = t.cmd.category, !.activity = t.cmd.body.activity,
                                             !.amount = t.cmd.body.amount, !.version = @ + 1]
      BY <2>1, <2>5 DEF RewrittenRow
    <3>7. event' = [event EXCEPT ![e].category = t.cmd.category, ![e].activity = t.cmd.body.activity,
                                 ![e].amount = t.cmd.body.amount, ![e].version = @ + 1]
      BY <2>2, <2>3, <3>6
    <3>8. audit' = Ledger!Record(e, "PENDING_UPDATED")
      BY <2>4, <2>5 DEF Installs, AuditAction
    <3>9. Ledger!UpdatePendingEvent(m, e, t.cmd.category, t.cmd.body.activity, t.cmd.body.amount)
      BY <1>2, <2>1, <3>1, <3>2, <3>3, <3>4, <3>5, <3>7, <3>8 DEF Ledger!UpdatePendingEvent
    <3> QED
      BY <1>3, <2>1, <2>5, <3>9 DEF Ledger!Next, Ledger!EventStep, Ledger!Rows
  <2>6. CASE t.cmd.kind \in DecisionKinds
    <3>1. Ledger!Can(m, "APPROVE_OR_REJECT_SUBMISSIONS")
      BY <1>1, <2>6 DEF Permitted, DecisionKinds, LifecycleKinds, CategoryKinds
    <3>2. Ledger!IsPending(event[e])
      BY <1>1, <2>1, <2>6 DEF StateAllows, DecisionKinds
    <3>3. PICK approval \in {"APPROVED", "REJECTED"} :
              approval = IF t.cmd.kind = "APPROVE" THEN "APPROVED" ELSE "REJECTED"
      OBVIOUS
    <3>4. RewrittenRow(t) =
              [event[e] EXCEPT !.approval = approval,
                               !.posting = IF approval = "APPROVED" THEN "EFFECTIVE" ELSE "NOT_EFFECTIVE",
                               !.version = @ + 1]
      <4>1. t.cmd.kind = "APPROVE" =>
                RewrittenRow(t) = [event[e] EXCEPT !.approval = "APPROVED", !.posting = "EFFECTIVE",
                                                   !.version = @ + 1]
        BY <2>1 DEF RewrittenRow
      <4>2. t.cmd.kind = "REJECT" =>
                RewrittenRow(t) = [event[e] EXCEPT !.approval = "REJECTED", !.version = @ + 1]
        BY <2>1 DEF RewrittenRow
      <4>3. event[e].posting = "NOT_EFFECTIVE"
        BY <3>2 DEF Ledger!IsPending
      <4>4. [event[e] EXCEPT !.approval = "REJECTED", !.version = @ + 1] =
                [event[e] EXCEPT !.approval = "REJECTED", !.posting = "NOT_EFFECTIVE", !.version = @ + 1]
        BY <2>3, <4>3 DEF Ledger!EventRow
      <4> QED
        BY <2>6, <3>3, <4>1, <4>2, <4>4 DEF DecisionKinds
    <3>5. event' = [event EXCEPT
              ![e].approval = approval,
              ![e].posting = IF approval = "APPROVED" THEN "EFFECTIVE" ELSE "NOT_EFFECTIVE",
              ![e].version = @ + 1]
      BY <2>2, <2>3, <3>4
    <3>6. audit' = Ledger!Record(e, approval)
      BY <2>4, <2>6, <3>3 DEF Installs, AuditAction, DecisionKinds
    <3>7. Ledger!DecidePendingEvent(m, e, approval)
      BY <1>2, <2>1, <3>1, <3>2, <3>5, <3>6 DEF Ledger!DecidePendingEvent
    <3> QED
      BY <2>1, <3>7 DEF Ledger!Next, Ledger!EventStep, Ledger!Rows
  <2>7. CASE t.cmd.kind = "ARCHIVE"
    <3>1. Ledger!Can(m, "APPROVE_OR_REJECT_SUBMISSIONS")
      BY <1>1, <2>7 DEF Permitted, DecisionKinds, LifecycleKinds, CategoryKinds
    <3>2. event[e].approval # "PENDING" /\ ~event[e].archived
      BY <1>1, <2>1, <2>7 DEF StateAllows, DecisionKinds
    <3>3. Ledger!HistoryGuard(event[e])
      BY <1>1, <2>1, <2>7 DEF DatabaseRefuses
    <3>4. RewrittenRow(t) = [event[e] EXCEPT !.archived = TRUE, !.version = @ + 1]
      BY <2>1, <2>7 DEF RewrittenRow
    <3>5. event' = [event EXCEPT ![e].archived = TRUE, ![e].version = @ + 1]
      BY <2>2, <2>3, <3>4
    <3>6. audit' = Ledger!Record(e, "ARCHIVED")
      BY <2>4, <2>7 DEF Installs, AuditAction
    <3>7. Ledger!ArchiveEvent(m, e)
      BY <1>2, <2>1, <3>1, <3>2, <3>3, <3>5, <3>6 DEF Ledger!ArchiveEvent
    <3> QED
      BY <2>1, <3>7 DEF Ledger!Next, Ledger!EventStep, Ledger!Rows
  <2> QED
    BY <1>5, <2>5, <2>6, <2>7
<1> QED
  BY <1>4, <1>5

LEMMA ReversalCommandsImplement ==
    ASSUME Ledger!TypeOK, NEW m \in Members, NEW t \in Request, RequestOK(m, t), t.effect # None,
           Installs(m, t), t.cmd.kind \in {"REVERSE", "CORRECT"}
    PROVE  Ledger!Next
<1>1. /\ t.cmd \in Command /\ t.cmd.body \in Body /\ t.cmd.kind = t.cmd.body.kind
      /\ WellFormed(t.cmd.body) /\ Named(t) /\ TargetExists(t.cmd) /\ DrawsFresh(t)
      /\ Permitted(m, t.cmd.kind) /\ StateAllows(t.cmd) /\ ~DatabaseRefuses(m, t)
  BY CommitChecked
<1>2. category' = category /\ review' = review
  BY TablesAfter DEF CategoryKinds, ReviewKinds
<1>3. PICK e \in Events : e = t.cmd.target /\ event[e] # None /\ RowOf(t.cmd) = event[e]
  BY <1>1, TargetRow DEF LifecycleKinds
<1>4. Ledger!Can(m, "APPROVE_OR_REJECT_SUBMISSIONS")
  BY <1>1 DEF Permitted, DecisionKinds, LifecycleKinds, CategoryKinds
<1>5. Ledger!IsReversible(event[e])
  BY <1>1, <1>3 DEF StateAllows, DecisionKinds
<1>6. Ledger!HistoryGuard(Ledger!ReversalOf(m, e))
  BY <1>1, <1>3 DEF DatabaseRefuses
<1>7. PICK r \in Events : r = t.new[1] /\ r \in Draws(t)
  BY <1>1, FirstDrawn
<1>8. event[r] = None /\ r # e
  BY <1>3, <1>7, InstalledWhere
<1>9. /\ event \in [Events -> Ledger!EventRow \cup {None}] /\ event[e] \in Ledger!EventRow
      /\ event' \in [Events -> Ledger!EventRow \cup {None}]
  BY <1>3, InstallsTyped DEF Ledger!TypeOK
<1>10. RewrittenRow(t) = [event[e] EXCEPT !.posting = "REVERSED", !.version = @ + 1]
  BY <1>3 DEF RewrittenRow
<1>11. InsertedRow(m, t, r) = Ledger!ReversalOf(m, e)
  BY <1>3, <1>7 DEF InsertedRow, ReviewKinds
<1>12. t.cmd.kind \notin Inserting /\ Resource(t) = e
  BY <1>3 DEF Inserting, ReviewKinds, Resource
<1>13. \A x \in Events :
          event'[x] = IF x \in Draws(t) THEN InsertedRow(m, t, x)
                      ELSE IF x = e THEN RewrittenRow(t) ELSE event[x]
  BY <1>3, <1>12, Installed
<1>14. CASE t.cmd.category = None
  <2>1. Draws(t) = {r}
    BY <1>1, <1>7, <1>14, FirstDrawn
  <2>2. event' = [event EXCEPT ![e] = RewrittenRow(t), ![r] = Ledger!ReversalOf(m, e)]
    BY <1>8, <1>9, <1>11, <1>13, <2>1
  <2>3. event' = [event EXCEPT ![e].posting = "REVERSED", ![e].version = @ + 1,
                               ![r] = Ledger!ReversalOf(m, e)]
    BY <1>9, <1>10, <2>2
  <2>4. PICK action \in {"REVERSED", "CORRECTED"} : action = AuditAction(m, t.cmd.kind)
    BY DEF AuditAction
  <2>5. audit' = Ledger!Record(e, action)
    BY <1>12, <2>4 DEF Installs
  <2>6. Ledger!ReverseEvent(m, e, r, action)
    BY <1>2, <1>3, <1>4, <1>5, <1>6, <1>8, <2>3, <2>5 DEF Ledger!ReverseEvent
  <2> QED
    BY <1>3, <1>8, <2>6 DEF Ledger!Next, Ledger!EventStep, Ledger!Fresh, Ledger!Rows
<1>15. CASE t.cmd.category # None
  <2>1. t.cmd.kind = "CORRECT" /\ SelectsCategory(t.cmd.body)
    BY <1>1, <1>15, WhoSelects
  <2>2. PICK p \in Events : p = t.new[2] /\ p # r /\ Draws(t) = {r, p}
    BY <1>1, <1>7, <1>15, <2>1, FirstDrawn
  <2>3. event[p] = None /\ p # e
    BY <1>3, <2>2, InstalledWhere
  <2>4. /\ t.cmd.body.activity \in Activities /\ t.cmd.body.amount \in Amounts
        /\ t.cmd.body.direction \in Ledger!Directions
    BY <1>1, <2>1 DEF WellFormed, Ledger!Directions
  <2>5. /\ t.cmd.category \in Categories
        /\ Ledger!Selectable(t.cmd.category, t.cmd.body.direction, t.cmd.body.activity)
    <3>1. /\ t.cmd.category \in Categories /\ category[t.cmd.category] # None
          /\ category[t.cmd.category].status = "ACTIVE" /\ CategoryFits(t)
      BY <1>15, CommitChecked
    <3> QED
      BY <2>1, <3>1 DEF CategoryFits, Ledger!Selectable
  <2>6. InsertedRow(m, t, p) =
            Ledger!ReplacementFor(m, e, t.cmd.category, t.cmd.body.direction, t.cmd.body.activity,
                                  t.cmd.body.amount)
    BY <1>3, <1>7, <2>1, <2>2 DEF InsertedRow, ReviewKinds
  <2>7. event' = [event EXCEPT ![e] = RewrittenRow(t), ![r] = Ledger!ReversalOf(m, e), ![p] = InsertedRow(m, t, p)]
    BY <1>8, <1>9, <1>11, <1>13, <2>2, <2>3
  <2>8. event' = [event EXCEPT ![e].posting = "REVERSED", ![e].version = @ + 1,
                               ![r] = Ledger!ReversalOf(m, e),
                               ![p] = Ledger!ReplacementFor(m, e, t.cmd.category, t.cmd.body.direction,
                                                            t.cmd.body.activity, t.cmd.body.amount)]
    BY <1>9, <1>10, <2>6, <2>7
  <2>9. audit' = Ledger!Record(e, "CORRECTED")
    BY <1>12, <2>1 DEF Installs, AuditAction
  <2>10. Ledger!CorrectEvent(m, e, r, p, t.cmd.category, t.cmd.body.direction, t.cmd.body.activity,
                             t.cmd.body.amount)
    BY <1>2, <1>3, <1>4, <1>5, <1>6, <1>8, <2>2, <2>3, <2>5, <2>8, <2>9 DEF Ledger!CorrectEvent
  <2> QED
    BY <1>3, <1>8, <2>3, <2>4, <2>5, <2>10 DEF Ledger!Next, Ledger!EventStep, Ledger!Fresh, Ledger!Rows
<1> QED
  BY <1>14, <1>15

LEMMA CommitImplements ==
    ASSUME IInv, NEW m \in Members, Commit(m)
    PROVE  Ledger!Next \/ UNCHANGED ledgerVars
<1>1. PICK t \in Request : t = tx[m] /\ RequestOK(m, t)
  BY OpenRequest, IdleIsNoRequest DEF Commit, Idle
<1>2. CASE t.effect = None
  <2>1. category' = category /\ event' = event /\ review' = review /\ audit' = audit
    BY <1>1, <1>2, CommitParts
  <2> QED
    BY <2>1 DEF ledgerVars
<1>3. CASE t.effect # None
  <2>1. Installs(m, t) /\ Ledger!TypeOK /\ ReviewsNameEvents
    BY <1>1, <1>3, CommitParts DEF IInv
  <2>2. t.cmd.kind \in Kinds
    BY <1>1, <1>3, CommitChecked
  <2>3. t.cmd.kind \in CategoryKinds => Ledger!Next
    BY <1>1, <1>3, <2>1, CategoryCommandsImplement
  <2>4. t.cmd.kind \in {"RESOLVE"} \cup ReviewKinds => Ledger!Next
    BY <1>1, <1>3, <2>1, ReviewCommandsImplement
  <2>5. t.cmd.kind \in {"CREATE", "UPDATE", "ARCHIVE"} \cup DecisionKinds => Ledger!Next
    BY <1>1, <1>3, <2>1, EventCommandsImplement
  <2>6. t.cmd.kind \in {"REVERSE", "CORRECT"} => Ledger!Next
    BY <1>1, <1>3, <2>1, ReversalCommandsImplement
  <2>7. t.cmd.kind \in CategoryKinds \cup {"RESOLVE"} \cup ReviewKinds \cup {"CREATE", "UPDATE", "ARCHIVE"}
                        \cup DecisionKinds \cup {"REVERSE", "CORRECT"}
    BY <2>2 DEF Kinds, Idempotent, LifecycleKinds
  <2> QED
    BY <2>3, <2>4, <2>5, <2>6, <2>7
<1> QED
  BY <1>2, <1>3

\* Every step of the transactions that interleave is one step of the ledger or
\* changes none of its tables: committed tables behave as if every command ran
\* alone.
THEOREM CommandsImplementLedger == Spec => ImplementsLedger
<1>1. Init => Ledger!Init
  BY DEF Init
<1>2. IInv /\ [Next]_vars => [Ledger!Next]_(Ledger!vars)
  <2>1. SUFFICES ASSUME IInv, [Next]_vars PROVE Ledger!Next \/ UNCHANGED ledgerVars
    BY DEF ledgerVars, Ledger!vars
  <2>2. CASE UNCHANGED vars
    BY <2>2 DEF vars, ledgerVars
  <2>3. ASSUME NEW m \in Members, Begin(m) PROVE UNCHANGED ledgerVars
    BY <2>3 DEF Begin
  <2>4. ASSUME NEW m \in Members, ValidateCategory(m) PROVE UNCHANGED ledgerVars
    BY <2>4 DEF ValidateCategory, Untouched
  <2>5. ASSUME NEW m \in Members, Claim(m) PROVE UNCHANGED ledgerVars
    BY <2>5 DEF Claim, Untouched
  <2>6. ASSUME NEW m \in Members, Apply(m) PROVE UNCHANGED ledgerVars
    BY <2>6 DEF Apply, Untouched
  <2>7. ASSUME NEW m \in Members, SelectCategory(m) PROVE UNCHANGED ledgerVars
    BY <2>7 DEF SelectCategory, Untouched
  <2>8. ASSUME NEW m \in Members, Commit(m) PROVE Ledger!Next \/ UNCHANGED ledgerVars
    BY <2>1, <2>8, CommitImplements
  <2>9. ASSUME NEW m \in Members, Crash(m) PROVE UNCHANGED ledgerVars
    BY <2>9 DEF Crash, Untouched
  <2>10. ASSUME NEW m \in Members, BreakDeadlock(m) PROVE UNCHANGED ledgerVars
    BY <2>10 DEF BreakDeadlock, Untouched
  <2>11. ASSUME NEW m \in Members, ToggleModule(m) PROVE UNCHANGED ledgerVars
    BY <2>11 DEF ToggleModule
  <2> QED
    BY <2>1, <2>2, <2>3, <2>4, <2>5, <2>6, <2>7, <2>8, <2>9, <2>10, <2>11 DEF Next, Serve
<1> QED
  BY <1>1, <1>2, CommandsInvariant, PTL DEF ImplementsLedger, Ledger!Spec, Spec

=============================================================================
