-------------------------- MODULE WorkspaceMembers --------------------------
(***************************************************************************)
(* The members of one workspace: bootstrap, which creates the workspace    *)
(* and its first Admin, invitation and activation, the Admin's changes of  *)
(* role and status, ownership transfer, account recovery, and the settings *)
(* update as a plain Admin command.  A request is one READ COMMITTED       *)
(* transaction.  Its steps are the row locks it takes, in the order of the *)
(* code; each checks what it then reads, and the writes of the request     *)
(* become visible together when it commits.                                *)
(*                                                                         *)
(* A refusal commits nothing but audit records, which are left out.  A     *)
(* wrong password and an expired access credential have the effect of      *)
(* Crash, and so has a message that cannot be delivered, which Provision,  *)
(* Restart and Initiate may find too: nothing is kept.  No code makes an   *)
(* ACTIVE account inactive or changes the status of a workspace.           *)
(* The deferred owner key and the one-Admin index are not modelled:        *)
(* OwnerIsTheOneAdmin shows that they are never what stops a request.      *)
(***************************************************************************)
EXTENDS Integers, Sequences, FiniteSets, Functions

CONSTANTS
    Accounts,       \* the people; each has at most one membership
    Founder,        \* the Admin of a workspace that already exists
    Joined,         \* people who may be ACTIVE members from the start
    MemberIds,      \* Accounts in the order of their membership ids
    Roles,          \* the roles other than ADMIN
    Challenges, Recoveries, Transfers,   \* identifiers of activation, recovery, transfer rows
    Workers,        \* the transactions that may be open at once
    Kinds,          \* the requests that may be sent
    MaxVersion,     \* bound: no If-Match request is sent for a row at this version
    None

VARIABLES
    db,    \* the committed rows
    lock,  \* row and advisory locks: the worker that holds it, or None
    tx     \* the transaction each worker runs

vars == <<db, lock, tx>>

Mutations   == {"CHANGE_ROLE", "SUSPEND", "REACTIVATE", "REVOKE"}
AdminKinds  == Mutations \cup {"SETTINGS", "PROVISION", "RESTART"}
BearerKinds == AdminKinds \cup {"INITIATE", "CONFIRM", "CANCEL"}
PublicKinds == {"BOOTSTRAP", "ACTIVATE", "LOGIN", "RECOVER", "CONFIRM_RECOVERY"}

\* What the rows hold.  A session carries, as history, the role and status of
\* the membership when it was opened; one live session per account is followed.
WorkspaceRow == [owner : Accounts, version : Nat \ {0}]
Membership   == [role : Roles \cup {"ADMIN"}, status : {"PENDING", "ACTIVE", "SUSPENDED", "REVOKED"},
                 version : Nat \ {0}]
LiveSession  == [role : Roles \cup {"ADMIN"}, status : {"PENDING", "ACTIVE", "SUSPENDED", "REVOKED"}]
Activation   == [member : Accounts, status : {"ISSUED", "USED", "EXPIRED", "REVOKED"}]
RecoveryRow  == [account : Accounts, status : {"ISSUED", "USED", "EXPIRED", "REVOKED"}]
TransferRow  == [from : Accounts, to : Accounts, former : Roles,
                 status : {"INITIATED", "CANCELLED", "EXPIRED", "COMPLETED"}, version : Nat \ {0}]

ASSUME MembersAssumption ==
    /\ Founder \in Accounts
    /\ Joined \subseteq Accounts \ {Founder}
    /\ Kinds \subseteq BearerKinds \cup PublicKinds
    /\ MaxVersion \in Nat
    /\ "ADMIN" \notin Roles
    /\ IsFiniteSet(Challenges) /\ IsFiniteSet(Recoveries)
    /\ None \notin Accounts \cup Workers \cup {"COMPLETE", "ACTIVE", "PENDING_ACTIVATION"}
    /\ None \notin WorkspaceRow \cup Membership \cup LiveSession \cup Activation
                   \cup RecoveryRow \cup TransferRow

\* Names of rows, and of the advisory lock of an e-mail address.
Workspace    == <<"workspace">>
Installation == <<"installation">>
Account(a)   == <<"account", a>>
Member(a)    == <<"member", a>>
Session(a)   == <<"session", a>>
Email(a)     == <<"email", a>>
Challenge(c) == <<"challenge", c>>
Recovery(r)  == <<"recovery", r>>
Transfer(t)  == <<"transfer", t>>

SessionRows   == {Session(a) : a \in Accounts}
ChallengeRows == {Challenge(c) : c \in Challenges}
RecoveryRows  == {Recovery(r) : r \in Recoveries}
TransferRows  == {Transfer(t) : t \in Transfers}
Rows == {Workspace, Installation} \cup {Account(a) : a \in Accounts} \cup {Member(a) : a \in Accounts}
        \cup SessionRows \cup ChallengeRows \cup RecoveryRows \cup TransferRows
Addresses == {Email(a) : a \in Accounts}
Lockable  == (Rows \ TransferRows) \cup Addresses

Idle == [pc |-> "idle", writes |-> <<>>]

Opened(m) == [role |-> m.role, status |-> m.status]

\* The rows of bootstrap: the workspace, the account of its owner, the
\* membership, and the completion that closes bootstrap.
Founded(a) ==
    [x \in {Installation, Workspace, Account(a), Member(a)} |->
        CASE x = Installation -> "COMPLETE"
          [] x = Workspace    -> [owner |-> a, version |-> 1]
          [] x = Account(a)   -> "ACTIVE"
          [] x = Member(a)    -> [role |-> "ADMIN", status |-> "ACTIVE", version |-> 1]]

\* A workspace that others have joined, with everyone logged in.
Populated(joined, roles) ==
    [x \in Rows |->
        CASE x \in DOMAIN Founded(Founder)         -> Founded(Founder)[x]
          [] x = Session(Founder)                  -> Opened(Founded(Founder)[Member(Founder)])
          [] x \in {Account(a) : a \in joined}     -> "ACTIVE"
          [] x \in {Member(a) : a \in joined}      -> [role |-> roles[x[2]], status |-> "ACTIVE", version |-> 1]
          [] x \in {Session(a) : a \in joined}     -> [role |-> roles[x[2]], status |-> "ACTIVE"]
          [] OTHER                                 -> None]

\* Before bootstrap, or after it and perhaps the activation of others.
Init ==
    /\ \/ db = [x \in Rows |-> None]
       \/ \E joined \in SUBSET Joined : \E roles \in [joined -> Roles] : db = Populated(joined, roles)
    /\ lock = [x \in Lockable |-> None]
    /\ tx = [w \in Workers |-> Idle]

-----------------------------------------------------------------------------
(* Reads, and the three ways a step ends.                                  *)

Owner == db[Workspace].owner
Free(w, x) == lock[x] \in {None, w}

\* uuid4: identifiers are interchangeable; none is left at the bound.
FreshIn(rows) ==
    LET unused == {x \in rows : db[x] = None /\ \A w \in Workers : x \notin DOMAIN tx[w].writes} IN
    IF unused = {} THEN {} ELSE {CHOOSE x \in unused : TRUE}

\* The rows an UPDATE that ends sessions, challenges or recoveries matches.
Open(x) == db[x] # None /\ (x \notin SessionRows => db[x].status = "ISSUED")
Ended(x) == IF x \in SessionRows THEN None ELSE [db[x] EXCEPT !.status = "REVOKED"]

Refuse(t) == {[t EXCEPT !.pc = "commit"]}
Wait(t, stage, rows) == {[t EXCEPT !.stage = stage, !.todo = rows]}

\* An UPDATE locks the rows it matches in the order it comes across them.
ScanOrders(rows) == Bijection(1 .. Cardinality(rows), rows)

\* The request's writes are settled; its UPDATE statements then wait for
\* those of `rows` that are open in their snapshot.
Finish(t, writes, rows) ==
    LET matched == {x \in rows : Open(x)} IN
    {[t EXCEPT !.pc = IF matched = {} THEN "commit" ELSE "lock",
               !.stage = "update", !.ends = matched, !.todo = order, !.writes = writes] :
         order \in ScanOrders(matched)}

\* ... and write those that still match once their locks are held.
Update(t) ==
    LET still == {x \in t.ends : Open(x)} IN
    {[t EXCEPT !.pc = "commit",
               !.writes = [x \in still \cup DOMAIN @ |-> IF x \in still THEN Ended(x) ELSE @[x]]]}

IssuedTo(a) == {x \in ChallengeRows : Open(x) /\ db[x].member = a}
RecoveriesOf(a) == {x \in RecoveryRows : Open(x) /\ db[x].account = a}

\* SELECT memberships JOIN accounts ... ORDER BY membership id FOR UPDATE.
Earlier(a, b) == \E i, j \in DOMAIN MemberIds : i < j /\ MemberIds[i] = a /\ MemberIds[j] = b
Pair(a, b) ==
    IF Earlier(a, b) THEN <<Member(a), Account(a), Member(b), Account(b)>>
    ELSE <<Member(b), Account(b), Member(a), Account(a)>>

-----------------------------------------------------------------------------
(* Authentication and authorization.                                       *)

Authenticate(t) ==
    IF db[Session(t.actor)] = None THEN Refuse(t) ELSE Wait(t, "account", <<Account(t.actor)>>)

\* What an authorized request locks next.  Queries whose WHERE clause the
\* snapshot does not satisfy lock nothing and refuse.
Plan(t) ==
    CASE t.kind \in AdminKinds /\ t.seen # "ADMIN" -> Refuse(t)
      [] t.kind \in Mutations -> Wait(t, "mutate", <<Workspace, Member(t.on), Account(t.on)>>)
      [] t.kind = "SETTINGS" -> Wait(t, "settings", <<Workspace>>)
      [] t.kind = "PROVISION" -> Wait(t, "provision", <<Email(t.on)>>)
      [] t.kind = "RESTART" ->
            IF db[Member(t.on)].status = "PENDING"
            THEN Wait(t, "restart", <<Member(t.on), Account(t.on)>>) ELSE Refuse(t)
      [] t.kind = "INITIATE" ->
            IF Owner = t.actor
            THEN Wait(t, "candidate", <<Member(t.actor), Workspace>>) ELSE Refuse(t)
      [] t.kind = "CONFIRM" -> Wait(t, "transfer", <<Workspace>>)
      [] t.kind = "CANCEL" -> Wait(t, "owner", <<Workspace>>)

Authorize(t) ==
    LET m == db[Member(t.actor)] IN
    IF m.status # "ACTIVE" THEN Refuse(t) ELSE Plan([t EXCEPT !.seen = m.role])

-----------------------------------------------------------------------------
(* Bootstrap of the installation.                                          *)

\* Bug: completion is not checked under the lock.
BootstrapUnguarded(t) == Finish(t, Founded(t.on), {})

\* The guard row is inserted, which waits for another's insertion, or locked.
Bootstrap(t) == IF db[Installation] # None THEN Refuse(t) ELSE Finish(t, Founded(t.on), {})

-----------------------------------------------------------------------------
(* Membership administration.                                              *)

\* Bug: whoever is not ACTIVE can be reactivated.
AllowedToReturn(t, m) ==
    /\ m.role # "ADMIN"
    /\ t.kind = "CHANGE_ROLE" => t.role # m.role
    /\ t.kind = "SUSPEND" => m.status = "ACTIVE"
    /\ t.kind = "REACTIVATE" => m.status # "ACTIVE"

\* validate_transition.
Allowed(t, m) ==
    /\ m.role # "ADMIN"
    /\ m.status # "REVOKED"
    /\ t.kind = "CHANGE_ROLE" => t.role # m.role
    /\ t.kind = "SUSPEND" => m.status = "ACTIVE"
    /\ t.kind = "REACTIVATE" => m.status = "SUSPENDED"

Moved(t, m) ==
    [role    |-> IF t.kind = "CHANGE_ROLE" THEN t.role ELSE m.role,
     status  |-> CASE t.kind = "CHANGE_ROLE" -> m.status
                   [] t.kind = "SUSPEND"     -> "SUSPENDED"
                   [] t.kind = "REACTIVATE"  -> "ACTIVE"
                   [] t.kind = "REVOKE"      -> "REVOKED",
     version |-> m.version + 1]

\* Bug: a role change ends no session.
EndsOfInactive(t) ==
    (IF t.kind \in {"SUSPEND", "REVOKE"} THEN {Session(t.on)} ELSE {})
        \cup (IF t.kind = "REVOKE" THEN IssuedTo(t.on) ELSE {})

\* Bug: revocation leaves the activation challenge.
EndsOfSessions(t) == IF t.kind = "REACTIVATE" THEN {} ELSE {Session(t.on)}

\* Sessions end, and on revocation the open challenge too.
EndsOf(t) ==
    (IF t.kind = "REACTIVATE" THEN {} ELSE {Session(t.on)})
        \cup (IF t.kind = "REVOKE" THEN IssuedTo(t.on) ELSE {})

Mutate(t) ==
    LET m == db[Member(t.on)] IN
    IF /\ t.on # Owner
       /\ m.version = t.version
       /\ Allowed(t, m)
       /\ t.kind = "REACTIVATE" => db[Account(t.on)] = "ACTIVE"
    THEN Finish(t, [x \in {Member(t.on)} |-> Moved(t, m)], EndsOf(t))
    ELSE Refuse(t)

UpdateSettings(t) ==
    IF db[Workspace].version = t.version
    THEN Finish(t, [x \in {Workspace} |-> [db[Workspace] EXCEPT !.version = @ + 1]], {})
    ELSE Refuse(t)

-----------------------------------------------------------------------------
(* Invitation and activation.                                              *)

NewChallenge(a) == [member |-> a, status |-> "ISSUED"]

\* The rows of an invitation.
Invited(t, c) ==
    [x \in {Account(t.on), Member(t.on), c} |->
        CASE x = Account(t.on) -> "PENDING_ACTIVATION"
          [] x = Member(t.on)  -> [role |-> t.role, status |-> "PENDING", version |-> 1]
          [] x = c             -> NewChallenge(t.on)]

\* Under the lock of the address: a known account is locked and then found to
\* be a member; an unknown one is created with its membership and challenge.
Provision(t) ==
    IF db[Account(t.on)] # None THEN Wait(t, "duplicate", <<Account(t.on)>>)
    ELSE Refuse(t) \cup UNION {Finish(t, Invited(t, c), {}) : c \in FreshIn(ChallengeRows)}

\* The rows of an activation that starts again.
Reissued(t, c) ==
    [x \in {Member(t.on), c} |->
        IF x = c THEN NewChallenge(t.on) ELSE [db[Member(t.on)] EXCEPT !.version = @ + 1]]

Restart(t) ==
    LET m == db[Member(t.on)] IN
    IF m.status # "PENDING" \/ m.version # t.version THEN Refuse(t)
    ELSE Refuse(t) \cup UNION {Finish(t, Reissued(t, c), IssuedTo(t.on)) : c \in FreshIn(ChallengeRows)}

\* The rows of an activation: the proof is used up, member and account active.
Activated(t) ==
    LET a == db[t.key].member IN
    [x \in {t.key, Member(a), Account(a)} |->
        CASE x = t.key      -> [db[t.key] EXCEPT !.status = "USED"]
          [] x = Member(a)  -> [db[Member(a)] EXCEPT !.status = "ACTIVE", !.version = @ + 1]
          [] x = Account(a) -> "ACTIVE"]

\* A proof that is looked at too late.
Expired(t) == [x \in {t.key} |-> [db[t.key] EXCEPT !.status = "EXPIRED"]]

\* A challenge that is ISSUED may be found expired.
Activate(t) ==
    IF db[t.key].status # "ISSUED" THEN Refuse(t)
    ELSE Finish(t, Expired(t), {})
         \cup (IF db[Member(db[t.key].member)].status # "PENDING" THEN Refuse(t)
               ELSE Finish(t, Activated(t), {}))

-----------------------------------------------------------------------------
(* Ownership transfer.                                                     *)

Close(x, status) == [db[x] EXCEPT !.status = status, !.version = @ + 1]
Initiated == {x \in TransferRows : db[x] # None /\ db[x].status = "INITIATED"}

\* The owner's own rows are locked and found unchanged, then both members.
Candidate(t) ==
    IF Owner # t.actor THEN Refuse(t)
    ELSE Wait(t, "initiate", IF t.on = t.actor THEN <<Member(t.actor)>> ELSE Pair(t.actor, t.on))

Promotable(a) ==
    db[Member(a)].role \in Roles /\ db[Member(a)].status = "ACTIVE" /\ db[Account(a)] = "ACTIVE"

\* The rows of an offer: the transfers that were open are closed.
Offered(t, open, status, new) ==
    [x \in open \cup {new} |->
        IF x = new THEN [from |-> t.actor, to |-> t.on, former |-> t.role,
                         status |-> "INITIATED", version |-> 1]
        ELSE Close(x, status)]

\* Bug: an open transfer stays open beside the new one.
InitiateBeside(t) ==
    IF Owner # t.actor \/ t.on = t.actor \/ ~Promotable(t.on) THEN Refuse(t)
    ELSE UNION {Finish(t, Offered(t, {}, "EXPIRED", new), {}) : new \in FreshIn(TransferRows)}

\* Open transfers are closed and one is opened.
Initiate(t) ==
    IF Owner # t.actor \/ t.on = t.actor \/ ~Promotable(t.on) THEN Refuse(t)
    ELSE Refuse(t) \cup UNION {Finish(t, Offered(t, Initiated, status, new), {}) :
                   new \in FreshIn(TransferRows), status \in {"EXPIRED", "CANCELLED"}}

Closed(t, status) == [x \in {t.key} |-> Close(t.key, status)]

\* The transfer is looked at under the workspace lock; the value presented is
\* the one that was sent to its target, and is wrong once it is closed.
FindTransfer(t) ==
    LET r == db[t.key] IN
    IF r.status # "INITIATED" THEN Refuse(t)
    ELSE Finish(t, Closed(t, "EXPIRED"), {})
         \cup (IF r.to # t.actor \/ Owner # r.from THEN Refuse(t)
               ELSE Wait(t, "confirm", Pair(r.from, r.to)))

\* Bug: the former owner keeps the Admin role.
HandoverKeepsRole(t) ==
    LET r == db[t.key] IN
    [x \in {t.key, Member(r.to), Workspace} |->
        CASE x = t.key        -> [r EXCEPT !.status = "COMPLETED", !.version = @ + 2]
          [] x = Member(r.to) -> [db[Member(r.to)] EXCEPT !.role = "ADMIN", !.version = @ + 1]
          [] x = Workspace    -> [owner |-> r.to, version |-> db[Workspace].version + 1]]

\* Demote, promote, move the reference, use the transfer up.
Handover(t) ==
    LET r == db[t.key] IN
    [x \in {t.key, Member(r.from), Member(r.to), Workspace} |->
        CASE x = t.key          -> [r EXCEPT !.status = "COMPLETED", !.version = @ + 2]
          [] x = Member(r.from) -> [db[Member(r.from)] EXCEPT !.role = r.former, !.version = @ + 1]
          [] x = Member(r.to)   -> [db[Member(r.to)] EXCEPT !.role = "ADMIN", !.version = @ + 1]
          [] x = Workspace      -> [owner |-> r.to, version |-> db[Workspace].version + 1]]

\* Bug: only the session of the former owner ends.
ConfirmEndsOne(t) ==
    IF Promotable(db[t.key].to) THEN Finish(t, Handover(t), {Session(db[t.key].from)}) ELSE Refuse(t)

\* Both are still what they were when the transfer was offered; the sessions
\* of both end.
Confirm(t) ==
    LET r == db[t.key] IN
    IF /\ db[Member(r.from)].role = "ADMIN"
       /\ db[Member(r.from)].status = "ACTIVE"
       /\ Promotable(r.to)
       /\ db[Member(r.to)].role = t.seen
    THEN Finish(t, Handover(t), {Session(r.from), Session(r.to)})
    ELSE Refuse(t)

CheckOwner(t) == IF Owner # t.actor THEN Refuse(t) ELSE Wait(t, "cancel", <<Member(t.actor)>>)

Cancel(t) ==
    LET r == db[t.key] IN
    IF r.from # t.actor \/ r.version # t.version \/ r.status # "INITIATED" THEN Refuse(t)
    ELSE Finish(t, Closed(t, "EXPIRED"), {}) \cup Finish(t, Closed(t, "CANCELLED"), {})

-----------------------------------------------------------------------------
(* Login and account recovery.                                             *)

Login(t) ==
    IF db[Account(t.on)] # "ACTIVE" \/ db[Session(t.on)] # None THEN Refuse(t)
    ELSE Finish(t, [x \in {Session(t.on)} |-> Opened(db[Member(t.on)])], {})

FindAddress(t) ==
    IF db[Account(t.on)] = None THEN Refuse(t) ELSE Wait(t, "recover", <<Account(t.on)>>)

Recover(t) ==
    IF db[Account(t.on)] # "ACTIVE" \/ Owner = t.on THEN Refuse(t)
    ELSE Refuse(t) \cup UNION {Finish(t, [x \in {r} |-> [account |-> t.on, status |-> "ISSUED"]], RecoveriesOf(t.on)) :
                   r \in FreshIn(RecoveryRows)}

Used(t) == [x \in {t.key} |-> [db[t.key] EXCEPT !.status = "USED"]]

\* Bug: the owner is excluded only when a recovery is requested.
ConfirmAnyRecovery(t) ==
    IF db[t.key].status # "ISSUED" THEN Refuse(t)
    ELSE Finish(t, Used(t), {Session(db[t.key].account)})

\* Whoever became owner after the challenge was issued is refused.
ConfirmRecovery(t) ==
    LET a == db[t.key].account IN
    IF db[t.key].status # "ISSUED" THEN Refuse(t)
    ELSE Finish(t, Expired(t), {})
         \cup (IF db[Account(a)] # "ACTIVE" \/ Owner = a THEN Refuse(t)
               ELSE Finish(t, Used(t), {Session(a)}))

-----------------------------------------------------------------------------
(* Transactions.                                                           *)

\* What a transaction does when it holds everything it waited for.
Proceed(t) ==
    CASE t.stage = "session"          -> Authenticate(t)
      [] t.stage = "account"          -> Authorize(t)
      [] t.stage = "mutate"           -> Mutate(t)
      [] t.stage = "settings"         -> UpdateSettings(t)
      [] t.stage = "provision"        -> Provision(t)
      [] t.stage = "duplicate"        -> Refuse(t)
      [] t.stage = "restart"          -> Restart(t)
      [] t.stage = "candidate"        -> Candidate(t)
      [] t.stage = "initiate"         -> Initiate(t)
      [] t.stage = "transfer"         -> FindTransfer(t)
      [] t.stage = "confirm"          -> Confirm(t)
      [] t.stage = "owner"            -> CheckOwner(t)
      [] t.stage = "cancel"           -> Cancel(t)
      [] t.stage = "BOOTSTRAP"        -> Bootstrap(t)
      [] t.stage = "ACTIVATE"         -> Activate(t)
      [] t.stage = "LOGIN"            -> Login(t)
      [] t.stage = "RECOVER"          -> FindAddress(t)
      [] t.stage = "recover"          -> Recover(t)
      [] t.stage = "CONFIRM_RECOVERY" -> ConfirmRecovery(t)
      [] t.stage = "update"           -> Update(t)

Known(rows) == {x \in rows : db[x] # None}

Senders(kind) ==
    IF kind \in BearerKinds THEN {a \in Accounts : db[Session(a)] # None} ELSE {None}
Targets(kind) ==
    CASE kind \in Mutations \cup {"RESTART", "INITIATE"} -> {a \in Accounts : db[Member(a)] # None}
      [] kind \in {"BOOTSTRAP", "PROVISION", "RECOVER"} -> Accounts
      [] kind = "LOGIN" -> {a \in Accounts : db[Account(a)] # None /\ db[Session(a)] = None}
      [] OTHER -> {None}
Keys(kind) ==
    CASE kind = "ACTIVATE"              -> Known(ChallengeRows)
      [] kind = "CONFIRM_RECOVERY"      -> Known(RecoveryRows)
      [] kind \in {"CONFIRM", "CANCEL"} -> Known(TransferRows)
      [] OTHER                          -> {None}
RolesOf(kind) == IF kind \in {"CHANGE_ROLE", "PROVISION", "INITIATE"} THEN Roles ELSE {None}

\* The row whose version the If-Match header names.
Aggregate(kind, on, key) ==
    CASE kind \in Mutations \cup {"RESTART"} -> Member(on)
      [] kind = "SETTINGS"                   -> Workspace
      [] kind = "CANCEL"                     -> key
      [] OTHER                               -> None

FirstRows(kind, actor, on, key) ==
    CASE kind \in BearerKinds      -> <<Session(actor)>>
      [] kind = "BOOTSTRAP"        -> <<Installation>>
      [] kind = "ACTIVATE"         -> <<key, Member(db[key].member), Account(db[key].member)>>
      [] kind = "LOGIN"            -> <<Account(on)>>
      [] kind = "RECOVER"          -> <<Email(on)>>
      [] kind = "CONFIRM_RECOVERY" -> <<key, Account(db[key].account)>>

\* The version its client read last (an older one is refused wherever the
\* version is checked).
Version(kind, on, key) ==
    IF Aggregate(kind, on, key) = None THEN 0 ELSE db[Aggregate(kind, on, key)].version

Arrived(kind, actor, on, key, role) ==
    [pc |-> "lock", kind |-> kind, actor |-> actor, on |-> on, key |-> key, role |-> role,
     version |-> Version(kind, on, key), seen |-> None,
     stage |-> IF kind \in BearerKinds THEN "session" ELSE kind,
     todo |-> FirstRows(kind, actor, on, key), ends |-> {}, writes |-> <<>>]

\* A request arrives.
Begin(w) ==
    /\ tx[w].pc = "idle"
    /\ \E kind \in Kinds : \E actor \in Senders(kind), on \in Targets(kind),
                              key \in Keys(kind), role \in RolesOf(kind) :
          /\ Aggregate(kind, on, key) # None => Version(kind, on, key) < MaxVersion
          /\ tx' = [tx EXCEPT ![w] = Arrived(kind, actor, on, key, role)]
    /\ UNCHANGED <<db, lock>>

\* Bug: authentication reads the session and the account without FOR UPDATE.
LockAfterAuthentication(w) ==
    LET t == [tx[w] EXCEPT !.todo = Tail(@)]
        reads == tx[w].stage \in {"session", "account"}
        x == Head(tx[w].todo) IN
    /\ tx[w].pc = "lock"
    /\ reads \/ Free(w, x)
    /\ lock' = IF reads THEN lock ELSE [lock EXCEPT ![x] = w]
    /\ \E u \in IF t.todo = <<>> THEN Proceed(t) ELSE {t} : tx' = [tx EXCEPT ![w] = u]
    /\ UNCHANGED db

\* The next row is locked, and when it is the last one the request goes on.
Lock(w) ==
    /\ tx[w].pc = "lock"
    /\ Free(w, Head(tx[w].todo))
    /\ lock' = [lock EXCEPT ![Head(tx[w].todo)] = w]
    /\ LET t == [tx[w] EXCEPT !.todo = Tail(@)] IN
       \E u \in IF t.todo = <<>> THEN Proceed(t) ELSE {t} : tx' = [tx EXCEPT ![w] = u]
    /\ UNCHANGED db

\* Bug: the advisory lock of the address belongs to the connection.
EndKeepsAddress(w) ==
    /\ tx' = [tx EXCEPT ![w] = Idle]
    /\ lock' = [x \in Lockable |-> IF lock[x] = w /\ x \notin Addresses THEN None ELSE lock[x]]

End(w) ==
    /\ tx' = [tx EXCEPT ![w] = Idle]
    /\ lock' = [x \in Lockable |-> IF lock[x] = w THEN None ELSE lock[x]]

Commit(w) ==
    /\ tx[w].pc = "commit"
    /\ db' = [x \in Rows |-> IF x \in DOMAIN tx[w].writes THEN tx[w].writes[x] ELSE db[x]]
    /\ End(w)

\* The server or its connection dies, or a delivery fails: PostgreSQL rolls back.
Crash(w) ==
    /\ tx[w].pc # "idle"
    /\ End(w)
    /\ UNCHANGED db

Waiting(w) == tx[w].pc = "lock" /\ ~Free(w, Head(tx[w].todo))
Holders(w) == IF Waiting(w) THEN {lock[Head(tx[w].todo)]} ELSE {}

\* PostgreSQL aborts a transaction of a cycle of lock waits.
BreakDeadlock(w) ==
    /\ \E cycle \in SUBSET Workers : w \in cycle /\ UNION {Holders(v) : v \in cycle} = cycle
    /\ End(w)
    /\ UNCHANGED db

Serve(w) == Lock(w) \/ Commit(w)

Next == \E w \in Workers : Begin(w) \/ Serve(w) \/ Crash(w) \/ BreakDeadlock(w)

Spec == Init /\ [][Next]_vars

-----------------------------------------------------------------------------
(* Properties.                                                             *)

TypeOK ==
    /\ DOMAIN db = Rows
    /\ db[Workspace] \in WorkspaceRow \cup {None}
    /\ db[Installation] \in {"COMPLETE", None}
    /\ \A a \in Accounts :
          /\ db[Account(a)] \in {None, "PENDING_ACTIVATION", "ACTIVE"}
          /\ db[Member(a)] \in Membership \cup {None}
          /\ db[Account(a)] = None <=> db[Member(a)] = None
    /\ \A x \in TransferRows : db[x] \in TransferRow \cup {None}
    /\ lock \in [Lockable -> Workers \cup {None}]
    /\ \A x \in Lockable : lock[x] # None => tx[lock[x]].pc # "idle"

\* Exactly one membership is an Admin that is ACTIVE, it is the one the
\* workspace names as owner, and its account can log in ("asserts exactly one
\* active Admin/owner before commit", docs/12_Workspace_Identity_Design.md:286-287);
\* before bootstrap there is no account at all ("Concurrent attempts produce
\* one winner; no partial user, ownerless workspace, or second owner remains",
\* docs/03_Functional_Requirements.md:54).
OwnerIsTheOneAdmin ==
    IF db[Workspace] = None THEN \A a \in Accounts : db[Account(a)] = None
    ELSE /\ db[Account(Owner)] = "ACTIVE"
         /\ \A a \in Accounts : db[Member(a)] # None =>
               ((db[Member(a)].role = "ADMIN" /\ db[Member(a)].status = "ACTIVE") <=> a = Owner)

\* What a request does, it does for a session that is still live, and a
\* membership that is still ACTIVE in the role the request was authorized by:
\* no role change, suspension or transfer commits between the two.
AuthorityHoldsAtCommit ==
    \A w \in Workers :
        (tx[w].pc = "commit" /\ tx[w].kind \in BearerKinds /\ tx[w].writes # <<>>) =>
            /\ db[Session(tx[w].actor)] # None
            /\ db[Member(tx[w].actor)].status = "ACTIVE"
            /\ db[Member(tx[w].actor)].role = tx[w].seen

\* At most one transfer is open and the owner initiated it, so a proof of an
\* earlier owner, or one that was superseded, cannot move ownership again.
TransfersComeFromTheOwner ==
    /\ \A x \in Initiated : db[x].from = Owner
    /\ \A x, y \in Initiated : x = y

\* A member has one usable activation proof at most, and none once it was
\* activated or revoked, whatever restarts and revocations overlap.
ChallengesFollowMembers ==
    \A x \in Known(ChallengeRows) :
        db[x].status = "ISSUED" =>
            /\ db[Member(db[x].member)].status = "PENDING"
            /\ \A y \in Known(ChallengeRows) :
                  db[y].status = "ISSUED" /\ db[y].member = db[x].member => x = y

\* Recovery never resets the password of the owner, not even with a proof
\* that was issued before the account became the owner's ("Ordinary recovery
\* is not an owner-recovery shortcut", docs/12_Workspace_Identity_Design.md:271-272).
RecoveryNeverTakesTheOwner ==
    \A w \in Workers :
        (tx[w].pc = "commit" /\ tx[w].kind = "CONFIRM_RECOVERY") =>
            \A x \in DOMAIN tx[w].writes \cap RecoveryRows :
                tx[w].writes[x].status = "USED" => db[x].account # Owner

\* A live session was opened in the present role, and one of a suspended or
\* revoked member only after that: sessions do not outlive a demotion.
LiveSessionsAreCurrent ==
    \A a \in Accounts : db[Session(a)] # None =>
        /\ db[Session(a)].role = db[Member(a)].role
        /\ db[Member(a)].status \in {"SUSPENDED", "REVOKED"} =>
              db[Session(a)].status = db[Member(a)].status

\* A membership changes one version at a time, never leaves REVOKED, never
\* returns to PENDING, and enters or leaves ADMIN only with the ownership.
MemberStep ==
    \A a \in Accounts : db[Member(a)] # None /\ db'[Member(a)] # db[Member(a)] =>
        LET old == db[Member(a)]
            new == db'[Member(a)] IN
        /\ new.version = old.version + 1
        /\ old.status # "REVOKED"
        /\ old.status # "PENDING" => new.status # "PENDING"
        /\ (old.role = "ADMIN") # (new.role = "ADMIN") => db'[Workspace].owner # Owner
MembershipsMoveForward == [][MemberStep]_vars
=============================================================================
