------------------------ MODULE WorkspaceMembersProofs ------------------------
(***************************************************************************)
(* Proofs about WorkspaceMembers: whatever requests overlap, wait, fail or *)
(* are rolled back, the workspace has one Admin, its owner; activation     *)
(* proofs, sessions and transfers agree with the members they are about;   *)
(* and what a request was authorized by still holds when it commits.       *)
(***************************************************************************)
EXTENDS WorkspaceMembersSteps

-----------------------------------------------------------------------------
(* The inductive invariant.                                                *)

\* Locks are held by transactions that are on their way.
LocksOK ==
    /\ lock \in [Lockable -> Workers \cup {None}]
    /\ \A x \in Lockable : lock[x] # None => tx[lock[x]].pc # "idle"

\* What every transaction knows still holds, what it has settled it guards,
\* and no two have settled the same row.
RequestsOK == \A w \in Workers : Request(db, lock, w, tx[w]) /\ Intent(db, lock, w, tx[w])
Apart == \A w, v \in Workers : w # v => Touched(tx[w]) \cap Touched(tx[v]) = {}

MembersInv ==
    /\ Data(db)
    /\ LocksOK
    /\ DOMAIN tx = Workers
    /\ RequestsOK
    /\ Apart

-----------------------------------------------------------------------------
(* It holds at first.                                                      *)

\* An installation before bootstrap.
LEMMA EmptyData ==
    ASSUME NEW d, d = [x \in Rows |-> None]
    PROVE  Data(d)
<1>1. \A x \in Rows : d[x] = None
  OBVIOUS
<1>2. Typed(d)
  BY <1>1, RowSets DEF Typed
<1>3. /\ ~\E x \in TransferRows : d[x] # None
      /\ ~\E x \in ChallengeRows \cup RecoveryRows : d[x] # None
  BY <1>1, RowSets
<1>4. WorkspaceOK(d)
  BY <1>1, <1>3, RowSets DEF WorkspaceOK, OfferedIn
<1>5. ASSUME NEW a \in Accounts PROVE PersonOK(d, a)
  <2>1. ~Owns(d, a) /\ ChallengesIn(d, a) = {} /\ RecoveriesIn(d, a) = {} /\ UsableIn(d, a) = {}
    BY <1>1, <1>3, RowSets DEF Owns, ChallengesIn, RecoveriesIn, UsableIn
  <2> QED BY <1>1, <2>1, RowSets DEF PersonOK
<1> QED BY <1>2, <1>4, <1>5 DEF Data

\* What bootstrap creates for one person.
LEMMA FoundedRows ==
    ASSUME NEW a \in Accounts
    PROVE  /\ DOMAIN Founded(a) = {Installation, Workspace, Account(a), Member(a)}
           /\ Founded(a)[Installation] = "COMPLETE"
           /\ Founded(a)[Workspace] = [owner |-> a, version |-> 1]
           /\ Founded(a)[Account(a)] = "ACTIVE"
           /\ Founded(a)[Member(a)] = [role |-> "ADMIN", status |-> "ACTIVE", version |-> 1]
<1>1. /\ Installation # Workspace /\ Account(a) \notin {Installation, Workspace}
      /\ Member(a) \notin {Installation, Workspace, Account(a)}
  BY RowNames DEF RowFacts
<1> QED BY <1>1 DEF Founded

\* What the founder, and whoever has joined, starts with.
JoinedIn(d, joined, roles) ==
    /\ DOMAIN d = Rows
    /\ d[Installation] = "COMPLETE" /\ d[Workspace] = [owner |-> Founder, version |-> 1]
    /\ d[Account(Founder)] = "ACTIVE"
    /\ d[Member(Founder)] = [role |-> "ADMIN", status |-> "ACTIVE", version |-> 1]
    /\ d[Session(Founder)] = [role |-> "ADMIN", status |-> "ACTIVE"]
    /\ \A a \in joined :
          /\ d[Account(a)] = "ACTIVE"
          /\ d[Member(a)] = [role |-> roles[a], status |-> "ACTIVE", version |-> 1]
          /\ d[Session(a)] = [role |-> roles[a], status |-> "ACTIVE"]
    /\ \A a \in Accounts : a # Founder /\ a \notin joined =>
          d[Account(a)] = None /\ d[Member(a)] = None /\ d[Session(a)] = None
    /\ \A x \in ChallengeRows \cup RecoveryRows \cup TransferRows : d[x] = None

\* A workspace that others have joined: its rows.
LEMMA PopulatedRows ==
    ASSUME NEW joined \in SUBSET Joined, NEW roles \in [joined -> Roles], NEW d, d = Populated(joined, roles)
    PROVE  JoinedIn(d, joined, roles)
<1> DEFINE F == Founded(Founder)
           A == {Account(a) : a \in joined}
           B == {Member(a) : a \in joined}
           S == {Session(a) : a \in joined}
<1>1. /\ DOMAIN F = {Installation, Workspace, Account(Founder), Member(Founder)}
      /\ F[Installation] = "COMPLETE" /\ F[Workspace] = [owner |-> Founder, version |-> 1]
      /\ F[Account(Founder)] = "ACTIVE"
      /\ F[Member(Founder)] = [role |-> "ADMIN", status |-> "ACTIVE", version |-> 1]
  BY FoundedRows, MembersAssumption
<1>2. Opened(F[Member(Founder)]) = [role |-> "ADMIN", status |-> "ACTIVE"]
  BY <1>1 DEF Opened
<1>3. DOMAIN d = Rows
  BY DEF Populated
<1>4. \A x \in Rows :
          d[x] = CASE x \in DOMAIN F       -> F[x]
                   [] x = Session(Founder) -> Opened(F[Member(Founder)])
                   [] x \in A              -> "ACTIVE"
                   [] x \in B              -> [role |-> roles[x[2]], status |-> "ACTIVE", version |-> 1]
                   [] x \in S              -> [role |-> roles[x[2]], status |-> "ACTIVE"]
                   [] OTHER                -> None
  BY DEF Populated
<1>5. Founder \in Accounts /\ joined \subseteq Accounts /\ Founder \notin joined
  BY MembersAssumption
<1>6. /\ \A a \in Accounts : /\ Account(a) \in A <=> a \in joined
                             /\ Account(a) \notin B /\ Account(a) \notin S
                             /\ Account(a) \in DOMAIN F => a = Founder
                             /\ Account(a) # Session(Founder)
      /\ \A a \in Accounts : /\ Member(a) \in B <=> a \in joined
                             /\ Member(a) \notin A /\ Member(a) \notin S
                             /\ Member(a) \in DOMAIN F => a = Founder
                             /\ Member(a) # Session(Founder) /\ Member(a)[2] = a
      /\ \A a \in Accounts : /\ Session(a) \in S <=> a \in joined
                             /\ Session(a) \notin A /\ Session(a) \notin B
                             /\ Session(a) \notin DOMAIN F
                             /\ Session(a) = Session(Founder) => a = Founder
                             /\ Session(a)[2] = a
      /\ \A x \in ChallengeRows \cup RecoveryRows \cup TransferRows :
             x \notin A /\ x \notin B /\ x \notin S /\ x \notin DOMAIN F /\ x # Session(Founder)
  <2>1. /\ \A a \in Accounts : Account(a) \in A <=> a \in joined
        /\ \A a \in Accounts : Member(a) \in B <=> a \in joined
        /\ \A a \in Accounts : Session(a) \in S <=> a \in joined
    BY RowNames DEF RowFacts
  <2>2. /\ \A x \in A : x[1] = "account"
        /\ \A x \in B : x[1] = "member"
        /\ \A x \in S : x[1] = "session"
    BY RowNames DEF RowFacts
  <2> HIDE DEF A, B, S, F
  <2> QED BY <1>1, <2>1, <2>2, RowNames DEF RowFacts
<1> HIDE DEF F, A, B, S
<1>f. \A x \in Rows : x \in DOMAIN F => d[x] = F[x]
  <2>1. \A x \in DOMAIN F : x \notin A /\ x \notin B /\ x \notin S /\ x # Session(Founder)
    <3>1. /\ Installation \notin A \cup B \cup S \cup {Session(Founder)}
          /\ Workspace \notin A \cup B \cup S \cup {Session(Founder)}
      BY RowNames DEF A, B, S, RowFacts
    <3> QED BY <1>1, <1>5, <1>6, <3>1
  <2> QED BY <1>4, <2>1
<1>7. d[Installation] = "COMPLETE" /\ d[Workspace] = [owner |-> Founder, version |-> 1]
  <2>1. Installation \in DOMAIN F /\ Workspace \in DOMAIN F
    BY <1>1
  <2>2. d[Installation] = F[Installation] /\ d[Workspace] = F[Workspace]
    BY <1>f, <2>1, RowSets
  <2> QED BY <1>1, <2>2
<1>8. d[Account(Founder)] = "ACTIVE" /\ d[Member(Founder)] = [role |-> "ADMIN", status |-> "ACTIVE", version |-> 1]
  <2>1. Account(Founder) \in DOMAIN F /\ Member(Founder) \in DOMAIN F
    BY <1>1
  <2>2. d[Account(Founder)] = F[Account(Founder)] /\ d[Member(Founder)] = F[Member(Founder)]
    BY <1>f, <1>5, <2>1, RowSets
  <2> QED BY <1>1, <2>2
<1>9. d[Session(Founder)] = [role |-> "ADMIN", status |-> "ACTIVE"]
  <2>1. d[Session(Founder)] = Opened(F[Member(Founder)])
    BY <1>4, <1>5, <1>6, RowSets
  <2> QED BY <1>2, <2>1
<1>10. ASSUME NEW a \in joined
       PROVE  /\ d[Account(a)] = "ACTIVE"
              /\ d[Member(a)] = [role |-> roles[a], status |-> "ACTIVE", version |-> 1]
              /\ d[Session(a)] = [role |-> roles[a], status |-> "ACTIVE"]
  <2>1. a \in Accounts /\ a # Founder
    BY <1>5
  <2>2. Account(a) \in Rows /\ Member(a) \in Rows /\ Session(a) \in Rows
    BY <2>1, RowSets
  <2>3. d[Account(a)] = "ACTIVE"
    BY <1>4, <1>6, <2>1, <2>2
  <2>4. d[Member(a)] = [role |-> roles[Member(a)[2]], status |-> "ACTIVE", version |-> 1]
    BY <1>4, <1>6, <2>1, <2>2
  <2>5. d[Session(a)] = [role |-> roles[Session(a)[2]], status |-> "ACTIVE"]
    BY <1>4, <1>6, <2>1, <2>2
  <2>6. Member(a)[2] = a /\ Session(a)[2] = a
    BY <1>6, <2>1
  <2> QED BY <2>3, <2>4, <2>5, <2>6
<1>11. ASSUME NEW a \in Accounts, a # Founder, a \notin joined
       PROVE  d[Account(a)] = None /\ d[Member(a)] = None /\ d[Session(a)] = None
  <2>1. Account(a) \in Rows /\ Member(a) \in Rows /\ Session(a) \in Rows
    BY RowSets
  <2> QED BY <1>4, <1>6, <1>11, <2>1
<1>12. ASSUME NEW x \in ChallengeRows \cup RecoveryRows \cup TransferRows PROVE d[x] = None
  <2>1. x \in Rows
    BY RowSets
  <2> QED BY <1>4, <1>6, <2>1
<1> QED BY <1>3, <1>7, <1>8, <1>9, <1>10, <1>11, <1>12 DEF JoinedIn

\* ... and that they are right.
LEMMA PopulatedData ==
    ASSUME NEW joined \in SUBSET Joined, NEW roles \in [joined -> Roles], NEW d, d = Populated(joined, roles)
    PROVE  Data(d)
<1>1. JoinedIn(d, joined, roles)
  BY PopulatedRows
<1>2. Founder \in Accounts /\ joined \subseteq Accounts /\ Founder \notin joined /\ "ADMIN" \notin Roles
      /\ \A a \in joined : roles[a] \in Roles
  BY MembersAssumption
<1>3. \A role \in Roles \cup {"ADMIN"} : /\ [role |-> role, status |-> "ACTIVE", version |-> 1] \in Membership
                                        /\ [role |-> role, status |-> "ACTIVE"] \in LiveSession
  BY DEF Membership, LiveSession
<1>4. /\ d[Workspace] \in WorkspaceRow /\ d[Workspace].owner = Founder
      /\ d[Workspace] # None /\ d[Installation] # None
  <2>1. d[Workspace] \in WorkspaceRow
    BY <1>1, <1>2 DEF WorkspaceRow, JoinedIn
  <2> QED BY <1>1, <2>1, MembersAssumption DEF JoinedIn
<1>5. ASSUME NEW a \in Accounts
      PROVE  /\ d[Account(a)] \in {None, "PENDING_ACTIVATION", "ACTIVE"}
             /\ d[Member(a)] \in Membership \cup {None} /\ d[Session(a)] \in LiveSession \cup {None}
  <2>1. CASE a = Founder
    BY <1>1, <1>3, <2>1 DEF JoinedIn
  <2>2. CASE a \in joined
    <3>1. /\ d[Member(a)] = [role |-> roles[a], status |-> "ACTIVE", version |-> 1]
          /\ d[Session(a)] = [role |-> roles[a], status |-> "ACTIVE"] /\ d[Account(a)] = "ACTIVE"
      BY <1>1, <2>2 DEF JoinedIn
    <3>2. roles[a] \in Roles \cup {"ADMIN"}
      BY <1>2, <2>2
    <3> QED BY <1>3, <3>1, <3>2
  <2>3. CASE a # Founder /\ a \notin joined
    BY <1>1, <2>3 DEF JoinedIn
  <2> QED BY <2>1, <2>2, <2>3
<1>6. Typed(d)
  BY <1>1, <1>4, <1>5 DEF Typed, JoinedIn
<1>7. WorkspaceOK(d)
  BY <1>1, <1>4 DEF WorkspaceOK, OfferedIn, JoinedIn
<1>8. ASSUME NEW a \in Accounts PROVE PersonOK(d, a)
  <2>1. Owns(d, a) <=> a = Founder
    BY <1>4 DEF Owns
  <2>2. ChallengesIn(d, a) = {} /\ RecoveriesIn(d, a) = {} /\ UsableIn(d, a) = {}
    BY <1>1 DEF ChallengesIn, RecoveriesIn, UsableIn, JoinedIn
  <2>3. \A role \in Roles \cup {"ADMIN"} : [role |-> role, status |-> "ACTIVE", version |-> 1] # None
    BY <1>3, MembersAssumption
  <2>4. CASE a = Founder
    <3>1. /\ d[Member(a)] = [role |-> "ADMIN", status |-> "ACTIVE", version |-> 1]
          /\ d[Session(a)] = [role |-> "ADMIN", status |-> "ACTIVE"] /\ d[Account(a)] = "ACTIVE"
      BY <1>1, <2>4 DEF JoinedIn
    <3> QED BY <1>4, <2>1, <2>2, <2>3, <2>4, <3>1, MembersAssumption DEF PersonOK
  <2>5. CASE a \in joined
    <3>1. /\ d[Member(a)] = [role |-> roles[a], status |-> "ACTIVE", version |-> 1]
          /\ d[Session(a)] = [role |-> roles[a], status |-> "ACTIVE"] /\ d[Account(a)] = "ACTIVE"
          /\ roles[a] # "ADMIN" /\ roles[a] \in Roles /\ a # Founder
      BY <1>1, <1>2, <2>5 DEF JoinedIn
    <3> QED BY <1>4, <2>1, <2>2, <2>3, <3>1, MembersAssumption DEF PersonOK
  <2>6. CASE a \notin joined \cup {Founder}
    <3>1. d[Member(a)] = None /\ d[Session(a)] = None /\ d[Account(a)] = None
      BY <1>1, <2>6 DEF JoinedIn
    <3> QED BY <2>1, <2>2, <2>6, <3>1 DEF PersonOK
  <2> QED BY <2>4, <2>5, <2>6
<1> QED BY <1>6, <1>7, <1>8 DEF Data

\* A worker without a request asks for nothing.
LEMMA IdleIsOK ==
    ASSUME NEW d, Data(d), NEW l, NEW w
    PROVE  Request(d, l, w, Idle) /\ Intent(d, l, w, Idle) /\ Touched(Idle) = {}
<1>1. Touched(Idle) = {} /\ Ending(Idle) = {}
  <2>1. DOMAIN Idle.writes = {} /\ Idle.pc = "idle"
    BY DEF Idle
  <2> QED BY <2>1 DEF Touched, Ending
<1>2. DOMAIN After(d, Idle) = Rows /\ \A x \in Rows : After(d, Idle)[x] = d[x]
  BY <1>1 DEF After, Touched
<1>3. Effect(d, After(d, Idle), {}, l, w)
  BY <1>2, NothingWritten
<1> QED BY <1>1, <1>3 DEF Request, Intent

\* The invariant holds at first.
LEMMA MembersInvInit == Init => MembersInv
<1> SUFFICES ASSUME Init PROVE MembersInv
  OBVIOUS
<1>1. Data(db)
  BY EmptyData, PopulatedData DEF Init
<1>2. LocksOK
  BY DEF Init, LocksOK
<1>3. DOMAIN tx = Workers /\ \A w \in Workers : tx[w] = Idle
  BY DEF Init
<1>4. RequestsOK
  BY <1>1, <1>3, IdleIsOK DEF RequestsOK
<1>5. Apart
  BY <1>1, <1>3, IdleIsOK DEF Apart
<1> QED BY <1>1, <1>2, <1>3, <1>4, <1>5 DEF MembersInv


-----------------------------------------------------------------------------
(* Every step keeps it.                                                    *)

\* The first locks of a request are locks, and all that its stage relies on.
LEMMA FirstLocks ==
    ASSUME Data(db), NEW kind \in BearerKinds \cup PublicKinds, NEW actor \in Senders(kind),
           NEW on \in Targets(kind), NEW key \in Keys(kind), NEW role \in RolesOf(kind),
           NEW t, t = Arrived(kind, actor, on, key, role)
    PROVE  /\ Named(db, t)
           /\ t.todo \in Seq(Lockable) /\ t.todo # <<>>
           /\ \A x \in Needs(db, t) : Queued(t, x)
<1> DEFINE stage == t.stage
           rows == t.todo
<1> SUFFICES Named(db, t) /\ rows \in Seq(Lockable) /\ rows # <<>>
             /\ \A x \in Needs(db, t) : \E i \in DOMAIN rows : rows[i] = x
  BY DEF Queued
<1>0. /\ kind \notin BearerKinds => kind \in PublicKinds
      /\ t.kind = kind /\ t.actor = actor /\ t.on = on /\ t.key = key /\ t.role = role
      /\ t.stage = (IF kind \in BearerKinds THEN "session" ELSE kind)
      /\ t.todo = FirstRows(kind, actor, on, key)
  BY DEF Arrived
<1> HIDE DEF stage, rows
<1>s. stage = t.stage /\ rows = t.todo
  BY DEF stage, rows
<1>1. CASE kind \in BearerKinds
  <2>0. kind \notin PublicKinds
    BY <1>1 DEF BearerKinds, AdminKinds, Mutations, PublicKinds
  <2>1. actor \in Accounts /\ db[Account(actor)] # None
    BY <1>1 DEF Senders, Data, PersonOK
  <2>2. stage = "session" /\ rows = <<Session(actor)>> /\ Needs(db, t) = {Session(actor)}
    BY <1>0, <1>s, <1>1, <2>0 DEF FirstRows, Needs, PublicKinds
  <2>3. rows \in Seq(Lockable) /\ rows # <<>> /\ \E i \in DOMAIN rows : rows[i] = Session(actor)
    <3>1. Session(actor) \in Lockable
      BY <2>1, LockableRows
    <3> QED BY <2>2, <3>1, QueueOfOne
  <2>4. kind \in Mutations \cup {"RESTART", "INITIATE"} => on \in Accounts /\ db[Account(on)] # None
    BY DEF Targets, Data, PersonOK, Mutations
  <2>5. kind = "PROVISION" => on \in Accounts
    BY DEF Targets, Mutations
  <2>6. kind \in {"CONFIRM", "CANCEL"} => key \in TransferRows /\ db[key] # None
    BY DEF Keys, Known
  <2>7. kind \in {"CHANGE_ROLE", "PROVISION", "INITIATE"} => role \in Roles
    BY DEF RolesOf
  <2>9. Named(db, t)
    BY <1>0, <1>1, <2>1, <2>2, <2>4, <2>5, <2>6, <2>7, <2>0 DEF Named, PublicKinds
  <2> QED BY <2>2, <2>3, <2>9
<1>2. CASE kind \notin BearerKinds
  <2>0. kind \in PublicKinds /\ stage = kind /\ kind \notin Mutations /\ kind \notin {"RESTART", "INITIATE", "PROVISION", "CHANGE_ROLE", "CONFIRM", "CANCEL"}
    BY <1>0, <1>s, <1>2 DEF BearerKinds, AdminKinds, Mutations
  <2>1. CASE kind = "BOOTSTRAP"
    <3>1. on \in Accounts /\ rows = <<Installation>> /\ Needs(db, t) = {Installation}
      BY <1>0, <1>s, <1>2, <2>0, <2>1 DEF Targets, FirstRows, Needs
    <3>2. Named(db, t)
      BY <1>0, <1>s, <1>2, <2>0, <2>1, <3>1 DEF Named
    <3>3. rows \in Seq(Lockable) /\ rows # <<>> /\ \E i \in DOMAIN rows : rows[i] = Installation
      BY <3>1, QueueOfOne, LockableRows
    <3> QED BY <3>1, <3>2, <3>3
  <2>2. CASE kind = "ACTIVATE"
    <3>1. key \in ChallengeRows /\ db[key] # None /\ db[key].member \in Accounts
      BY <2>2 DEF Keys, Known, Data, Typed, Activation
    <3>2. rows = <<key, Member(db[key].member), Account(db[key].member)>>
          /\ Needs(db, t) = {Account(db[key].member)}
      BY <1>0, <1>s, <1>2, <2>0, <2>2 DEF FirstRows, Needs
    <3>3. Named(db, t)
      BY <1>0, <1>s, <1>2, <2>0, <2>2, <3>1 DEF Named
    <3>4. key \in Lockable /\ Member(db[key].member) \in Lockable /\ Account(db[key].member) \in Lockable
      BY <3>1, LockableRows
    <3>5. rows \in Seq(Lockable) /\ rows # <<>> /\ \E i \in DOMAIN rows : rows[i] = Account(db[key].member)
      BY <3>2, <3>4, QueueOfThree
    <3> QED BY <3>2, <3>3, <3>5
  <2>3. CASE kind = "LOGIN"
    <3>1. on \in Accounts /\ db[Account(on)] # None /\ rows = <<Account(on)>> /\ Needs(db, t) = {Account(on)}
      BY <1>0, <1>s, <1>2, <2>0, <2>3 DEF Targets, FirstRows, Needs
    <3>2. Named(db, t)
      BY <1>0, <1>s, <1>2, <2>0, <2>3, <3>1 DEF Named
    <3>3. rows \in Seq(Lockable) /\ rows # <<>> /\ \E i \in DOMAIN rows : rows[i] = Account(on)
      BY <3>1, QueueOfOne, LockableRows
    <3> QED BY <3>1, <3>2, <3>3
  <2>4. CASE kind = "RECOVER"
    <3>1. on \in Accounts /\ rows = <<Email(on)>> /\ Needs(db, t) = {}
      BY <1>0, <1>s, <1>2, <2>0, <2>4 DEF Targets, FirstRows, Needs
    <3>2. Named(db, t)
      BY <1>0, <1>s, <1>2, <2>0, <2>4, <3>1 DEF Named
    <3>3. rows \in Seq(Lockable) /\ rows # <<>>
      BY <3>1, QueueOfOne, LockableRows
    <3> QED BY <3>1, <3>2, <3>3
  <2>5. CASE kind = "CONFIRM_RECOVERY"
    <3>1. key \in RecoveryRows /\ db[key] # None /\ db[key].account \in Accounts
      BY <2>5 DEF Keys, Known, Data, Typed, RecoveryRow
    <3>2. rows = <<key, Account(db[key].account)>> /\ Needs(db, t) = {Account(db[key].account)}
      BY <1>0, <1>s, <1>2, <2>0, <2>5 DEF FirstRows, Needs
    <3>3. Named(db, t)
      BY <1>0, <1>s, <1>2, <2>0, <2>5, <3>1 DEF Named
    <3>4. key \in Lockable /\ Account(db[key].account) \in Lockable
      BY <3>1, LockableRows
    <3>5. rows \in Seq(Lockable) /\ rows # <<>> /\ \E i \in DOMAIN rows : rows[i] = Account(db[key].account)
      BY <3>2, <3>4, QueueOfTwo
    <3> QED BY <3>2, <3>3, <3>5
  <2> QED BY <2>0, <2>1, <2>2, <2>3, <2>4, <2>5 DEF PublicKinds
<1> QED BY <1>1, <1>2

\* A request that arrives knows nothing yet.
LEMMA BeginKeepsInv ==
    ASSUME MembersInv, NEW w \in Workers, Begin(w)
    PROVE  MembersInv'
<1>1. PICK kind \in Kinds : \E actor \in Senders(kind), on \in Targets(kind),
                                key \in Keys(kind), role \in RolesOf(kind) :
          tx' = [tx EXCEPT ![w] = Arrived(kind, actor, on, key, role)]
  BY DEF Begin
<1>2. PICK actor \in Senders(kind), on \in Targets(kind), key \in Keys(kind), role \in RolesOf(kind) :
          tx' = [tx EXCEPT ![w] = Arrived(kind, actor, on, key, role)]
  BY <1>1
<1> DEFINE t == Arrived(kind, actor, on, key, role)
<1>3. kind \in BearerKinds \cup PublicKinds
  BY MembersAssumption
<1>5. /\ t.pc = "lock" /\ t.kind = kind /\ t.ends = {} /\ t.writes = <<>>
      /\ t.stage = (IF kind \in BearerKinds THEN "session" ELSE kind)
      /\ t = [pc |-> t.pc, kind |-> t.kind, actor |-> t.actor, on |-> t.on, key |-> t.key,
              role |-> t.role, version |-> t.version, seen |-> t.seen, stage |-> t.stage,
              todo |-> t.todo, ends |-> t.ends, writes |-> t.writes]
  BY DEF Arrived
<1>t. t = Arrived(kind, actor, on, key, role) /\ db' = db /\ lock' = lock /\ tx' = [tx EXCEPT ![w] = t]
  BY <1>2 DEF Begin
<1> HIDE DEF t
<1>4. /\ Named(db, t) /\ t.todo \in Seq(Lockable) /\ t.todo # <<>>
      /\ \A x \in Needs(db, t) : Queued(t, x)
  BY <1>t, <1>3, FirstLocks DEF MembersInv
<1>6. Shape(t)
  BY <1>3, <1>5 DEF Shape, Staged
<1>7. Knows(db, lock, w, t)
  <2>1. t.stage \notin {"initiate", "confirm", "cancel"}
    BY <1>3, <1>5 DEF PublicKinds
  <2> QED BY <1>5, <2>1 DEF Knows
<1>8. Request(db, lock, w, t)
  BY <1>4, <1>5, <1>6, <1>7 DEF Request
<1>9. Touched(t) = {} /\ Ending(t) = {}
  <2>1. DOMAIN t.writes = {}
    BY <1>5
  <2> QED BY <2>1, <1>5 DEF Touched, Ending
<1>10. Intent(db, lock, w, t)
  <2>1. DOMAIN After(db, t) = Rows /\ \A x \in Rows : After(db, t)[x] = db[x]
    BY <1>9 DEF After, Touched
  <2>2. Effect(db, After(db, t), {}, lock, w)
    BY <2>1, NothingWritten DEF MembersInv
  <2> QED BY <1>9, <2>2 DEF Intent
<1>11. DOMAIN tx' = Workers /\ tx'[w] = t /\ \A v \in Workers : v # w => tx'[v] = tx[v]
  BY <1>t DEF MembersInv
<1>12. LocksOK'
  <2>1. lock' \in [Lockable -> Workers \cup {None}]
    BY <1>t DEF MembersInv, LocksOK
  <2>2. ASSUME NEW x \in Lockable, lock'[x] # None PROVE tx'[lock'[x]].pc # "idle"
    <3>1. lock[x] \in Workers /\ tx[lock[x]].pc # "idle" /\ lock'[x] = lock[x]
      BY <1>t, <2>2 DEF MembersInv, LocksOK
    <3> QED BY <1>5, <1>11, <3>1
  <2> QED BY <2>1, <2>2 DEF LocksOK
<1>13. RequestsOK'
  <2>1. ASSUME NEW v \in Workers PROVE Request(db, lock, v, tx'[v]) /\ Intent(db, lock, v, tx'[v])
    BY <1>8, <1>10, <1>11 DEF MembersInv, RequestsOK
  <2> QED BY <1>t, <2>1 DEF RequestsOK
<1>14. Apart'
  BY <1>9, <1>11 DEF MembersInv, Apart
<1> QED BY <1>t, <1>11, <1>12, <1>13, <1>14 DEF MembersInv


\* A lock is free for the worker that takes it: nobody else loses one.
LEMMA LockKeepsInv ==
    ASSUME MembersInv, NEW w \in Workers, Lock(w)
    PROVE  MembersInv'
<1> DEFINE s == tx[w]
           x == Head(s.todo)
           k == [lock EXCEPT ![x] = w]
           t == [s EXCEPT !.todo = Tail(@)]
<1>1. /\ s.pc = "lock" /\ lock[x] \in {None, w} /\ lock' = k /\ db' = db
      /\ \E u \in IF t.todo = <<>> THEN Proceed(t) ELSE {t} : tx' = [tx EXCEPT ![w] = u]
  BY DEF Lock, Free
<1>2. PICK u \in IF t.todo = <<>> THEN Proceed(t) ELSE {t} : tx' = [tx EXCEPT ![w] = u]
  BY <1>1
<1>3. /\ Data(db) /\ lock \in [Lockable -> Workers \cup {None}] /\ DOMAIN tx = Workers
      /\ \A y \in Lockable : lock[y] # None => tx[lock[y]].pc # "idle"
      /\ \A v \in Workers : Request(db, lock, v, tx[v]) /\ Intent(db, lock, v, tx[v])
      /\ \A v \in Workers \ {w} : Touched(s) \cap Touched(tx[v]) = {}
  BY DEF MembersInv, LocksOK, RequestsOK, Apart
<1>4. s # Idle /\ Request(db, lock, w, s) /\ Intent(db, lock, w, s)
  BY <1>1, <1>3 DEF Idle
<1>5. s.todo \in Seq(Lockable) /\ s.todo # <<>>
  BY <1>1, <1>4 DEF Request
<1>6. x \in Lockable
  BY <1>5
<1>7. t = [s EXCEPT !.todo = Tail(s.todo)]
  OBVIOUS
<1>k. k = [lock EXCEPT ![x] = w] /\ k = [lock EXCEPT ![Head(s.todo)] = w]
  OBVIOUS
<1> HIDE DEF s, t, k, x
<1>8. /\ t.pc = "lock" /\ (t.todo # <<>> => Request(db, k, w, t))
      /\ t.todo = <<>> => Ready(db, k, w, t)
      /\ Intent(db, k, w, t) /\ Touched(t) = Touched(s)
  <2>1. lock \in [Lockable -> Workers \cup {None}] /\ w \in Workers /\ Data(db)
        /\ s # Idle /\ Request(db, lock, w, s) /\ Intent(db, lock, w, s) /\ s.pc = "lock"
    BY <1>1, <1>3, <1>4
  <2>2. k = Granted(lock, s, w) /\ t = Advanced(s)
    BY <1>7, <1>k DEF Granted, Advanced
  <2> QED BY <2>1, <2>2, LockIsTaken
<1>9. /\ k \in [Lockable -> Workers \cup {None}] /\ k[x] = w
      /\ \A y \in Lockable : y # x => k[y] = lock[y]
  BY <1>3, <1>6, <1>k
<1>10. \A v \in Workers \ {w} : \A y \in Lockable : lock[y] = v => k[y] = v
  BY <1>1, <1>9, MembersAssumption
<1>11. Others(k, w)
  BY <1>3, <1>10, IntentKeepsItsLocks DEF Others
<1>12. Settled(k, w, u)
  <2>1. CASE t.todo # <<>>
    <3>1. u = t
      BY <1>2, <2>1
    <3> QED BY <1>3, <1>8, <2>1, <3>1 DEF Settled
  <2>2. CASE t.todo = <<>>
    <3>1. u \in Proceed(t)
      BY <1>2, <2>2
    <3> QED BY <1>3, <1>8, <1>11, <2>2, <3>1, ProceedSettles
  <2> QED BY <2>1, <2>2
<1>13. DOMAIN tx' = Workers /\ tx'[w] = u /\ \A v \in Workers : v # w => tx'[v] = tx[v]
  BY <1>2, <1>3
<1>14. LocksOK'
  <2>1. ASSUME NEW y \in Lockable, lock'[y] # None PROVE tx'[lock'[y]].pc # "idle"
    <3>1. CASE lock'[y] = w
      BY <1>12, <1>13, <3>1 DEF Settled
    <3>2. CASE lock'[y] # w
      <4>1. lock'[y] = lock[y] /\ lock[y] \in Workers
        BY <1>1, <1>3, <1>9, <2>1, <3>2
      <4> QED BY <1>3, <1>13, <2>1, <3>2, <4>1
    <3> QED BY <3>1, <3>2
  <2> QED BY <1>1, <1>9, <2>1 DEF LocksOK
<1>15. RequestsOK'
  <2>1. ASSUME NEW v \in Workers PROVE Request(db, k, v, tx'[v]) /\ Intent(db, k, v, tx'[v])
    <3>1. CASE v = w
      BY <1>12, <1>13, <3>1 DEF Settled
    <3>2. CASE v # w
      BY <1>3, <1>10, <1>11, <1>13, <3>2, RequestKeepsItsLocks DEF Others
    <3> QED BY <3>1, <3>2
  <2> QED BY <1>1, <2>1 DEF RequestsOK
<1>16. Apart'
  <2>1. ASSUME NEW v \in Workers, NEW y \in Workers, v # y PROVE Touched(tx'[v]) \cap Touched(tx'[y]) = {}
    <3>1. v # w /\ y # w => Touched(tx[v]) \cap Touched(tx[y]) = {}
      BY <2>1 DEF MembersInv, Apart
    <3> QED BY <1>12, <1>13, <2>1, <3>1 DEF Settled
  <2> QED BY <2>1 DEF Apart
<1> QED BY <1>1, <1>3, <1>13, <1>14, <1>15, <1>16 DEF MembersInv

\* The end of a transaction releases its own locks only.
LEMMA EndKeepsInv ==
    ASSUME MembersInv, NEW w \in Workers, End(w), Data(db'),
           \A v \in Workers \ {w} : Request(db', lock, v, tx[v]) /\ Intent(db', lock, v, tx[v])
    PROVE  MembersInv'
<1> DEFINE k == [x \in Lockable |-> IF lock[x] = w THEN None ELSE lock[x]]
<1>1. lock' = k /\ tx' = [tx EXCEPT ![w] = Idle]
  BY DEF End
<1>2. /\ lock \in [Lockable -> Workers \cup {None}] /\ DOMAIN tx = Workers
      /\ \A y \in Lockable : lock[y] # None => tx[lock[y]].pc # "idle"
  BY DEF MembersInv, LocksOK
<1>3. DOMAIN tx' = Workers /\ tx'[w] = Idle /\ \A v \in Workers : v # w => tx'[v] = tx[v]
  BY <1>1, <1>2
<1>4. \A v \in Workers \ {w} : \A y \in Lockable : lock[y] = v => k[y] = v
  OBVIOUS
<1>5. /\ k \in [Lockable -> Workers \cup {None}]
      /\ \A y \in Lockable : k[y] # None => k[y] = lock[y] /\ k[y] # w
  BY <1>2
<1> HIDE DEF k
<1>6. LocksOK'
  BY <1>1, <1>2, <1>3, <1>5 DEF LocksOK
<1>7. RequestsOK'
  <2>1. ASSUME NEW v \in Workers PROVE Request(db', k, v, tx'[v]) /\ Intent(db', k, v, tx'[v])
    <3>1. CASE v = w
      BY <1>3, <3>1, IdleIsOK
    <3>2. CASE v # w
      BY <1>3, <1>4, <3>2, RequestKeepsItsLocks, IntentKeepsItsLocks
    <3> QED BY <3>1, <3>2
  <2> QED BY <1>1, <2>1 DEF RequestsOK
<1>8. Apart'
  <2>1. Touched(Idle) = {}
    BY IdleIsOK
  <2> QED BY <1>3, <2>1 DEF Apart, MembersInv
<1> QED BY <1>3, <1>6, <1>7, <1>8 DEF MembersInv

\* A transaction that is rolled back leaves the rows as they are.
LEMMA RollbackKeepsInv ==
    ASSUME MembersInv, NEW w \in Workers, End(w), db' = db
    PROVE  MembersInv'
  BY EndKeepsInv DEF MembersInv, RequestsOK

\* What a commit does: it writes what was settled, and ends no session that
\* the transaction has not locked.
LEMMA CommitWrites ==
    ASSUME MembersInv, NEW w \in Workers, Commit(w)
    PROVE  /\ db' = After(db, tx[w])
           /\ Effect(db, db', Touched(tx[w]), lock, w)
           /\ \A x \in Rows \ Touched(tx[w]) : db'[x] = db[x]
           /\ \A x \in Touched(tx[w]) \cap SessionRows : db'[x] = None => lock[x] = w
<1> DEFINE t == tx[w]
<1>1. t.pc = "commit" /\ t # Idle /\ Ending(t) = {}
  BY DEF Commit, Idle, Ending
<1>2. Request(db, lock, w, t) /\ Intent(db, lock, w, t)
  BY DEF MembersInv, RequestsOK
<1>3. db' = After(db, t)
  BY <1>1 DEF Commit, After
<1>4. Effect(db, db', Touched(t), lock, w)
  BY <1>2, <1>3 DEF Intent
<1>5. \A x \in Rows \ Touched(t) : db'[x] = db[x]
  BY <1>3 DEF After, Touched
<1>6. ASSUME NEW x \in Touched(t) \cap SessionRows, db'[x] = None
      PROVE  lock[x] = w
  <2>1. x \in t.ends
    BY <1>2, <1>3, <1>6 DEF Intent
  <2>2. t.stage = "update" /\ t.todo = <<>>
    BY <1>1, <1>2, <2>1 DEF Request, Shape
  <2>3. Needs(db, t) = t.ends /\ ~Queued(t, x)
    BY <2>2 DEF Needs, Queued
  <2> QED BY <1>1, <1>2, <2>1, <2>2, <2>3 DEF Request
<1> QED BY <1>3, <1>4, <1>5, <1>6

\* What the others know and have settled outlasts a commit.
LEMMA CommitKeepsInv ==
    ASSUME MembersInv, NEW w \in Workers, Commit(w)
    PROVE  MembersInv'
<1> DEFINE t == tx[w]
           e == After(db, t)
           n == Touched(t)
<1>1. /\ db' = e /\ Effect(db, e, n, lock, w) /\ \A x \in Rows \ n : e[x] = db[x]
      /\ \A x \in n \cap SessionRows : e[x] = None => lock[x] = w
  BY CommitWrites
<1>2. Data(db) /\ Intent(db, lock, w, t) /\ t.pc = "commit" /\ End(w)
  BY DEF MembersInv, RequestsOK, Commit
<1>3. Data(e)
  <2> HIDE DEF e, n
  <2> QED BY <1>1, <1>2, CommitKeepsData
<1>4. ASSUME NEW v \in Workers \ {w}
      PROVE  Request(e, lock, v, tx[v]) /\ Intent(e, lock, v, tx[v])
  <2>1. Request(db, lock, v, tx[v]) /\ Intent(db, lock, v, tx[v]) /\ Touched(t) \cap Touched(tx[v]) = {}
    BY DEF MembersInv, RequestsOK, Apart
  <2>2. Intent(e, lock, v, tx[v])
    BY <1>2, <2>1, IntentIsSpared
  <2>3. Request(e, lock, v, tx[v])
    <3> HIDE DEF e, n
    <3> QED BY <1>1, <1>2, <2>1, RequestIsSpared
  <2> QED BY <2>2, <2>3
<1> HIDE DEF e
<1> QED BY <1>1, <1>2, <1>3, <1>4, EndKeepsInv


\* Nothing happens.
LEMMA StutterKeepsInv ==
    ASSUME MembersInv, UNCHANGED vars
    PROVE  MembersInv'
  BY DEF MembersInv, LocksOK, RequestsOK, Apart, vars

\* Every step keeps the invariant.
LEMMA MembersInvNext == MembersInv /\ [Next]_vars => MembersInv'
<1> SUFFICES ASSUME MembersInv, [Next]_vars PROVE MembersInv'
  OBVIOUS
<1>1. CASE UNCHANGED vars
  BY <1>1, StutterKeepsInv
<1>2. ASSUME NEW w \in Workers, Begin(w) PROVE MembersInv'
  BY <1>2, BeginKeepsInv
<1>3. ASSUME NEW w \in Workers, Lock(w) PROVE MembersInv'
  BY <1>3, LockKeepsInv
<1>4. ASSUME NEW w \in Workers, Commit(w) PROVE MembersInv'
  BY <1>4, CommitKeepsInv
<1>5. ASSUME NEW w \in Workers, Crash(w) PROVE MembersInv'
  BY <1>5, RollbackKeepsInv DEF Crash
<1>6. ASSUME NEW w \in Workers, BreakDeadlock(w) PROVE MembersInv'
  BY <1>6, RollbackKeepsInv DEF BreakDeadlock
<1> QED BY <1>1, <1>2, <1>3, <1>4, <1>5, <1>6 DEF Next, Serve

-----------------------------------------------------------------------------
(* Theorems.                                                               *)

\* In every reachable state the rows are right, a lock belongs to a request on
\* its way, what a request has read under its locks is still so, and no two
\* requests are going to write the same row.
THEOREM MembersInvariant == Spec => []MembersInv
  BY MembersInvInit, MembersInvNext, PTL DEF Spec

\* Accounts and memberships come in pairs, every row holds what its columns
\* allow, and a lock outlasts no transaction.
THEOREM MembersTypeCorrect == Spec => []TypeOK
<1>1. MembersInv => TypeOK
  BY DEF MembersInv, LocksOK, Data, Typed, PersonOK, TypeOK
<1> QED BY <1>1, MembersInvariant, PTL

\* However bootstraps, transfers, activations and administration overlap, the
\* owner is the one ACTIVE Admin, with an account that can log in, and there
\* is no account before there is a workspace.
THEOREM OwnerStaysTheOneAdmin == Spec => []OwnerIsTheOneAdmin
<1>1. MembersInv => OwnerIsTheOneAdmin
  <2> SUFFICES ASSUME MembersInv PROVE OwnerIsTheOneAdmin
    OBVIOUS
  <2>0. Data(db)
    BY DEF MembersInv
  <2>1. CASE db[Workspace] = None
    BY <2>0, <2>1 DEF Data, PersonOK, OwnerIsTheOneAdmin
  <2>2. CASE db[Workspace] # None
    <3>1. Owner \in Accounts /\ \A a \in Accounts : Owns(db, a) <=> a = Owner
      BY <2>0, <2>2 DEF Data, Typed, WorkspaceRow, Owner, Owns
    <3>2. db[Account(Owner)] = "ACTIVE"
      BY <2>0, <3>1 DEF Data, PersonOK
    <3>3. ASSUME NEW a \in Accounts, db[Member(a)] # None
          PROVE  (db[Member(a)].role = "ADMIN" /\ db[Member(a)].status = "ACTIVE") <=> a = Owner
      BY <2>0, <3>1, <3>3 DEF Data, PersonOK
    <3> QED BY <2>2, <3>2, <3>3 DEF OwnerIsTheOneAdmin
  <2> QED BY <2>1, <2>2
<1> QED BY <1>1, MembersInvariant, PTL

\* An activation proof that can still be used is its member's only one, and
\* the member still waits for it, whatever restarts and revocations overlap.
THEOREM UsableProofsAreThePendingMembers == Spec => []ChallengesFollowMembers
<1>1. MembersInv => ChallengesFollowMembers
  <2> SUFFICES ASSUME MembersInv, NEW x \in Known(ChallengeRows), db[x].status = "ISSUED"
               PROVE  /\ db[Member(db[x].member)].status = "PENDING"
                      /\ \A y \in Known(ChallengeRows) :
                            db[y].status = "ISSUED" /\ db[y].member = db[x].member => x = y
    BY DEF ChallengesFollowMembers
  <2> DEFINE a == db[x].member
  <2>1. a \in Accounts /\ x \in UsableIn(db, a)
    BY DEF MembersInv, Data, Typed, Activation, Known, UsableIn, ChallengesIn
  <2>2. PersonOK(db, a)
    BY <2>1 DEF MembersInv, Data
  <2>3. ASSUME NEW y \in Known(ChallengeRows), db[y].status = "ISSUED", db[y].member = a PROVE x = y
    <3>1. y \in UsableIn(db, a)
      BY <2>3 DEF Known, UsableIn, ChallengesIn
    <3> QED BY <2>1, <2>2, <3>1 DEF PersonOK
  <2> QED BY <2>1, <2>2, <2>3 DEF PersonOK
<1> QED BY <1>1, MembersInvariant, PTL

\* A live session was opened in the role its member has, and that of a
\* suspended or revoked member was not opened before.
THEOREM SessionsStayCurrent == Spec => []LiveSessionsAreCurrent
<1>1. MembersInv => LiveSessionsAreCurrent
  BY DEF MembersInv, Data, PersonOK, LiveSessionsAreCurrent
<1> QED BY <1>1, MembersInvariant, PTL

\* A request that is about to commit what it wrote still has the live session,
\* the status and the role that authorized it.
THEOREM AuthorityOutlastsTheRequest == Spec => []AuthorityHoldsAtCommit
<1>1. MembersInv => AuthorityHoldsAtCommit
  <2> SUFFICES ASSUME MembersInv, NEW w \in Workers, tx[w].pc = "commit", tx[w].kind \in BearerKinds,
                      tx[w].writes # <<>>
               PROVE  /\ db[Session(tx[w].actor)] # None
                      /\ db[Member(tx[w].actor)].status = "ACTIVE"
                      /\ db[Member(tx[w].actor)].role = tx[w].seen
    BY DEF AuthorityHoldsAtCommit
  <2>1. Shape(tx[w]) /\ Knows(db, lock, w, tx[w])
    BY DEF MembersInv, RequestsOK, Request, Idle
  <2>2. tx[w].stage = "update"
    BY <2>1 DEF Shape
  <2> QED BY <2>1, <2>2 DEF Knows
<1> QED BY <1>1, MembersInvariant, PTL

\* At most one transfer is open, and the present owner offered it.
THEOREM TransfersStayTheOwners == Spec => []TransfersComeFromTheOwner
<1>1. MembersInv => TransfersComeFromTheOwner
  BY DEF MembersInv, Data, WorkspaceOK, OfferedIn, TransfersComeFromTheOwner, Initiated, Owner
<1> QED BY <1>1, MembersInvariant, PTL

\* A recovery that is about to commit is not that of the present owner.
THEOREM RecoveryStaysFromTheOwner == Spec => []RecoveryNeverTakesTheOwner
<1>1. MembersInv => RecoveryNeverTakesTheOwner
  <2> SUFFICES ASSUME MembersInv, NEW w \in Workers, tx[w].pc = "commit",
                      NEW x \in DOMAIN tx[w].writes \cap RecoveryRows, tx[w].writes[x].status = "USED"
               PROVE  db[x].account # Owner
    BY DEF RecoveryNeverTakesTheOwner
  <2>1. Data(db) /\ Intent(db, lock, w, tx[w])
    BY DEF MembersInv, RequestsOK
  <2>2. /\ x \in Touched(tx[w]) \cap RecoveryRows
        /\ After(db, tx[w])[x] = tx[w].writes[x]
    BY RowSets DEF Touched, Ending, After
  <2>3. db[x] # None /\ ~Owns(db, db[x].account)
    BY <2>1, <2>2 DEF Intent, Effect
  <2>4. db[x].account \in Accounts /\ x \in RecoveriesIn(db, db[x].account)
    BY <2>1, <2>3 DEF Data, Typed, RecoveryRow, RecoveriesIn
  <2>5. db[Workspace] # None
    BY <2>1, <2>4 DEF Data, PersonOK
  <2> QED BY <2>3, <2>5 DEF Owns, Owner
<1> QED BY <1>1, MembersInvariant, PTL

\* A membership moves one version at a time, never back to PENDING and never
\* out of REVOKED, and its Admin role changes only with the ownership.
THEOREM MembershipsOnlyMoveForward == Spec => MembershipsMoveForward
<1>1. MembersInv /\ MembersInv' /\ [Next]_vars => [MemberStep]_vars
  <2> SUFFICES ASSUME MembersInv, MembersInv', [Next]_vars PROVE MemberStep
    OBVIOUS
  <2>1. CASE db' = db
    BY <2>1 DEF MemberStep
  <2>2. ASSUME NEW w \in Workers, Commit(w) PROVE MemberStep
    <3> SUFFICES ASSUME NEW a \in Accounts, db[Member(a)] # None, db'[Member(a)] # db[Member(a)]
                 PROVE  /\ Moves(db[Member(a)], db'[Member(a)])
                        /\ (db[Member(a)].role = "ADMIN") # (db'[Member(a)].role = "ADMIN") =>
                              db'[Workspace].owner # Owner
      BY DEF MemberStep, Moves
    <3>1. Later(db, db')
      BY <2>2, CommitWrites DEF Effect
    <3>2. Moves(db[Member(a)], db'[Member(a)]) /\ db'[Member(a)] # None
      BY <3>1 DEF Later
    <3>3. PersonOK(db, a) /\ PersonOK(db', a)
      BY DEF MembersInv, Data
    <3>4. db[Workspace] # None /\ db'[Workspace] # None
      BY <3>2, <3>3 DEF PersonOK
    <3>5. /\ db[Member(a)].role = "ADMIN" <=> Owner = a
          /\ db'[Member(a)].role = "ADMIN" <=> db'[Workspace].owner = a
      BY <3>2, <3>3, <3>4 DEF PersonOK, Owns, Owner
    <3> QED BY <3>2, <3>5
  <2>3. db' = db \/ \E w \in Workers : Commit(w)
    BY DEF Next, Serve, Begin, Lock, Crash, BreakDeadlock, vars
  <2> QED BY <2>1, <2>2, <2>3
<1> QED BY <1>1, MembersInvariant, PTL DEF Spec, MembershipsMoveForward
=============================================================================
