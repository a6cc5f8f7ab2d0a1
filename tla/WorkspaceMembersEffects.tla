----------------------- MODULE WorkspaceMembersEffects -----------------------
(***************************************************************************)
(* The inductive invariant of WorkspaceMembers, and what a commit does to  *)
(* it.  Two locks carry the argument: the lock of an account row guards    *)
(* every row of that person - account, membership, session, challenges and *)
(* recoveries - and the lock of the workspace row guards the workspace and *)
(* its transfers.  A transaction whose writes are settled holds the guard  *)
(* of all it is going to write, so what it found is still true when it     *)
(* commits.  The operators take the rows d and the locks l as parameters,  *)
(* so that they speak of the rows before and after a commit alike.         *)
(***************************************************************************)
EXTENDS WorkspaceMembers, FiniteSetTheorems, TLAPS

-----------------------------------------------------------------------------
(* The rows, and the invariant of what is committed.                       *)

Owns(d, a) == d[Workspace] # None /\ d[Workspace].owner = a

ChallengesIn(d, a) == {x \in ChallengeRows : d[x] # None /\ d[x].member = a}
RecoveriesIn(d, a) == {x \in RecoveryRows : d[x] # None /\ d[x].account = a}
UsableIn(d, a)     == {x \in ChallengesIn(d, a) : d[x].status = "ISSUED"}
OfferedIn(d)       == {x \in TransferRows : d[x] # None /\ d[x].status = "INITIATED"}

\* The rows of one person, and the rows that belong to nobody.
RowsOf(d, a)  == {Account(a), Member(a), Session(a)} \cup ChallengesIn(d, a) \cup RecoveriesIn(d, a)
WorkspaceRows == {Workspace, Installation} \cup TransferRows

Typed(d) ==
    /\ DOMAIN d = Rows
    /\ d[Workspace] \in WorkspaceRow \cup {None}
    /\ d[Installation] \in {"COMPLETE", None}
    /\ \A a \in Accounts :
          /\ d[Account(a)] \in {None, "PENDING_ACTIVATION", "ACTIVE"}
          /\ d[Member(a)] \in Membership \cup {None}
          /\ d[Session(a)] \in LiveSession \cup {None}
    /\ \A x \in ChallengeRows : d[x] \in Activation \cup {None}
    /\ \A x \in RecoveryRows : d[x] \in RecoveryRow \cup {None}
    /\ \A x \in TransferRows : d[x] \in TransferRow \cup {None}

WorkspaceOK(d) ==
    /\ d[Installation] = None <=> d[Workspace] = None
    /\ \A x \in TransferRows : d[x] # None => d[Workspace] # None
    /\ \A x \in OfferedIn(d) : d[x].from = d[Workspace].owner
    /\ \A x, y \in OfferedIn(d) : x = y

PersonOK(d, a) ==
    /\ d[Account(a)] = None <=> d[Member(a)] = None
    /\ d[Account(a)] # None => d[Workspace] # None
    /\ d[Member(a)] # None => (d[Member(a)].role = "ADMIN" <=> Owns(d, a))
    /\ Owns(d, a) => d[Account(a)] = "ACTIVE" /\ d[Member(a)].status = "ACTIVE"
    /\ d[Session(a)] # None =>
          /\ d[Account(a)] # None
          /\ d[Session(a)].role = d[Member(a)].role
          /\ d[Member(a)].status \in {"SUSPENDED", "REVOKED"} =>
                d[Session(a)].status = d[Member(a)].status
    /\ \A x \in ChallengesIn(d, a) \cup RecoveriesIn(d, a) : d[Account(a)] # None
    /\ \A x \in UsableIn(d, a) : d[Member(a)].status = "PENDING"
    /\ \A x, y \in UsableIn(d, a) : x = y

Data(d) ==
    /\ Typed(d)
    /\ WorkspaceOK(d)
    /\ \A a \in Accounts : PersonOK(d, a)

\* What may become of a membership, and of the rows altogether: none but a
\* session is deleted, and no row changes hands.
Moves(old, new) ==
    /\ new.version = old.version + 1
    /\ old.status # "REVOKED"
    /\ old.status # "PENDING" => new.status # "PENDING"

Later(d, e) ==
    /\ d[Workspace] # None => e[Workspace] # None
    /\ \A a \in Accounts :
          /\ d[Account(a)] # None => e[Account(a)] # None
          /\ d[Member(a)] # None => e[Member(a)] # None
          /\ d[Member(a)] # None /\ e[Member(a)] # d[Member(a)] => Moves(d[Member(a)], e[Member(a)])
    /\ \A x \in ChallengeRows : d[x] # None => e[x] # None /\ e[x].member = d[x].member
    /\ \A x \in RecoveryRows : d[x] # None => e[x] # None /\ e[x].account = d[x].account
    /\ \A x \in TransferRows : d[x] # None => e[x] # None /\ e[x].from = d[x].from /\ e[x].to = d[x].to

-----------------------------------------------------------------------------
(* What a transaction is going to write.                                   *)

OpenIn(d, x)  == d[x] # None /\ (x \notin SessionRows => d[x].status = "ISSUED")
EndedIn(d, x) == IF x \in SessionRows THEN None ELSE [d[x] EXCEPT !.status = "REVOKED"]

\* While it waits for the rows it ends, they are not among its writes yet.
Ending(t)  == IF t.pc = "lock" THEN t.ends ELSE {}
Touched(t) == DOMAIN t.writes \cup Ending(t)
After(d, t) ==
    [x \in Rows |-> IF x \in Ending(t) THEN EndedIn(d, x)
                    ELSE IF x \in DOMAIN t.writes THEN t.writes[x] ELSE d[x]]

\* The lock that guards the rows of a person; before the person is known it
\* is that of the address, and before bootstrap that of the installation.
Guards(d, l, w, a) ==
    \/ l[Account(a)] = w /\ d[Account(a)] # None
    \/ l[Email(a)] = w /\ d[Account(a)] = None /\ d[Workspace] # None
    \/ l[Installation] = w /\ d[Workspace] = None

GuardsWorkspace(d, l, w) ==
    \/ l[Workspace] = w /\ d[Workspace] # None
    \/ l[Installation] = w /\ d[Workspace] = None

Hits(n, e, a) == \E x \in n : x \in RowsOf(e, a)

\* Writing the rows of n turns d into e; w holds the guard of all of it.
Effect(d, e, n, l, w) ==
    /\ n \subseteq Rows
    /\ Typed(e)
    /\ Later(d, e)
    /\ \A a \in Accounts : Hits(n, e, a) => Guards(d, l, w, a) /\ PersonOK(e, a)
    /\ \A x \in n \cap WorkspaceRows : GuardsWorkspace(d, l, w) /\ WorkspaceOK(e)
    /\ \A a \in Accounts : (Owns(d, a) <=> Owns(e, a)) \/ Hits(n, e, a)
    /\ \A x \in n \cap RecoveryRows : e[x].status = "USED" => d[x] # None /\ ~Owns(d, d[x].account)

Intent(d, l, w, t) ==
    /\ Effect(d, After(d, t), Touched(t), l, w)
    /\ \A x \in Ending(t) : OpenIn(d, x)
    /\ \A x \in Touched(t) \cap SessionRows : After(d, t)[x] = None => x \in t.ends

-----------------------------------------------------------------------------
(* Row names.                                                              *)

RowFacts ==
    /\ Workspace[1] = "workspace" /\ Installation[1] = "installation"
    /\ \A a : Account(a)[1] = "account" /\ Account(a)[2] = a
    /\ \A a : Member(a)[1] = "member" /\ Member(a)[2] = a
    /\ \A a : Session(a)[1] = "session" /\ Session(a)[2] = a
    /\ \A a : Email(a)[1] = "email" /\ Email(a)[2] = a
    /\ \A x \in ChallengeRows : x[1] = "challenge"
    /\ \A x \in RecoveryRows : x[1] = "recovery"
    /\ \A x \in TransferRows : x[1] = "transfer"
    /\ \A x \in SessionRows : x[1] = "session" /\ x[2] \in Accounts /\ x = Session(x[2])

\* Rows of different kinds, and of different people, are different rows.
LEMMA RowNames == RowFacts
<1>1. Workspace[1] = "workspace" /\ Installation[1] = "installation"
  BY DEF Workspace, Installation
<1>2. \A a : Account(a)[1] = "account" /\ Account(a)[2] = a
  BY DEF Account
<1>3. \A a : Member(a)[1] = "member" /\ Member(a)[2] = a
  BY DEF Member
<1>4. \A a : Session(a)[1] = "session" /\ Session(a)[2] = a
  BY DEF Session
<1>5. \A a : Email(a)[1] = "email" /\ Email(a)[2] = a
  BY DEF Email
<1>6. \A x \in ChallengeRows : x[1] = "challenge"
  BY DEF ChallengeRows, Challenge
<1>7. \A x \in RecoveryRows : x[1] = "recovery"
  BY DEF RecoveryRows, Recovery
<1>8. \A x \in TransferRows : x[1] = "transfer"
  BY DEF TransferRows, Transfer
<1>9. \A x \in SessionRows : x[1] = "session" /\ x[2] \in Accounts /\ x = Session(x[2])
  <2> SUFFICES ASSUME NEW a \in Accounts
               PROVE  Session(a)[1] = "session" /\ Session(a)[2] \in Accounts
                      /\ Session(a) = Session(Session(a)[2])
    BY DEF SessionRows
  <2> QED BY <1>4
<1> QED BY <1>1, <1>2, <1>3, <1>4, <1>5, <1>6, <1>7, <1>8, <1>9 DEF RowFacts

\* The rows of every kind are rows.
LEMMA RowSets ==
    /\ Workspace \in Rows /\ Installation \in Rows
    /\ \A a \in Accounts : Account(a) \in Rows /\ Member(a) \in Rows /\ Session(a) \in Rows
    /\ \A a \in Accounts : Session(a) \in SessionRows
    /\ ChallengeRows \subseteq Rows /\ RecoveryRows \subseteq Rows /\ TransferRows \subseteq Rows
    /\ SessionRows \subseteq Rows
  BY DEF Rows, SessionRows

\* Every row is somebody's, or one of the workspace's.
LEMMA RowKinds ==
    ASSUME NEW x \in Rows
    PROVE  \/ x \in WorkspaceRows
           \/ \E a \in Accounts : x \in {Account(a), Member(a), Session(a)}
           \/ x \in ChallengeRows \cup RecoveryRows
  BY DEF Rows, SessionRows, WorkspaceRows

\* Transactions lock all rows but those of transfers, and addresses.
LEMMA LockableRows ==
    /\ Workspace \in Lockable /\ Installation \in Lockable
    /\ \A a \in Accounts : /\ Account(a) \in Lockable /\ Member(a) \in Lockable
                           /\ Session(a) \in Lockable /\ Email(a) \in Lockable
    /\ ChallengeRows \subseteq Lockable /\ RecoveryRows \subseteq Lockable /\ SessionRows \subseteq Lockable
<1>1. Workspace \notin TransferRows /\ Installation \notin TransferRows
  BY RowNames DEF RowFacts
<1>2. \A a \in Accounts : Account(a) \notin TransferRows /\ Member(a) \notin TransferRows
                          /\ Session(a) \notin TransferRows
  BY RowNames DEF RowFacts
<1>3. \A x \in ChallengeRows \cup RecoveryRows \cup SessionRows : x \notin TransferRows
  BY RowNames DEF RowFacts
<1>4. \A a \in Accounts : Email(a) \in Lockable
  BY DEF Lockable, Addresses
<1> QED BY <1>1, <1>2, <1>3, <1>4, RowSets DEF Lockable

-----------------------------------------------------------------------------
(* Guards.                                                                 *)

\* One transaction at a time guards a person.
LEMMA GuardIsUnique ==
    ASSUME NEW d, NEW l, NEW w, NEW v, NEW a \in Accounts, PersonOK(d, a),
           Guards(d, l, w, a), Guards(d, l, v, a)
    PROVE  w = v
  BY DEF PersonOK, Guards

\* ... and one the workspace.
LEMMA WorkspaceGuardIsUnique ==
    ASSUME NEW d, NEW l, NEW w, NEW v, GuardsWorkspace(d, l, w), GuardsWorkspace(d, l, v)
    PROVE  w = v
  BY DEF GuardsWorkspace

\* A guard lasts while its locks are held, and nobody else makes the account
\* or the workspace exist.
LEMMA GuardLasts ==
    ASSUME NEW d, NEW e, NEW l, NEW k, NEW w, NEW a \in Accounts,
           \A x \in Lockable : l[x] = w => k[x] = w,
           Guards(d, l, w, a),
           d[Account(a)] = e[Account(a)],
           d[Workspace] # None => e[Workspace] # None,
           d[Workspace] = None /\ l[Installation] = w => e[Workspace] = None
    PROVE  Guards(e, k, w, a)
  BY LockableRows DEF Guards

-----------------------------------------------------------------------------
(* A person is the same in two databases.                                  *)

Alike(d, e, a) ==
    /\ d[Account(a)] = e[Account(a)]
    /\ d[Member(a)] = e[Member(a)]
    /\ d[Session(a)] = e[Session(a)]
    /\ \A x \in ChallengeRows \cup RecoveryRows :
          x \in RowsOf(d, a) \/ x \in RowsOf(e, a) => d[x] = e[x]
    /\ Owns(d, a) <=> Owns(e, a)
    /\ d[Workspace] # None => e[Workspace] # None

\* What is true of a person is true where the person is the same.
LEMMA AlikeIsOK ==
    ASSUME NEW d, NEW e, NEW a \in Accounts, Alike(d, e, a), PersonOK(d, a)
    PROVE  PersonOK(e, a)
<1>1. /\ ChallengesIn(e, a) = ChallengesIn(d, a)
      /\ \A x \in ChallengesIn(d, a) : d[x] = e[x]
  <2>1. ASSUME NEW x \in ChallengeRows PROVE x \in ChallengesIn(e, a) <=> x \in ChallengesIn(d, a)
    <3>1. x \in RowsOf(d, a) \/ x \in RowsOf(e, a) => d[x] = e[x]
      BY DEF Alike
    <3>2. /\ x \in ChallengesIn(d, a) => x \in RowsOf(d, a)
          /\ x \in ChallengesIn(e, a) => x \in RowsOf(e, a)
      BY DEF RowsOf
    <3> QED BY <3>1, <3>2 DEF ChallengesIn
  <2>2. \A x \in ChallengesIn(d, a) : x \in ChallengeRows /\ x \in RowsOf(d, a)
    BY DEF ChallengesIn, RowsOf
  <2>3. ChallengesIn(e, a) \subseteq ChallengeRows
    BY DEF ChallengesIn
  <2> QED BY <2>1, <2>2, <2>3 DEF Alike
<1>2. RecoveriesIn(e, a) = RecoveriesIn(d, a)
  <2>1. ASSUME NEW x \in RecoveryRows PROVE x \in RecoveriesIn(e, a) <=> x \in RecoveriesIn(d, a)
    <3>1. x \in RowsOf(d, a) \/ x \in RowsOf(e, a) => d[x] = e[x]
      BY DEF Alike
    <3>2. /\ x \in RecoveriesIn(d, a) => x \in RowsOf(d, a)
          /\ x \in RecoveriesIn(e, a) => x \in RowsOf(e, a)
      BY DEF RowsOf
    <3> QED BY <3>1, <3>2 DEF RecoveriesIn
  <2>2. RecoveriesIn(e, a) \subseteq RecoveryRows /\ RecoveriesIn(d, a) \subseteq RecoveryRows
    BY DEF RecoveriesIn
  <2> QED BY <2>1, <2>2
<1>3. UsableIn(e, a) = UsableIn(d, a)
  BY <1>1 DEF UsableIn
<1> QED BY <1>1, <1>2, <1>3 DEF PersonOK, Alike

\* The rows that a write does not hit keep the person the same.
LEMMA MissedIsAlike ==
    ASSUME NEW d, NEW e, NEW n, NEW a \in Accounts,
           Later(d, e), n \subseteq Rows,
           \A x \in Rows \ n : e[x] = d[x],
           (Owns(d, a) <=> Owns(e, a)) \/ Hits(n, e, a),
           ~Hits(n, e, a)
    PROVE  Alike(d, e, a)
<1>1. d[Account(a)] = e[Account(a)] /\ d[Member(a)] = e[Member(a)] /\ d[Session(a)] = e[Session(a)]
  BY RowSets DEF Hits, RowsOf
<1>2. ASSUME NEW x \in ChallengeRows \cup RecoveryRows, x \in RowsOf(d, a) \/ x \in RowsOf(e, a)
      PROVE  d[x] = e[x]
  <2>1. CASE x \in RowsOf(e, a)
    BY <2>1, RowSets DEF Hits
  <2>2. CASE x \in RowsOf(d, a)
    <3>0. x \notin {Account(a), Member(a), Session(a)}
      BY RowNames DEF RowFacts
    <3>1. CASE x \in ChallengesIn(d, a)
      <4>1. x \in ChallengesIn(e, a)
        BY <3>1 DEF ChallengesIn, Later
      <4> QED BY <4>1, <2>1 DEF RowsOf
    <3>2. CASE x \in RecoveriesIn(d, a)
      <4>1. x \in RecoveriesIn(e, a)
        BY <3>2 DEF RecoveriesIn, Later
      <4> QED BY <4>1, <2>1 DEF RowsOf
    <3> QED BY <2>2, <3>0, <3>1, <3>2 DEF RowsOf
  <2> QED BY <1>2, <2>1, <2>2
<1> QED BY <1>1, <1>2 DEF Alike, Later

-----------------------------------------------------------------------------
(* Commits.                                                                *)

\* The workspace and its transfers are right wherever they are the same.
LEMMA AlikeWorkspaceIsOK ==
    ASSUME NEW d, NEW e, \A x \in WorkspaceRows : d[x] = e[x], WorkspaceOK(d)
    PROVE  WorkspaceOK(e)
<1>1. /\ d[Workspace] = e[Workspace] /\ d[Installation] = e[Installation]
      /\ \A x \in TransferRows : d[x] = e[x]
  BY DEF WorkspaceRows
<1>2. OfferedIn(e) = OfferedIn(d) /\ \A x \in OfferedIn(d) : d[x] = e[x]
  BY <1>1 DEF OfferedIn
<1> QED BY <1>1, <1>2 DEF WorkspaceOK

\* A commit keeps the data right.
LEMMA CommitKeepsData ==
    ASSUME NEW d, NEW e, NEW n, NEW l, NEW w,
           Data(d), Effect(d, e, n, l, w), \A x \in Rows \ n : e[x] = d[x]
    PROVE  Data(e)
<1>1. Typed(e)
  BY DEF Effect
<1>2. WorkspaceOK(e)
  <2>1. CASE n \cap WorkspaceRows = {}
    <3>1. \A x \in WorkspaceRows : d[x] = e[x]
      BY <2>1, RowSets DEF WorkspaceRows
    <3> QED BY <3>1, AlikeWorkspaceIsOK DEF Data
  <2>2. CASE n \cap WorkspaceRows # {}
    BY <2>2 DEF Effect
  <2> QED BY <2>1, <2>2
<1>3. ASSUME NEW a \in Accounts PROVE PersonOK(e, a)
  <2>1. CASE Hits(n, e, a)
    BY <2>1 DEF Effect
  <2>2. CASE ~Hits(n, e, a)
    <3>1. Alike(d, e, a)
      BY <2>2, MissedIsAlike DEF Effect
    <3> QED BY <3>1, AlikeIsOK DEF Data
  <2> QED BY <2>1, <2>2
<1> QED BY <1>1, <1>2, <1>3 DEF Data

\* A person that v guards is the same after the commit of another.
LEMMA GuardedIsAlike ==
    ASSUME NEW d, NEW e, NEW n, NEW l, NEW w, NEW v, NEW a \in Accounts,
           Data(d), Effect(d, e, n, l, w), \A x \in Rows \ n : e[x] = d[x],
           v # w, Guards(d, l, v, a)
    PROVE  Alike(d, e, a) /\ Guards(e, l, v, a) /\ ~Hits(n, e, a)
<1>1. ~Hits(n, e, a)
  BY GuardIsUnique DEF Effect, Data
<1>2. Alike(d, e, a)
  BY <1>1, MissedIsAlike DEF Effect
<1>3. d[Workspace] = None /\ l[Installation] = v => e[Workspace] = None
  <2>1. SUFFICES ASSUME d[Workspace] = None, l[Installation] = v, e[Workspace] # None PROVE FALSE
    OBVIOUS
  <2>2. Workspace \in n \cap WorkspaceRows
    BY <2>1, RowSets DEF WorkspaceRows
  <2>3. GuardsWorkspace(d, l, w)
    BY <2>2 DEF Effect
  <2> QED BY <2>1, <2>3 DEF GuardsWorkspace
<1> QED BY <1>1, <1>2, <1>3, GuardLasts DEF Alike

\* The commit of w leaves what v is going to write as v settled it.
LEMMA CommitSpares ==
    ASSUME NEW d, NEW e, NEW f, NEW g, NEW n, NEW m, NEW l, NEW w, NEW v,
           Data(d), Effect(d, e, n, l, w), Effect(d, f, m, l, v),
           v # w, n \cap m = {}, DOMAIN g = Rows,
           \A x \in Rows \ n : e[x] = d[x],
           \A x \in Rows \ m : f[x] = d[x],
           \A x \in m : g[x] = f[x],
           \A x \in Rows \ m : g[x] = e[x]
    PROVE  Effect(e, g, m, l, v)
<1>0. m \subseteq Rows /\ Typed(e) /\ Typed(f) /\ Later(d, e) /\ Later(d, f)
  BY DEF Effect
<1>e. \A x \in m : e[x] = d[x]
  BY <1>0
<1>1. Typed(g)
  BY <1>0, RowSets DEF Typed
<1>2. Later(e, g)
  <2>1. \A x \in Rows : x \in m => e[x] = d[x] /\ g[x] = f[x]
    BY <1>e
  <2>2. \A x \in Rows : x \notin m => g[x] = e[x]
    OBVIOUS
  <2>3. e[Workspace] # None => g[Workspace] # None
    BY <2>1, <2>2, <1>0, RowSets DEF Later
  <2>4. ASSUME NEW a \in Accounts
        PROVE  /\ e[Account(a)] # None => g[Account(a)] # None
               /\ e[Member(a)] # None => g[Member(a)] # None
               /\ e[Member(a)] # None /\ g[Member(a)] # e[Member(a)] => Moves(e[Member(a)], g[Member(a)])
    BY <2>1, <2>2, <1>0, RowSets DEF Later
  <2>5. \A x \in ChallengeRows : e[x] # None => g[x] # None /\ g[x].member = e[x].member
    BY <2>1, <2>2, <1>0, RowSets DEF Later
  <2>6. \A x \in RecoveryRows : e[x] # None => g[x] # None /\ g[x].account = e[x].account
    BY <2>1, <2>2, <1>0, RowSets DEF Later
  <2>7. \A x \in TransferRows : e[x] # None => g[x] # None /\ g[x].from = e[x].from /\ g[x].to = e[x].to
    BY <2>1, <2>2, <1>0, RowSets DEF Later
  <2> QED BY <2>3, <2>4, <2>5, <2>6, <2>7 DEF Later
<1>3. ASSUME NEW a \in Accounts PROVE Hits(m, g, a) <=> Hits(m, f, a)
  <2>1. \A x \in m : x \in RowsOf(g, a) <=> x \in RowsOf(f, a)
    BY DEF RowsOf, ChallengesIn, RecoveriesIn
  <2> QED BY <2>1 DEF Hits
<1>4. ASSUME NEW a \in Accounts, Hits(m, f, a)
      PROVE  Guards(e, l, v, a) /\ PersonOK(g, a) /\ Alike(d, e, a)
  <2>1. Guards(d, l, v, a) /\ PersonOK(f, a)
    BY <1>4 DEF Effect
  <2>2. Alike(d, e, a) /\ Guards(e, l, v, a)
    BY <2>1, GuardedIsAlike
  <2>3. Alike(f, g, a)
    <3>1. f[Account(a)] = g[Account(a)] /\ f[Member(a)] = g[Member(a)] /\ f[Session(a)] = g[Session(a)]
      <4>1. ASSUME NEW x \in Rows, d[x] = e[x] PROVE f[x] = g[x]
        BY <4>1
      <4> QED BY <4>1, <2>2, RowSets DEF Alike
    <3>2. ASSUME NEW x \in ChallengeRows \cup RecoveryRows, x \in RowsOf(f, a) \/ x \in RowsOf(g, a)
          PROVE  f[x] = g[x]
      <4>1. CASE x \in m
        BY <4>1
      <4>2. CASE x \notin m
        <5>1. x \in Rows /\ f[x] = d[x] /\ g[x] = e[x]
          BY <4>2, RowSets
        <5>2. x \in RowsOf(d, a) \/ x \in RowsOf(e, a)
          BY <5>1, <3>2 DEF RowsOf, ChallengesIn, RecoveriesIn
        <5> QED BY <5>1, <5>2, <2>2 DEF Alike
      <4> QED BY <4>1, <4>2
    <3>3. (Owns(f, a) <=> Owns(g, a)) /\ (f[Workspace] # None => g[Workspace] # None)
      <4>1. CASE Workspace \in m
        BY <4>1 DEF Owns
      <4>2. CASE Workspace \notin m
        <5>1. f[Workspace] = d[Workspace] /\ g[Workspace] = e[Workspace]
          BY <4>2, RowSets
        <5> QED BY <5>1, <2>2 DEF Owns, Alike
      <4> QED BY <4>1, <4>2
    <3> QED BY <3>1, <3>2, <3>3 DEF Alike
  <2> QED BY <2>1, <2>2, <2>3, AlikeIsOK
<1>5. ASSUME NEW x \in m \cap WorkspaceRows
      PROVE  GuardsWorkspace(e, l, v) /\ WorkspaceOK(g)
  <2>1. GuardsWorkspace(d, l, v) /\ WorkspaceOK(f)
    BY DEF Effect
  <2>2. n \cap WorkspaceRows = {}
    BY <2>1, WorkspaceGuardIsUnique DEF Effect
  <2>3. \A y \in WorkspaceRows : y \in Rows /\ e[y] = d[y]
    BY <2>2, RowSets DEF WorkspaceRows
  <2>4. \A y \in WorkspaceRows : f[y] = g[y]
    BY <2>3
  <2>5. GuardsWorkspace(e, l, v)
    BY <2>1, <2>3 DEF GuardsWorkspace, WorkspaceRows
  <2> QED BY <2>1, <2>4, <2>5, AlikeWorkspaceIsOK
<1>6. ASSUME NEW a \in Accounts PROVE (Owns(e, a) <=> Owns(g, a)) \/ Hits(m, g, a)
  <2>1. CASE Workspace \in m
    <3>1. e[Workspace] = d[Workspace] /\ g[Workspace] = f[Workspace]
      BY <2>1, <1>e
    <3>2. (Owns(d, a) <=> Owns(f, a)) \/ Hits(m, f, a)
      BY DEF Effect
    <3> QED BY <3>1, <3>2, <1>3 DEF Owns
  <2>2. CASE Workspace \notin m
    BY <2>2, RowSets DEF Owns
  <2> QED BY <2>1, <2>2
<1>7. ASSUME NEW x \in m \cap RecoveryRows, g[x].status = "USED"
      PROVE  e[x] # None /\ ~Owns(e, e[x].account)
  <2>1. f[x].status = "USED" /\ e[x] = d[x]
    BY <1>7, <1>e
  <2>2. d[x] # None /\ ~Owns(d, d[x].account)
    BY <2>1 DEF Effect
  <2>3. d[x] \in RecoveryRow /\ f[x] # None /\ f[x].account = d[x].account
    BY <2>2, <1>0 DEF Data, Typed, Later
  <2>4. d[x].account \in Accounts
    BY <2>3 DEF RecoveryRow
  <2>5. Hits(m, f, d[x].account)
    BY <2>3 DEF Hits, RowsOf, RecoveriesIn
  <2>6. Alike(d, e, d[x].account)
    BY <2>4, <2>5, <1>4
  <2> QED BY <2>1, <2>2, <2>6 DEF Alike
<1> QED BY <1>0, <1>1, <1>2, <1>3, <1>4, <1>5, <1>6, <1>7 DEF Effect

\* What is settled stays so while the locks are held.
LEMMA EffectKeepsItsLocks ==
    ASSUME NEW d, NEW e, NEW n, NEW l, NEW k, NEW w, Effect(d, e, n, l, w),
           \A x \in Lockable : l[x] = w => k[x] = w
    PROVE  Effect(d, e, n, k, w)
<1>1. \A a \in Accounts : Guards(d, l, w, a) => Guards(d, k, w, a)
  BY LockableRows DEF Guards
<1>2. GuardsWorkspace(d, l, w) => GuardsWorkspace(d, k, w)
  BY LockableRows DEF GuardsWorkspace
<1> QED BY <1>1, <1>2 DEF Effect

-----------------------------------------------------------------------------
(* Three ways to write: nothing, the rows of one person, and transfers.    *)

\* A request that is refused writes nothing.
LEMMA NothingWritten ==
    ASSUME NEW d, NEW e, NEW l, NEW w, Data(d), DOMAIN e = Rows, \A x \in Rows : e[x] = d[x]
    PROVE  Effect(d, e, {}, l, w)
<1>1. Typed(e)
  BY RowSets DEF Data, Typed
<1>2. Later(d, e)
  BY RowSets DEF Later
<1>3. \A a \in Accounts : Owns(d, a) <=> Owns(e, a)
  BY RowSets DEF Owns
<1> QED BY <1>1, <1>2, <1>3 DEF Effect, Hits

\* A row of one person is nobody else's.
LEMMA RowsAreOnes ==
    ASSUME NEW e, NEW a \in Accounts, NEW b \in Accounts, NEW x, x \in RowsOf(e, a), x \in RowsOf(e, b)
    PROVE  a = b
  BY RowNames DEF RowFacts, RowsOf, ChallengesIn, RecoveriesIn

\* Whoever guards a person may write that person's rows.
LEMMA OnePersonWritten ==
    ASSUME NEW d, NEW e, NEW n, NEW l, NEW w, NEW a \in Accounts,
           Data(d), Guards(d, l, w, a), d[Workspace] # None,
           DOMAIN e = Rows, n \subseteq Rows, \A x \in Rows \ n : e[x] = d[x],
           n \subseteq RowsOf(e, a),
           e[Account(a)] \in {"PENDING_ACTIVATION", "ACTIVE"},
           e[Member(a)] \in Membership,
           e[Session(a)] \in LiveSession \cup {None},
           \A x \in n \cap ChallengeRows :
               e[x] \in Activation /\ (d[x] # None => d[x].member = a),
           \A x \in n \cap RecoveryRows :
               /\ e[x] \in RecoveryRow /\ (d[x] # None => d[x].account = a)
               /\ e[x].status = "USED" => d[x] # None /\ ~Owns(d, a),
           d[Member(a)] # None /\ e[Member(a)] # d[Member(a)] => Moves(d[Member(a)], e[Member(a)]),
           PersonOK(e, a)
    PROVE  Effect(d, e, n, l, w)
<1>0. Typed(d)
  BY DEF Data
<1>n. None \notin {"PENDING_ACTIVATION", "ACTIVE"} /\ None \notin Membership \cup Activation \cup RecoveryRow
  BY MembersAssumption
<1>1. ASSUME NEW b \in Accounts, b # a
      PROVE  e[Account(b)] = d[Account(b)] /\ e[Member(b)] = d[Member(b)] /\ e[Session(b)] = d[Session(b)]
  <2>1. {Account(b), Member(b), Session(b)} \subseteq RowsOf(e, b) \cap Rows
    BY RowSets DEF RowsOf
  <2>2. \A x \in {Account(b), Member(b), Session(b)} : x \notin n
    BY <2>1, <1>1, RowsAreOnes
  <2> QED BY <2>1, <2>2
<1>2. \A x \in WorkspaceRows : x \notin n /\ x \in Rows /\ e[x] = d[x]
  <2>1. \A x \in WorkspaceRows : x[1] \in {"workspace", "installation", "transfer"} /\ x \in Rows
    BY RowNames, RowSets DEF RowFacts, WorkspaceRows
  <2>2. \A x \in RowsOf(e, a) : x[1] \notin {"workspace", "installation", "transfer"}
    BY RowNames DEF RowFacts, RowsOf, ChallengesIn, RecoveriesIn
  <2> QED BY <2>1, <2>2
<1>3. /\ e[Workspace] = d[Workspace] /\ e[Installation] = d[Installation]
      /\ \A x \in TransferRows : e[x] = d[x]
  BY <1>2 DEF WorkspaceRows
<1>4. \A x \in ChallengeRows : x \notin n => e[x] = d[x]
  BY RowSets
<1>5. \A x \in RecoveryRows : x \notin n => e[x] = d[x]
  BY RowSets
<1>6. \A x \in n \cap ChallengeRows : e[x].member = a
  <2>1. \A x \in ChallengeRows : x \notin {Account(a), Member(a), Session(a)} /\ x \notin RecoveryRows
    BY RowNames DEF RowFacts
  <2> QED BY <2>1 DEF RowsOf, ChallengesIn, RecoveriesIn
<1>7. \A x \in n \cap RecoveryRows : e[x].account = a
  <2>1. \A x \in RecoveryRows : x \notin {Account(a), Member(a), Session(a)} /\ x \notin ChallengeRows
    BY RowNames DEF RowFacts
  <2> QED BY <2>1 DEF RowsOf, ChallengesIn, RecoveriesIn
<1>8. Typed(e)
  <2>1. ASSUME NEW b \in Accounts
        PROVE  /\ e[Account(b)] \in {None, "PENDING_ACTIVATION", "ACTIVE"}
               /\ e[Member(b)] \in Membership \cup {None}
               /\ e[Session(b)] \in LiveSession \cup {None}
    BY <1>0, <1>1 DEF Typed
  <2>2. \A x \in ChallengeRows : e[x] \in Activation \cup {None}
    BY <1>0, <1>4 DEF Typed
  <2>3. \A x \in RecoveryRows : e[x] \in RecoveryRow \cup {None}
    BY <1>0, <1>5 DEF Typed
  <2> QED BY <2>1, <2>2, <2>3, <1>0, <1>3 DEF Typed
<1>9. Later(d, e)
  <2>1. ASSUME NEW b \in Accounts
        PROVE  /\ d[Account(b)] # None => e[Account(b)] # None
               /\ d[Member(b)] # None => e[Member(b)] # None
               /\ d[Member(b)] # None /\ e[Member(b)] # d[Member(b)] => Moves(d[Member(b)], e[Member(b)])
    BY <1>1, <1>n
  <2>2. \A x \in ChallengeRows : d[x] # None => e[x] # None /\ e[x].member = d[x].member
    BY <1>4, <1>6, <1>n
  <2>3. \A x \in RecoveryRows : d[x] # None => e[x] # None /\ e[x].account = d[x].account
    BY <1>5, <1>7, <1>n
  <2>4. \A x \in TransferRows : d[x] # None => e[x] # None /\ e[x].from = d[x].from /\ e[x].to = d[x].to
    BY <1>3
  <2> QED BY <2>1, <2>2, <2>3, <2>4, <1>3 DEF Later
<1>10. \A b \in Accounts : Hits(n, e, b) => b = a
  BY RowsAreOnes DEF Hits
<1>11. \A b \in Accounts : Owns(d, b) <=> Owns(e, b)
  BY <1>3 DEF Owns
<1>12. \A x \in n \cap RecoveryRows : e[x].status = "USED" => d[x] # None /\ ~Owns(d, d[x].account)
  OBVIOUS
<1> QED BY <1>2, <1>8, <1>9, <1>10, <1>11, <1>12 DEF Effect

\* Whoever guards the workspace may count its version up, and open and close
\* its transfers.
LEMMA WorkspaceWritten ==
    ASSUME NEW d, NEW e, NEW n, NEW l, NEW w,
           Data(d), GuardsWorkspace(d, l, w), d[Workspace] # None,
           DOMAIN e = Rows, n \subseteq {Workspace} \cup TransferRows, \A x \in Rows \ n : e[x] = d[x],
           e[Workspace] \in WorkspaceRow, e[Workspace].owner = d[Workspace].owner,
           \A x \in n \cap TransferRows :
               /\ e[x] \in TransferRow
               /\ d[x] # None => e[x].from = d[x].from /\ e[x].to = d[x].to,
           WorkspaceOK(e)
    PROVE  Effect(d, e, n, l, w)
<1>0. Typed(d)
  BY DEF Data
<1>1. \A x \in n : x \in Rows /\ x[1] \in {"workspace", "transfer"}
  BY RowNames, RowSets DEF RowFacts
<1>2. /\ \A a \in Accounts : /\ e[Account(a)] = d[Account(a)] /\ e[Member(a)] = d[Member(a)]
                             /\ e[Session(a)] = d[Session(a)]
      /\ \A x \in ChallengeRows : x \notin n /\ e[x] = d[x]
      /\ \A x \in RecoveryRows : x \notin n /\ e[x] = d[x]
      /\ e[Installation] = d[Installation]
  BY <1>1, RowNames, RowSets DEF RowFacts
<1>n. None \notin WorkspaceRow \cup TransferRow
  BY MembersAssumption
<1>3. \A x \in TransferRows : x \notin n => e[x] = d[x]
  BY RowSets
<1>4. Typed(e)
  <2>1. \A x \in TransferRows : e[x] \in TransferRow \cup {None}
    BY <1>0, <1>3 DEF Typed
  <2> QED BY <2>1, <1>0, <1>2 DEF Typed
<1>5. Later(d, e)
  <2>1. \A x \in TransferRows : d[x] # None => e[x] # None /\ e[x].from = d[x].from /\ e[x].to = d[x].to
    BY <1>3, <1>n
  <2> QED BY <2>1, <1>2, <1>n DEF Later
<1>6. \A a \in Accounts : ~Hits(n, e, a)
  <2>1. \A a : \A x \in RowsOf(e, a) : x[1] \notin {"workspace", "transfer"}
    BY RowNames DEF RowFacts, RowsOf, ChallengesIn, RecoveriesIn
  <2> QED BY <2>1, <1>1 DEF Hits
<1>7. \A a \in Accounts : Owns(d, a) <=> Owns(e, a)
  BY <1>n DEF Owns
<1> QED BY <1>1, <1>2, <1>4, <1>5, <1>6, <1>7 DEF Effect
=============================================================================
