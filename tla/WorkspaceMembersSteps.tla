------------------------ MODULE WorkspaceMembersSteps ------------------------
(***************************************************************************)
(* What a request of WorkspaceMembers knows on its way, and that every     *)
(* step of it keeps that: it goes on with the locks it relies on held or   *)
(* queued, and once its writes are settled it holds the guard of each.     *)
(* One lemma per step of the code; ProceedSettles puts them together.      *)
(***************************************************************************)
EXTENDS WorkspaceMembersEffects

-----------------------------------------------------------------------------
(* What is known about a request on its way.                               *)

Staged(kind, stage) ==
    \/ kind \in BearerKinds /\ stage \in {"session", "account"}
    \/ kind \in PublicKinds /\ stage = kind
    \/ kind \in Mutations /\ stage = "mutate"
    \/ kind = "SETTINGS" /\ stage = "settings"
    \/ kind = "PROVISION" /\ stage \in {"provision", "duplicate"}
    \/ kind = "RESTART" /\ stage = "restart"
    \/ kind = "INITIATE" /\ stage \in {"candidate", "initiate"}
    \/ kind = "CONFIRM" /\ stage \in {"transfer", "confirm"}
    \/ kind = "CANCEL" /\ stage \in {"owner", "cancel"}
    \/ kind = "RECOVER" /\ stage = "recover"
    \/ stage = "update"

Shape(t) ==
    /\ t = [pc |-> t.pc, kind |-> t.kind, actor |-> t.actor, on |-> t.on, key |-> t.key,
            role |-> t.role, version |-> t.version, seen |-> t.seen, stage |-> t.stage,
            todo |-> t.todo, ends |-> t.ends, writes |-> t.writes]
    /\ t.kind \in BearerKinds \cup PublicKinds
    /\ Staged(t.kind, t.stage)
    /\ t.stage # "update" => t.ends = {} /\ t.writes = <<>>

\* The rows the request is about exist; none of them can be deleted.
Named(d, t) ==
    /\ t.kind \in BearerKinds => t.actor \in Accounts /\ d[Account(t.actor)] # None
    /\ t.kind \in Mutations \cup {"RESTART", "INITIATE", "LOGIN"} =>
          t.on \in Accounts /\ d[Account(t.on)] # None
    /\ t.kind \in {"BOOTSTRAP", "PROVISION", "RECOVER"} => t.on \in Accounts
    /\ t.stage \in {"recover", "duplicate"} => d[Account(t.on)] # None
    /\ t.kind = "ACTIVATE" => t.key \in ChallengeRows /\ d[t.key] # None
    /\ t.kind = "CONFIRM_RECOVERY" => t.key \in RecoveryRows /\ d[t.key] # None
    /\ t.kind \in {"CONFIRM", "CANCEL"} => t.key \in TransferRows /\ d[t.key] # None
    /\ t.kind \in {"CHANGE_ROLE", "PROVISION", "INITIATE"} => t.role \in Roles

\* What was read under a lock that is still held.
Knows(d, l, w, t) ==
    /\ t.kind \in BearerKinds /\ t.stage # "session" =>
          l[Session(t.actor)] = w /\ d[Session(t.actor)] # None
    /\ t.kind \in BearerKinds /\ t.stage \notin {"session", "account"} =>
          /\ l[Account(t.actor)] = w
          /\ d[Member(t.actor)].status = "ACTIVE"
          /\ d[Member(t.actor)].role = t.seen
    /\ t.stage \in {"initiate", "confirm", "cancel"} => l[Workspace] = w
    /\ t.stage = "confirm" =>
          /\ d[t.key].status = "INITIATED"
          /\ d[t.key].from = d[Workspace].owner
          /\ d[t.key].to = t.actor

\* The locks the present stage relies on: held, or still to be taken.
Needs(d, t) ==
    CASE t.stage = "session"                                 -> {Session(t.actor)}
      [] t.stage = "account"                                 -> {Account(t.actor)}
      [] t.stage \in {"mutate", "restart", "LOGIN", "recover"} -> {Account(t.on)}
      [] t.stage \in {"settings", "transfer", "owner", "candidate"} -> {Workspace}
      [] t.stage = "provision"                               -> {Email(t.on)}
      [] t.stage = "BOOTSTRAP"                               -> {Installation}
      [] t.stage = "ACTIVATE"                                -> {Account(d[t.key].member)}
      [] t.stage = "CONFIRM_RECOVERY"                        -> {Account(d[t.key].account)}
      [] t.stage = "confirm"                                 -> {Account(d[t.key].from), Account(d[t.key].to)}
      [] t.stage = "update"                                  -> t.ends
      [] OTHER                                               -> {}

Queued(t, x) == \E i \in DOMAIN t.todo : t.todo[i] = x

Request(d, l, w, t) ==
    t = Idle \/ /\ Shape(t)
                /\ Named(d, t)
                /\ Knows(d, l, w, t)
                /\ t.todo \in Seq(Lockable) /\ t.ends \subseteq Lockable
                /\ (t.pc = "lock" /\ t.todo # <<>>) \/ (t.pc = "commit" /\ t.todo = <<>>)
                /\ t.pc = "lock" \/ t.stage = "update" =>
                      \A x \in Needs(d, t) : l[x] = w \/ Queued(t, x)

-----------------------------------------------------------------------------
(* Requests of others.                                                     *)

\* The stage tells the kind.
LEMMA StageKinds ==
    ASSUME NEW t, Shape(t)
    PROVE  /\ t.stage \in {"session", "account"} => t.kind \in BearerKinds
           /\ t.stage = "mutate" => t.kind \in Mutations
           /\ t.stage = "settings" => t.kind = "SETTINGS"
           /\ t.stage \in {"provision", "duplicate"} => t.kind = "PROVISION"
           /\ t.stage = "restart" => t.kind = "RESTART"
           /\ t.stage \in {"candidate", "initiate"} => t.kind = "INITIATE"
           /\ t.stage \in {"transfer", "confirm"} => t.kind = "CONFIRM"
           /\ t.stage \in {"owner", "cancel"} => t.kind = "CANCEL"
           /\ t.stage = "recover" => t.kind = "RECOVER"
           /\ t.stage \in PublicKinds => t.kind = t.stage
  BY DEF Shape, Staged, BearerKinds, AdminKinds, Mutations, PublicKinds

\* The locks a stage relies on are locks.
LEMMA NeedsAreLockable ==
    ASSUME NEW d, NEW s, Data(d), Shape(s), Named(d, s), s.ends \subseteq Lockable
    PROVE  Needs(d, s) \subseteq Lockable
<1>1. s.stage \in {"session", "account"} => s.actor \in Accounts
  BY StageKinds DEF Named
<1>2. s.stage \in {"mutate", "restart", "LOGIN", "recover", "provision"} => s.on \in Accounts
  BY StageKinds DEF Named, PublicKinds
<1>3. s.stage = "ACTIVATE" => d[s.key].member \in Accounts
  BY StageKinds DEF Named, PublicKinds, Data, Typed, Activation
<1>4. s.stage = "CONFIRM_RECOVERY" => d[s.key].account \in Accounts
  BY StageKinds DEF Named, PublicKinds, Data, Typed, RecoveryRow
<1>5. s.stage = "confirm" => d[s.key].from \in Accounts /\ d[s.key].to \in Accounts
  BY StageKinds DEF Named, Data, Typed, TransferRow
<1> QED BY <1>1, <1>2, <1>3, <1>4, <1>5, LockableRows DEF Needs

\* A request outlasts the steps by which others take and release locks.
LEMMA RequestKeepsItsLocks ==
    ASSUME NEW d, NEW l, NEW k, NEW v, NEW s, Data(d), Request(d, l, v, s),
           \A x \in Lockable : l[x] = v => k[x] = v
    PROVE  Request(d, k, v, s)
<1>1. CASE s = Idle
  BY <1>1 DEF Request
<1>2. CASE s # Idle
  <2>0. /\ Shape(s) /\ Named(d, s) /\ Knows(d, l, v, s)
        /\ s.todo \in Seq(Lockable) /\ s.ends \subseteq Lockable
        /\ (s.pc = "lock" /\ s.todo # <<>>) \/ (s.pc = "commit" /\ s.todo = <<>>)
        /\ s.pc = "lock" \/ s.stage = "update" => \A x \in Needs(d, s) : l[x] = v \/ Queued(s, x)
    BY <1>2 DEF Request
  <2>1. Knows(d, k, v, s)
    BY <2>0, StageKinds, LockableRows DEF Named, Knows
  <2>2. Needs(d, s) \subseteq Lockable
    BY <2>0, NeedsAreLockable
  <2> QED BY <2>0, <2>1, <2>2 DEF Request
<1> QED BY <1>1, <1>2

\* ... and their commits, which end no session it has locked.
LEMMA RequestIsSpared ==
    ASSUME NEW d, NEW e, NEW n, NEW l, NEW w, NEW v, NEW s,
           Data(d), Effect(d, e, n, l, w), \A x \in Rows \ n : e[x] = d[x], v # w,
           \A x \in n \cap SessionRows : e[x] = None => l[x] = w,
           Request(d, l, v, s)
    PROVE  Request(e, l, v, s)
<1>1. CASE s = Idle
  BY <1>1 DEF Request
<1>2. CASE s # Idle
  <2>0. /\ Shape(s) /\ Named(d, s) /\ Knows(d, l, v, s)
        /\ s.todo \in Seq(Lockable) /\ s.ends \subseteq Lockable
        /\ (s.pc = "lock" /\ s.todo # <<>>) \/ (s.pc = "commit" /\ s.todo = <<>>)
        /\ s.pc = "lock" \/ s.stage = "update" => \A x \in Needs(d, s) : l[x] = v \/ Queued(s, x)
    BY <1>2 DEF Request
  <2>1. Later(d, e)
    BY DEF Effect
  <2>2. Named(e, s)
    <3>1. s.stage \in {"recover", "duplicate"} => s.on \in Accounts
      BY <2>0, StageKinds DEF Named
    <3> QED BY <2>0, <2>1, <3>1 DEF Named, Later
  <2>3. Knows(e, l, v, s)
    <3>1. ASSUME s.kind \in BearerKinds, s.stage # "session"
          PROVE  l[Session(s.actor)] = v /\ e[Session(s.actor)] # None
      <4>1. l[Session(s.actor)] = v /\ d[Session(s.actor)] # None /\ s.actor \in Accounts
        BY <2>0, <3>1 DEF Knows, Named
      <4> QED BY <4>1, RowSets
    <3>2. ASSUME s.kind \in BearerKinds, s.stage \notin {"session", "account"}
          PROVE  /\ l[Account(s.actor)] = v
                 /\ e[Member(s.actor)].status = "ACTIVE"
                 /\ e[Member(s.actor)].role = s.seen
      <4>1. /\ l[Account(s.actor)] = v /\ s.actor \in Accounts /\ d[Account(s.actor)] # None
            /\ d[Member(s.actor)].status = "ACTIVE" /\ d[Member(s.actor)].role = s.seen
        BY <2>0, <3>2 DEF Knows, Named
      <4>2. Guards(d, l, v, s.actor)
        BY <4>1 DEF Guards
      <4>3. Alike(d, e, s.actor)
        BY <4>1, <4>2, GuardedIsAlike
      <4> QED BY <4>1, <4>3 DEF Alike
    <3>3. ASSUME s.stage = "confirm"
          PROVE  /\ e[s.key].status = "INITIATED"
                 /\ e[s.key].from = e[Workspace].owner
                 /\ e[s.key].to = s.actor
      <4>1. /\ s.key \in TransferRows /\ d[s.key] # None /\ l[Workspace] = v
            /\ d[s.key].status = "INITIATED" /\ d[s.key].from = d[Workspace].owner /\ d[s.key].to = s.actor
        BY <2>0, <3>3, StageKinds DEF Named, Knows
      <4>2. GuardsWorkspace(d, l, v)
        BY <4>1 DEF GuardsWorkspace, Data, WorkspaceOK
      <4>3. n \cap WorkspaceRows = {}
        BY <4>2, WorkspaceGuardIsUnique DEF Effect
      <4>4. e[s.key] = d[s.key] /\ e[Workspace] = d[Workspace]
        BY <4>1, <4>3, RowSets DEF WorkspaceRows
      <4> QED BY <4>1, <4>4
    <3> QED BY <2>0, <3>1, <3>2, <3>3 DEF Knows
  <2>4. Needs(e, s) = Needs(d, s)
    <3>1. s.stage = "ACTIVATE" => e[s.key].member = d[s.key].member
      BY <2>0, <2>1, StageKinds DEF Named, Later, PublicKinds
    <3>2. s.stage = "CONFIRM_RECOVERY" => e[s.key].account = d[s.key].account
      BY <2>0, <2>1, StageKinds DEF Named, Later, PublicKinds
    <3>3. s.stage = "confirm" => e[s.key].from = d[s.key].from /\ e[s.key].to = d[s.key].to
      BY <2>0, <2>1, StageKinds DEF Named, Later
    <3> QED BY <3>1, <3>2, <3>3 DEF Needs
  <2> QED BY <2>0, <2>2, <2>3, <2>4 DEF Request
<1> QED BY <1>1, <1>2

\* What v settled is spared by the commit of w.
LEMMA IntentIsSpared ==
    ASSUME NEW d, NEW l, NEW w, NEW t, NEW v, NEW s,
           Data(d), Intent(d, l, w, t), t.pc = "commit", Intent(d, l, v, s), v # w,
           Touched(t) \cap Touched(s) = {}
    PROVE  Intent(After(d, t), l, v, s)
<1> DEFINE e == After(d, t)
           f == After(d, s)
           g == After(e, s)
           n == Touched(t)
           m == Touched(s)
<1>1. \A x \in Rows \ n : e[x] = d[x]
  BY DEF After, Touched
<1>2. \A x \in Rows \ m : f[x] = d[x]
  BY DEF After, Touched
<1>3. \A x \in Rows \ m : g[x] = e[x]
  BY DEF After, Touched
<1>4. m \subseteq Rows
  BY DEF Intent, Effect
<1>5. \A x \in m : e[x] = d[x]
  BY <1>1, <1>4
<1>6. \A x \in m : g[x] = f[x]
  <2>1. \A x \in m : EndedIn(e, x) = EndedIn(d, x)
    BY <1>5 DEF EndedIn
  <2> QED BY <2>1, <1>4, <1>5 DEF After
<1>7. DOMAIN g = Rows
  BY DEF After
<1>8. Effect(e, g, m, l, v)
  <2>1. Effect(d, e, n, l, w) /\ Effect(d, f, m, l, v)
    BY DEF Intent
  <2> HIDE DEF e, f, g, n, m
  <2> QED BY <2>1, <1>1, <1>2, <1>3, <1>6, <1>7, CommitSpares DEF n, m
<1>9. \A x \in Ending(s) : OpenIn(e, x)
  <2>1. \A x \in Ending(s) : x \in m /\ OpenIn(d, x)
    BY DEF Intent, Touched
  <2> QED BY <2>1, <1>5 DEF OpenIn
<1>10. \A x \in m \cap SessionRows : g[x] = None => x \in s.ends
  BY <1>6 DEF Intent
<1> QED BY <1>8, <1>9, <1>10 DEF Intent

\* ... and keeps its guards while its locks are held.
LEMMA IntentKeepsItsLocks ==
    ASSUME NEW d, NEW l, NEW k, NEW w, NEW t, Intent(d, l, w, t),
           \A x \in Lockable : l[x] = w => k[x] = w
    PROVE  Intent(d, k, w, t)
  BY EffectKeepsItsLocks DEF Intent

-----------------------------------------------------------------------------
(* A request takes its locks.                                              *)

\* All locks of the stage are held.
Ready(d, l, w, t) ==
    /\ Shape(t)
    /\ Named(d, t)
    /\ Knows(d, l, w, t)
    /\ t.pc = "lock" /\ t.todo = <<>>
    /\ t.ends \subseteq Lockable
    /\ \A x \in Needs(d, t) : l[x] = w

\* What is queued is the head of the queue, or queued behind it.
LEMMA QueuedBehind ==
    ASSUME NEW S, NEW q \in Seq(S), q # <<>>, NEW i \in DOMAIN q, q[i] # Head(q)
    PROVE  \E j \in DOMAIN Tail(q) : Tail(q)[j] = q[i]
<1>1. i \in 1 .. Len(q) /\ i # 1 /\ Len(q) \in Nat
  OBVIOUS
<1>2. i - 1 \in 1 .. Len(Tail(q)) /\ Len(Tail(q)) = Len(q) - 1
  BY <1>1
<1>3. i - 1 \in DOMAIN Tail(q)
  BY <1>2
<1>4. Tail(q)[i - 1] = q[i]
  BY <1>1, <1>2
<1> QED BY <1>3, <1>4

\* The request goes on with one lock more.
Granted(l, t, w) == [l EXCEPT ![Head(t.todo)] = w]
Advanced(t)      == [t EXCEPT !.todo = Tail(t.todo)]

\* What it relied on, it holds or has still in its queue.
LEMMA LockIsTaken ==
    ASSUME NEW d, NEW l \in [Lockable -> Workers \cup {None}], NEW w \in Workers, NEW t, NEW k, NEW u,
           Data(d), t # Idle, Request(d, l, w, t), Intent(d, l, w, t), t.pc = "lock",
           k = Granted(l, t, w), u = Advanced(t)
    PROVE  /\ u.pc = "lock" /\ u.todo = Tail(t.todo)
           /\ u.todo # <<>> => Request(d, k, w, u)
           /\ u.todo = <<>> => Ready(d, k, w, u)
           /\ Intent(d, k, w, u)
           /\ Touched(u) = Touched(t)
<1>0. /\ Shape(t) /\ Named(d, t) /\ Knows(d, l, w, t)
      /\ t.todo \in Seq(Lockable) /\ t.ends \subseteq Lockable /\ t.todo # <<>>
      /\ \A x \in Needs(d, t) : l[x] = w \/ Queued(t, x)
  BY DEF Request
<1>1. /\ u.pc = "lock" /\ u.kind = t.kind /\ u.actor = t.actor /\ u.on = t.on /\ u.key = t.key
      /\ u.role = t.role /\ u.version = t.version /\ u.seen = t.seen /\ u.stage = t.stage
      /\ u.todo = Tail(t.todo) /\ u.ends = t.ends /\ u.writes = t.writes
      /\ u = [pc |-> u.pc, kind |-> u.kind, actor |-> u.actor, on |-> u.on, key |-> u.key,
              role |-> u.role, version |-> u.version, seen |-> u.seen, stage |-> u.stage,
              todo |-> u.todo, ends |-> u.ends, writes |-> u.writes]
  <2>1. t = [pc |-> t.pc, kind |-> t.kind, actor |-> t.actor, on |-> t.on, key |-> t.key,
            role |-> t.role, version |-> t.version, seen |-> t.seen, stage |-> t.stage,
            todo |-> t.todo, ends |-> t.ends, writes |-> t.writes]
    BY <1>0 DEF Shape
  <2> QED BY <2>1 DEF Advanced
<1>2. Head(t.todo) \in Lockable /\ Tail(t.todo) \in Seq(Lockable)
  BY <1>0
<1>3. k[Head(t.todo)] = w /\ \A x \in Lockable : l[x] = w => k[x] = w
  BY <1>2 DEF Granted
<1>4. Shape(u)
  BY <1>0, <1>1 DEF Shape
<1>5. Named(d, u) /\ Needs(d, u) = Needs(d, t)
  BY <1>0, <1>1 DEF Named, Needs
<1>6. Knows(d, k, w, u)
  BY <1>0, <1>1, <1>3, StageKinds, LockableRows DEF Named, Knows
<1>7. Needs(d, u) \subseteq Lockable
  BY <1>0, <1>5, NeedsAreLockable
<1>8. \A x \in Needs(d, u) : k[x] = w \/ Queued(u, x)
  <2>1. ASSUME NEW x \in Needs(d, u), l[x] # w PROVE k[x] = w \/ Queued(u, x)
    <3>1. Queued(t, x)
      BY <2>1, <1>0, <1>5
    <3>2. CASE x = Head(t.todo)
      BY <3>2, <1>3
    <3>3. CASE x # Head(t.todo)
      BY <3>1, <3>3, <1>0, <1>1, QueuedBehind DEF Queued
    <3> QED BY <3>2, <3>3
  <2>2. ASSUME NEW x \in Needs(d, u), l[x] = w PROVE k[x] = w
    BY <2>2, <1>7, <1>3
  <2> QED BY <2>1, <2>2
<1>9. u.todo = <<>> => \A x : ~Queued(u, x)
  BY DEF Queued
<1>10. Touched(u) = Touched(t) /\ Ending(u) = Ending(t) /\ After(d, u) = After(d, t)
  BY <1>1 DEF Touched, Ending, After
<1>11. Intent(d, k, w, u)
  <2>1. Intent(d, k, w, t)
    BY <1>3, IntentKeepsItsLocks
  <2> QED BY <2>1, <1>1, <1>10 DEF Intent
<1> QED BY <1>0, <1>1, <1>2, <1>4, <1>5, <1>6, <1>8, <1>9, <1>10, <1>11 DEF Request, Ready

-----------------------------------------------------------------------------
(* The three ways a step ends.                                             *)

\* The rest of the transactions go on as before, and apart from this one.
Others(l, w) == \A v \in Workers \ {w} : Intent(db, l, v, tx[v])
Settled(l, w, u) ==
    /\ u.pc # "idle"
    /\ Request(db, l, w, u)
    /\ Intent(db, l, w, u)
    /\ \A v \in Workers \ {w} : Touched(u) \cap Touched(tx[v]) = {}

\* The rows once W is written and the rows of M are ended.
Written(W, M) ==
    [x \in Rows |-> IF x \in M THEN EndedIn(db, x) ELSE IF x \in DOMAIN W THEN W[x] ELSE db[x]]

\* A refused request writes nothing.
LEMMA RefuseSettles ==
    ASSUME Data(db), NEW l, NEW w, NEW t, Ready(db, l, w, t), t.stage # "update",
           NEW u \in Refuse(t)
    PROVE  Settled(l, w, u)
<1>1. /\ Shape(u) /\ u.pc = "commit" /\ u.todo = <<>> /\ u.stage = t.stage
      /\ u.kind = t.kind /\ u.actor = t.actor /\ u.on = t.on /\ u.key = t.key
      /\ u.role = t.role /\ u.seen = t.seen /\ u.ends = {} /\ u.writes = <<>>
  BY DEF Ready, Shape, Refuse
<1>2. Named(db, u) /\ Knows(db, l, w, u)
  BY <1>1 DEF Ready, Named, Knows
<1>3. Request(db, l, w, u)
  <2>1. u.todo \in Seq(Lockable) /\ u.ends \subseteq Lockable
    BY <1>1
  <2> QED BY <2>1, <1>1, <1>2 DEF Request
<1>4. Touched(u) = {} /\ Ending(u) = {}
  <2>1. DOMAIN u.writes = {}
    BY <1>1
  <2> QED BY <2>1, <1>1 DEF Touched, Ending
<1>5. \A x \in Rows : After(db, u)[x] = db[x]
  BY <1>4 DEF After, Touched
<1>6. Effect(db, After(db, u), Touched(u), l, w)
  <2>1. DOMAIN After(db, u) = Rows
    BY DEF After
  <2> QED BY <2>1, <1>4, <1>5, NothingWritten
<1> QED BY <1>1, <1>3, <1>4, <1>6 DEF Settled, Intent

\* A request that waits for more locks has written nothing either.
LEMMA WaitSettles ==
    ASSUME Data(db), NEW l, NEW w, NEW t, Ready(db, l, w, t), t.stage # "update",
           NEW stage, stage # "update", Staged(t.kind, stage), NEW rows \in Seq(Lockable), rows # <<>>,
           NEW u \in Wait(t, stage, rows), Named(db, u), Knows(db, l, w, u),
           \A x \in Needs(db, u) : l[x] = w \/ \E i \in DOMAIN rows : rows[i] = x
    PROVE  Settled(l, w, u)
<1>1. Shape(u) /\ u.pc = "lock" /\ u.todo = rows /\ u.ends = {} /\ u.writes = <<>>
  BY DEF Ready, Shape, Wait
<1>2. Request(db, l, w, u)
  BY <1>1 DEF Request, Queued
<1>3. Touched(u) = {} /\ Ending(u) = {}
  <2>1. DOMAIN u.writes = {}
    BY <1>1
  <2> QED BY <2>1, <1>1 DEF Touched, Ending
<1>4. \A x \in Rows : After(db, u)[x] = db[x]
  BY <1>3 DEF After, Touched
<1>5. Effect(db, After(db, u), Touched(u), l, w)
  <2>1. DOMAIN After(db, u) = Rows
    BY DEF After
  <2> QED BY <2>1, <1>3, <1>4, NothingWritten
<1> QED BY <1>1, <1>2, <1>3, <1>5 DEF Settled, Intent

\* Two transactions that guard what they write do not write the same rows,
\* once new identifiers are taken from those that nobody else has.
LEMMA WritesAreApart ==
    ASSUME Data(db), NEW l, NEW w, NEW v, v # w, NEW u, NEW s,
           Intent(db, l, w, u), Intent(db, l, v, s),
           \A x \in Touched(u) \cap (ChallengeRows \cup RecoveryRows) :
               db[x] = None => x \notin DOMAIN s.writes
    PROVE  Touched(u) \cap Touched(s) = {}
<1> DEFINE e == After(db, u)
           f == After(db, s)
<1>0. /\ Typed(e) /\ Typed(f) /\ Later(db, e) /\ Later(db, f) /\ Typed(db)
      /\ Touched(u) \subseteq Rows
  BY DEF Intent, Effect, Data
<1>1. SUFFICES ASSUME NEW x \in Touched(u), x \in Touched(s) PROVE FALSE
  OBVIOUS
<1>h. ASSUME NEW a \in Accounts, x \in RowsOf(e, a), x \in RowsOf(f, a) PROVE FALSE
  <2>1. Guards(db, l, w, a) /\ Guards(db, l, v, a)
    BY <1>1, <1>h DEF Intent, Effect, Hits
  <2> QED BY <2>1, GuardIsUnique DEF Data
<1>2. CASE x \in WorkspaceRows
  <2>1. GuardsWorkspace(db, l, w) /\ GuardsWorkspace(db, l, v)
    BY <1>1, <1>2 DEF Intent, Effect
  <2> QED BY <2>1, WorkspaceGuardIsUnique
<1>3. CASE \E a \in Accounts : x \in {Account(a), Member(a), Session(a)}
  BY <1>3, <1>h DEF RowsOf
<1>o. db[x] = None => x \notin Ending(s)
  BY DEF Intent, OpenIn
<1>4. CASE x \in ChallengeRows
  <2>1. CASE db[x] = None
    BY <2>1, <1>1, <1>4, <1>o DEF Touched
  <2>2. CASE db[x] # None
    <3>1. db[x] \in Activation
      BY <1>0, <1>4, <2>2 DEF Typed
    <3>2. db[x].member \in Accounts
      BY <3>1 DEF Activation
    <3>3. x \in ChallengesIn(e, db[x].member) /\ x \in ChallengesIn(f, db[x].member)
      <4>1. e[x] # None /\ e[x].member = db[x].member
        BY <1>0, <1>4, <2>2 DEF Later
      <4>2. f[x] # None /\ f[x].member = db[x].member
        BY <1>0, <1>4, <2>2 DEF Later
      <4> QED BY <4>1, <4>2, <1>4 DEF ChallengesIn
    <3> QED BY <3>2, <3>3, <1>h DEF RowsOf
  <2> QED BY <2>1, <2>2
<1>5. CASE x \in RecoveryRows
  <2>1. CASE db[x] = None
    BY <2>1, <1>1, <1>5, <1>o DEF Touched
  <2>2. CASE db[x] # None
    <3>1. db[x] \in RecoveryRow
      BY <1>0, <1>5, <2>2 DEF Typed
    <3>2. db[x].account \in Accounts
      BY <3>1 DEF RecoveryRow
    <3>3. x \in RecoveriesIn(e, db[x].account) /\ x \in RecoveriesIn(f, db[x].account)
      <4>1. e[x] # None /\ e[x].account = db[x].account
        BY <1>0, <1>5, <2>2 DEF Later
      <4>2. f[x] # None /\ f[x].account = db[x].account
        BY <1>0, <1>5, <2>2 DEF Later
      <4> QED BY <4>1, <4>2, <1>5 DEF RecoveriesIn
    <3> QED BY <3>2, <3>3, <1>h DEF RowsOf
  <2> QED BY <2>1, <2>2
<1> QED BY <1>0, <1>1, <1>2, <1>3, <1>4, <1>5, RowKinds

\* The scan orders of a finite set are the sequences that list it.
LEMMA ScanOrdersList ==
    ASSUME NEW rows, IsFiniteSet(rows), NEW q \in ScanOrders(rows)
    PROVE  \A x \in rows : \E i \in DOMAIN q : q[i] = x
  BY DEF ScanOrders, Bijection, Surjection, Injection

LEMMA ScanOrdersAreSequences ==
    ASSUME NEW S, NEW rows, rows \subseteq S, IsFiniteSet(rows), NEW q \in ScanOrders(rows)
    PROVE  q \in Seq(S)
<1>1. Cardinality(rows) \in Nat
  BY FS_CardinalityType
<1> QED BY <1>1 DEF ScanOrders, Bijection, Surjection, Injection

LEMMA ScanOrdersOfNothing ==
    ASSUME NEW rows, IsFiniteSet(rows), NEW q \in ScanOrders(rows)
    PROVE  (q = <<>>) <=> (rows = {})
<1>1. Cardinality(rows) \in Nat /\ (Cardinality(rows) = 0 <=> rows = {})
  BY FS_CardinalityType, FS_EmptySet
<1>2. q \in [1 .. Cardinality(rows) -> rows]
  BY DEF ScanOrders, Bijection, Surjection, Injection
<1>3. q \in Seq(rows) /\ Len(q) = Cardinality(rows)
  BY <1>1, <1>2
<1>4. q = <<>> <=> Len(q) = 0
  BY <1>3
<1> QED BY <1>1, <1>3, <1>4

\* A request settles what it writes, and waits for the rows it ends.
LEMMA FinishSettles ==
    ASSUME Data(db), NEW l, NEW w \in Workers, Others(l, w), NEW t, Ready(db, l, w, t), t.stage # "update",
           t.kind \in BearerKinds => t.stage \notin {"session", "account"},
           NEW W, NEW R, R \subseteq Lockable, IsFiniteSet(R), NEW M, M = {x \in R : Open(x)},
           NEW u \in Finish(t, W, R),
           \A x \in DOMAIN W \cap SessionRows : W[x] # None,
           \A x \in DOMAIN W \cap (ChallengeRows \cup RecoveryRows) :
               db[x] = None => \A v \in Workers : x \notin DOMAIN tx[v].writes,
           Effect(db, Written(W, M), DOMAIN W \cup M, l, w)
    PROVE  Settled(l, w, u)
<1>1. PICK order \in ScanOrders(M) :
          u = [t EXCEPT !.pc = IF M = {} THEN "commit" ELSE "lock",
                        !.stage = "update", !.ends = M, !.todo = order, !.writes = W]
  BY DEF Finish
<1>2. IsFiniteSet(M) /\ M \subseteq Lockable
  BY FS_Subset
<1>3. /\ Shape(u) /\ u.pc = (IF M = {} THEN "commit" ELSE "lock") /\ u.stage = "update"
      /\ u.ends = M /\ u.todo = order /\ u.writes = W
      /\ u.kind = t.kind /\ u.actor = t.actor /\ u.on = t.on /\ u.key = t.key
      /\ u.role = t.role /\ u.seen = t.seen
  BY <1>1 DEF Ready, Shape, Staged
<1>4. /\ order \in Seq(Lockable) /\ (order = <<>> <=> M = {})
      /\ \A x \in M : \E i \in DOMAIN order : order[i] = x
  <2>1. order \in Seq(Lockable)
    BY <1>2, ScanOrdersAreSequences
  <2>2. (order = <<>>) <=> (M = {})
    BY <1>2, ScanOrdersOfNothing
  <2>3. \A x \in M : \E i \in DOMAIN order : order[i] = x
    BY <1>2, ScanOrdersList
  <2> QED BY <2>1, <2>2, <2>3
<1>5. Named(db, u) /\ Knows(db, l, w, u)
  BY <1>3 DEF Ready, Named, Knows
<1>6. Needs(db, u) = M
  BY <1>3 DEF Needs
<1>7. Request(db, l, w, u)
  BY <1>2, <1>3, <1>4, <1>5, <1>6 DEF Request, Queued
<1>8. Ending(u) = M /\ Touched(u) = DOMAIN W \cup M
  BY <1>3 DEF Ending, Touched
<1>9. After(db, u) = Written(W, M)
  BY <1>3, <1>8 DEF After, Written
<1>10. \A x \in M : OpenIn(db, x)
  BY DEF Open, OpenIn
<1>11. \A x \in Touched(u) \cap SessionRows : After(db, u)[x] = None => x \in u.ends
  <2>1. Touched(u) \subseteq Rows
    BY <1>8 DEF Effect
  <2> QED BY <2>1, <1>3, <1>8, <1>9 DEF Written
<1>12. Intent(db, l, w, u)
  BY <1>8, <1>9, <1>10, <1>11 DEF Intent
<1>13. ASSUME NEW v \in Workers \ {w} PROVE Touched(u) \cap Touched(tx[v]) = {}
  <2>1. Intent(db, l, v, tx[v])
    BY DEF Others
  <2>2. \A x \in Touched(u) \cap (ChallengeRows \cup RecoveryRows) :
            db[x] = None => x \notin DOMAIN tx[v].writes
    BY <1>8, <1>10 DEF OpenIn
  <2> QED BY <2>1, <2>2, <1>12, WritesAreApart
<1> QED BY <1>3, <1>7, <1>12, <1>13 DEF Settled

\* The rows that were matched are still open, and are written.
LEMMA UpdateSettles ==
    ASSUME Data(db), NEW l, NEW w, NEW t, Ready(db, l, w, t), t.stage = "update",
           Intent(db, l, w, t), \A v \in Workers \ {w} : Touched(t) \cap Touched(tx[v]) = {},
           NEW u \in Update(t)
    PROVE  Settled(l, w, u)
<1>1. Ending(t) = t.ends /\ {x \in t.ends : Open(x)} = t.ends
  BY DEF Ready, Ending, Intent, Open, OpenIn
<1>2. u = [t EXCEPT !.pc = "commit",
                    !.writes = [x \in t.ends \cup DOMAIN t.writes |-> IF x \in t.ends THEN Ended(x) ELSE t.writes[x]]]
  BY <1>1 DEF Update
<1>3. /\ Shape(u) /\ u.pc = "commit" /\ u.stage = "update" /\ u.ends = t.ends /\ u.todo = <<>>
      /\ u.writes = [x \in t.ends \cup DOMAIN t.writes |-> IF x \in t.ends THEN Ended(x) ELSE t.writes[x]]
      /\ u.kind = t.kind /\ u.actor = t.actor /\ u.on = t.on /\ u.key = t.key
      /\ u.role = t.role /\ u.seen = t.seen
  BY <1>2 DEF Ready, Shape, Staged
<1>4. Named(db, u) /\ Knows(db, l, w, u)
  BY <1>3 DEF Ready, Named, Knows
<1>5. Needs(db, u) = Needs(db, t)
  BY <1>3 DEF Needs
<1>6. Request(db, l, w, u)
  <2>1. u.todo \in Seq(Lockable)
    BY <1>3
  <2> QED BY <2>1, <1>3, <1>4, <1>5 DEF Request, Ready
<1>7. Ending(u) = {} /\ Touched(u) = Touched(t)
  BY <1>1, <1>3 DEF Ending, Touched
<1>8. After(db, u) = After(db, t)
  <2>1. \A x \in t.ends : Ended(x) = EndedIn(db, x)
    BY DEF Ended, EndedIn
  <2> QED BY <2>1, <1>1, <1>3, <1>7 DEF After
<1>9. Intent(db, l, w, u)
  BY <1>3, <1>7, <1>8 DEF Intent
<1> QED BY <1>3, <1>6, <1>7, <1>9 DEF Settled

-----------------------------------------------------------------------------
(* Authentication and authorization.                                       *)

\* What a request is when it waits.
LEMMA WaitFields ==
    ASSUME NEW t, Shape(t), NEW stage, NEW rows, NEW u \in Wait(t, stage, rows)
    PROVE  /\ u.pc = t.pc /\ u.kind = t.kind /\ u.actor = t.actor /\ u.on = t.on /\ u.key = t.key
           /\ u.role = t.role /\ u.version = t.version /\ u.seen = t.seen /\ u.stage = stage
           /\ u.todo = rows /\ u.ends = t.ends /\ u.writes = t.writes
  BY DEF Shape, Wait

\* The session is found, and the account is next.
LEMMA AuthenticateSettles ==
    ASSUME Data(db), NEW l, NEW w, NEW t, Ready(db, l, w, t), t.stage = "session",
           NEW u \in Authenticate(t)
    PROVE  Settled(l, w, u)
<1>1. CASE db[Session(t.actor)] = None
  <2>1. u \in Refuse(t)
    BY <1>1 DEF Authenticate
  <2> QED BY <2>1, RefuseSettles
<1>2. CASE db[Session(t.actor)] # None
  <2>0. Shape(t) /\ Named(db, t) /\ t.kind \in BearerKinds /\ l[Session(t.actor)] = w
    BY StageKinds DEF Ready, Needs
  <2>1. u \in Wait(t, "account", <<Account(t.actor)>>)
    BY <1>2 DEF Authenticate
  <2>2. /\ u.kind = t.kind /\ u.actor = t.actor /\ u.on = t.on /\ u.key = t.key
        /\ u.role = t.role /\ u.stage = "account"
    BY <2>0, <2>1, WaitFields
  <2>3. <<Account(t.actor)>> \in Seq(Lockable) /\ <<Account(t.actor)>> # <<>>
    BY <2>0, LockableRows DEF Named
  <2>4. Named(db, u) /\ Knows(db, l, w, u)
    BY <1>2, <2>0, <2>2 DEF Named, Knows
  <2>5. \A x \in Needs(db, u) : \E i \in DOMAIN <<Account(t.actor)>> : <<Account(t.actor)>>[i] = x
    BY <2>2 DEF Needs
  <2>6. Staged(t.kind, "account")
    BY <2>0 DEF Staged
  <2> QED BY <2>1, <2>3, <2>4, <2>5, <2>6, WaitSettles
<1> QED BY <1>1, <1>2

\* A step that waits for one to four rows waits for rows it can lock, and
\* they are queued.
LEMMA QueueOfOne ==
    ASSUME NEW a \in Lockable
    PROVE  /\ <<a>> \in Seq(Lockable) /\ <<a>> # <<>>
           /\ \E i \in DOMAIN <<a>> : <<a>>[i] = a
  OBVIOUS

\* ... the same for two rows,
LEMMA QueueOfTwo ==
    ASSUME NEW a \in Lockable, NEW b \in Lockable
    PROVE  /\ <<a, b>> \in Seq(Lockable) /\ <<a, b>> # <<>>
           /\ \E i \in DOMAIN <<a, b>> : <<a, b>>[i] = a
           /\ \E i \in DOMAIN <<a, b>> : <<a, b>>[i] = b
  OBVIOUS

\* for three,
LEMMA QueueOfThree ==
    ASSUME NEW a \in Lockable, NEW b \in Lockable, NEW c \in Lockable
    PROVE  /\ <<a, b, c>> \in Seq(Lockable) /\ <<a, b, c>> # <<>>
           /\ \E i \in DOMAIN <<a, b, c>> : <<a, b, c>>[i] = c
  OBVIOUS

\* and for two members and their accounts.
LEMMA QueueOfPair ==
    ASSUME NEW a \in Accounts, NEW b \in Accounts
    PROVE  /\ Pair(a, b) \in Seq(Lockable) /\ Pair(a, b) # <<>>
           /\ \A x \in {Account(a), Account(b)} : \E i \in DOMAIN Pair(a, b) : Pair(a, b)[i] = x
<1>1. ASSUME NEW p \in Lockable, NEW q \in Lockable, NEW r \in Lockable, NEW s \in Lockable
      PROVE  /\ <<p, q, r, s>> \in Seq(Lockable) /\ <<p, q, r, s>> # <<>>
             /\ \A x \in {q, s} : \E i \in DOMAIN <<p, q, r, s>> : <<p, q, r, s>>[i] = x
  OBVIOUS
<1>2. /\ Member(a) \in Lockable /\ Account(a) \in Lockable
      /\ Member(b) \in Lockable /\ Account(b) \in Lockable
  BY LockableRows
<1>3. CASE Pair(a, b) = <<Member(a), Account(a), Member(b), Account(b)>>
  <2>1. \A x \in {Account(a), Account(b)} : \E i \in DOMAIN Pair(a, b) : Pair(a, b)[i] = x
    BY <1>3, <1>1, <1>2
  <2> QED BY <1>3, <1>1, <1>2, <2>1
<1>4. CASE Pair(a, b) = <<Member(b), Account(b), Member(a), Account(a)>>
  <2>1. \A x \in {Account(b), Account(a)} : \E i \in DOMAIN Pair(a, b) : Pair(a, b)[i] = x
    BY <1>4, <1>1, <1>2
  <2> QED BY <1>4, <1>1, <1>2, <2>1
<1> QED BY <1>3, <1>4 DEF Pair

\* The account is found ACTIVE, and the rows of the command are next.
LEMMA AuthorizeSettles ==
    ASSUME Data(db), NEW l, NEW w, NEW t, Ready(db, l, w, t), t.stage = "account",
           NEW u \in Authorize(t)
    PROVE  Settled(l, w, u)
<1> DEFINE m == db[Member(t.actor)]
           s == [t EXCEPT !.seen = m.role]
<1>1. CASE m.status # "ACTIVE"
  <2>1. u \in Refuse(t)
    BY <1>1 DEF Authorize
  <2> QED BY <2>1, RefuseSettles
<1>2. CASE m.status = "ACTIVE"
  <2>0. /\ Shape(t) /\ Named(db, t) /\ Knows(db, l, w, t) /\ t.kind \in BearerKinds
        /\ l[Account(t.actor)] = w /\ l[Session(t.actor)] = w /\ db[Session(t.actor)] # None
        /\ t.actor \in Accounts
    BY StageKinds DEF Ready, Needs, Knows, Named
  <2>1. /\ Shape(s) /\ s.pc = t.pc /\ s.todo = t.todo /\ s.ends = t.ends
        /\ s.kind = t.kind /\ s.actor = t.actor /\ s.on = t.on /\ s.key = t.key
        /\ s.role = t.role /\ s.stage = "account" /\ s.seen = m.role
    BY <2>0 DEF Shape
  <2>2. u \in Plan(s)
    BY <1>2 DEF Authorize
  <2>3. Ready(db, l, w, s)
    <3>1. Named(db, s) /\ Knows(db, l, w, s)
      BY <2>0, <2>1 DEF Named, Knows
    <3>2. Needs(db, s) = Needs(db, t)
      BY <2>1 DEF Needs
    <3> QED BY <2>1, <3>1, <3>2 DEF Ready
  <2> HIDE DEF s
  <2>4. CASE u \in Refuse(s)
    BY <2>1, <2>3, <2>4, RefuseSettles
  <2>w. ASSUME NEW stage \in {"mutate", "settings", "provision", "restart", "candidate", "transfer", "owner"},
               NEW rows \in Seq(Lockable), rows # <<>>, u \in Wait(s, stage, rows), Staged(s.kind, stage),
               \A x \in Needs(db, u) : \E i \in DOMAIN rows : rows[i] = x
        PROVE  Settled(l, w, u)
    <3>1. /\ u.kind = t.kind /\ u.actor = t.actor /\ u.on = t.on /\ u.key = t.key
          /\ u.role = t.role /\ u.stage = stage /\ u.seen = m.role
      BY <2>1, <2>w, WaitFields
    <3>2. Named(db, u)
      BY <2>0, <3>1 DEF Named
    <3>3. Knows(db, l, w, u)
      BY <1>2, <2>0, <3>1 DEF Knows
    <3> QED BY <2>1, <2>3, <2>w, <3>2, <3>3, WaitSettles
  <2>5. CASE s.kind \in Mutations /\ u \in Wait(s, "mutate", <<Workspace, Member(s.on), Account(s.on)>>)
    <3>1. s.on \in Accounts
      BY <2>5, <2>3 DEF Ready, Named
    <3>2. Needs(db, u) = {Account(s.on)}
      BY <2>5, <2>1, WaitFields DEF Needs
    <3>3. Staged(s.kind, "mutate")
      BY <2>5 DEF Staged
    <3>4. Workspace \in Lockable /\ Member(s.on) \in Lockable /\ Account(s.on) \in Lockable
      BY <3>1, LockableRows
    <3> DEFINE rows == <<Workspace, Member(s.on), Account(s.on)>>
    <3>5. rows \in Seq(Lockable) /\ rows # <<>> /\ \E i \in DOMAIN rows : rows[i] = Account(s.on)
      BY <3>4, QueueOfThree
    <3>6. u \in Wait(s, "mutate", rows)
      BY <2>5
    <3> HIDE DEF rows
    <3> QED BY <2>w, <3>2, <3>3, <3>5, <3>6
  <2>6. CASE s.kind = "SETTINGS" /\ u \in Wait(s, "settings", <<Workspace>>)
    <3>1. Needs(db, u) = {Workspace} /\ Staged(s.kind, "settings")
      BY <2>6, <2>1, WaitFields DEF Needs, Staged
    <3>2. Workspace \in Lockable
      BY LockableRows
    <3> QED BY <2>6, <2>w, <3>1, <3>2, QueueOfOne
  <2>7. CASE s.kind = "PROVISION" /\ u \in Wait(s, "provision", <<Email(s.on)>>)
    <3>1. s.on \in Accounts
      BY <2>7, <2>3 DEF Ready, Named
    <3>2. Needs(db, u) = {Email(s.on)} /\ Staged(s.kind, "provision")
      BY <2>7, <2>1, WaitFields DEF Needs, Staged
    <3>3. Email(s.on) \in Lockable
      BY <3>1, LockableRows
    <3> QED BY <2>7, <2>w, <3>2, <3>3, QueueOfOne
  <2>8. CASE s.kind = "RESTART" /\ u \in Wait(s, "restart", <<Member(s.on), Account(s.on)>>)
    <3>1. s.on \in Accounts
      BY <2>8, <2>3 DEF Ready, Named
    <3>2. Needs(db, u) = {Account(s.on)} /\ Staged(s.kind, "restart")
      BY <2>8, <2>1, WaitFields DEF Needs, Staged
    <3>3. Member(s.on) \in Lockable /\ Account(s.on) \in Lockable
      BY <3>1, LockableRows
    <3> DEFINE rows == <<Member(s.on), Account(s.on)>>
    <3>4. rows \in Seq(Lockable) /\ rows # <<>> /\ \E i \in DOMAIN rows : rows[i] = Account(s.on)
      BY <3>3, QueueOfTwo
    <3>5. u \in Wait(s, "restart", rows)
      BY <2>8
    <3> HIDE DEF rows
    <3> QED BY <2>w, <3>2, <3>4, <3>5
  <2>9. CASE s.kind = "INITIATE" /\ u \in Wait(s, "candidate", <<Member(s.actor), Workspace>>)
    <3>1. s.actor \in Accounts
      BY <2>0, <2>1
    <3>2. Needs(db, u) = {Workspace} /\ Staged(s.kind, "candidate")
      BY <2>9, <2>1, WaitFields DEF Needs, Staged
    <3>3. Member(s.actor) \in Lockable /\ Workspace \in Lockable
      BY <3>1, LockableRows
    <3> DEFINE rows == <<Member(s.actor), Workspace>>
    <3>4. rows \in Seq(Lockable) /\ rows # <<>> /\ \E i \in DOMAIN rows : rows[i] = Workspace
      BY <3>3, QueueOfTwo
    <3>5. u \in Wait(s, "candidate", rows)
      BY <2>9
    <3> HIDE DEF rows
    <3> QED BY <2>w, <3>2, <3>4, <3>5
  <2>10. CASE s.kind = "CONFIRM" /\ u \in Wait(s, "transfer", <<Workspace>>)
    <3>1. Needs(db, u) = {Workspace} /\ Staged(s.kind, "transfer")
      BY <2>10, <2>1, WaitFields DEF Needs, Staged
    <3>2. Workspace \in Lockable
      BY LockableRows
    <3> QED BY <2>10, <2>w, <3>1, <3>2, QueueOfOne
  <2>11. CASE s.kind = "CANCEL" /\ u \in Wait(s, "owner", <<Workspace>>)
    <3>1. Needs(db, u) = {Workspace} /\ Staged(s.kind, "owner")
      BY <2>11, <2>1, WaitFields DEF Needs, Staged
    <3>2. Workspace \in Lockable
      BY LockableRows
    <3> QED BY <2>11, <2>w, <3>1, <3>2, QueueOfOne
  <2>12. s.kind \in BearerKinds
    BY <2>0, <2>1
  <2> QED BY <2>2, <2>4, <2>5, <2>6, <2>7, <2>8, <2>9, <2>10, <2>11, <2>12
          DEF Plan, BearerKinds, AdminKinds, Mutations
<1> QED BY <1>1, <1>2

-----------------------------------------------------------------------------
(* Requests about one person.                                              *)

\* There are finitely many challenges and recoveries.
LEMMA FiniteRows == IsFiniteSet(ChallengeRows) /\ IsFiniteSet(RecoveryRows)
<1>1. IsFiniteSet(ChallengeRows)
  <2> DEFINE f == [c \in Challenges |-> Challenge(c)]
  <2>1. f \in Surjection(Challenges, ChallengeRows)
    BY DEF Surjection, ChallengeRows
  <2>2. IsFiniteSet(Challenges)
    BY MembersAssumption
  <2> QED BY <2>1, <2>2, FS_Surjection
<1>2. IsFiniteSet(RecoveryRows)
  <2> DEFINE f == [r \in Recoveries |-> Recovery(r)]
  <2>1. f \in Surjection(Recoveries, RecoveryRows)
    BY DEF Surjection, RecoveryRows
  <2>2. IsFiniteSet(Recoveries)
    BY MembersAssumption
  <2> QED BY <2>1, <2>2, FS_Surjection
<1> QED BY <1>1, <1>2

\* A fresh row is one of its kind that nobody is going to write.
LEMMA FreshRows ==
    ASSUME NEW rows, NEW x \in FreshIn(rows)
    PROVE  x \in rows /\ db[x] = None /\ \A v \in Workers : x \notin DOMAIN tx[v].writes
<1> DEFINE unused == {y \in rows : db[y] = None /\ \A v \in Workers : y \notin DOMAIN tx[v].writes}
<1>1. unused # {} /\ x = CHOOSE y \in unused : TRUE
  BY DEF FreshIn
<1>2. x \in unused
  BY <1>1
<1> QED BY <1>2

\* What a request may write about person a, and end.
Writes(W, R, a) ==
    /\ DOMAIN W \subseteq {Account(a), Member(a), Session(a)} \cup ChallengeRows \cup RecoveryRows
    /\ Account(a) \in DOMAIN W => W[Account(a)] \in {"PENDING_ACTIVATION", "ACTIVE"}
    /\ Account(a) \notin DOMAIN W => db[Account(a)] # None
    /\ Member(a) \in DOMAIN W =>
          W[Member(a)] \in Membership /\ (db[Member(a)] # None => Moves(db[Member(a)], W[Member(a)]))
    /\ Member(a) \notin DOMAIN W => db[Member(a)] # None
    /\ Session(a) \in DOMAIN W => W[Session(a)] \in LiveSession
    /\ \A x \in DOMAIN W \cap ChallengeRows :
          /\ W[x] \in Activation /\ W[x].member = a
          /\ db[x] # None => db[x].member = a
          /\ db[x] = None => \A v \in Workers : x \notin DOMAIN tx[v].writes
    /\ \A x \in DOMAIN W \cap RecoveryRows :
          /\ W[x] \in RecoveryRow /\ W[x].account = a
          /\ db[x] # None => db[x].account = a
          /\ db[x] = None => \A v \in Workers : x \notin DOMAIN tx[v].writes
          /\ W[x].status = "USED" => db[x] # None /\ ~Owns(db, a)
    /\ R \subseteq {Session(a)} \cup ChallengesIn(db, a) \cup RecoveriesIn(db, a)

\* A request about a person settles what it writes under that person's guard.
LEMMA PersonSettles ==
    ASSUME Data(db), NEW l, NEW w \in Workers, Others(l, w), NEW t, Ready(db, l, w, t), t.stage # "update",
           t.kind \in BearerKinds => t.stage \notin {"session", "account"},
           NEW a \in Accounts, Guards(db, l, w, a), db[Workspace] # None,
           NEW W, NEW R, Writes(W, R, a), NEW M, M = {x \in R : Open(x)},
           PersonOK(Written(W, M), a),
           NEW u \in Finish(t, W, R)
    PROVE  Settled(l, w, u)
<1> DEFINE e == Written(W, M)
           n == DOMAIN W \cup M
<1>0. Typed(db)
  BY DEF Data
<1>n. None \notin LiveSession \cup Activation \cup RecoveryRow
  BY MembersAssumption
<1>1. /\ R \subseteq {Session(a)} \cup ChallengeRows \cup RecoveryRows
      /\ \A x \in R \cap ChallengeRows : db[x] # None /\ db[x].member = a
      /\ \A x \in R \cap RecoveryRows : db[x] # None /\ db[x].account = a
  BY RowNames DEF RowFacts, Writes, ChallengesIn, RecoveriesIn
<1>2. IsFiniteSet(R) /\ R \subseteq Lockable
  <2>1. IsFiniteSet({Session(a)} \cup ChallengeRows \cup RecoveryRows)
    BY FiniteRows, FS_Singleton, FS_Union
  <2> QED BY <2>1, <1>1, FS_Subset, LockableRows
<1>3. M \subseteq R /\ \A x \in M : OpenIn(db, x)
  BY DEF Open, OpenIn
<1>4. n \subseteq Rows /\ DOMAIN e = Rows /\ \A x \in Rows \ n : e[x] = db[x]
  BY <1>1, <1>3, RowSets DEF Writes, Written
<1>5. \A x \in Rows : /\ x \in M => e[x] = EndedIn(db, x)
                      /\ x \notin M /\ x \in DOMAIN W => e[x] = W[x]
                      /\ x \notin M /\ x \notin DOMAIN W => e[x] = db[x]
  BY DEF Written
<1>6. /\ Account(a) \notin M /\ Member(a) \notin M
      /\ Session(a) \notin ChallengeRows \cup RecoveryRows
      /\ \A x \in ChallengeRows \cup RecoveryRows : x \notin SessionRows
      /\ ChallengeRows \cap RecoveryRows = {}
      /\ \A x \in ChallengeRows \cup RecoveryRows : x \notin {Account(a), Member(a), Session(a)}
      /\ Account(a) # Session(a) /\ Member(a) # Session(a)
  BY <1>1, <1>3, RowNames DEF RowFacts
<1>7. e[Account(a)] \in {"PENDING_ACTIVATION", "ACTIVE"}
  <2>1. db[Account(a)] \in {None, "PENDING_ACTIVATION", "ACTIVE"}
    BY <1>0 DEF Typed
  <2> QED BY <2>1, <1>5, <1>6, RowSets DEF Writes
<1>8. /\ e[Member(a)] \in Membership
      /\ db[Member(a)] # None /\ e[Member(a)] # db[Member(a)] => Moves(db[Member(a)], e[Member(a)])
  <2>1. db[Member(a)] \in Membership \cup {None}
    BY <1>0 DEF Typed
  <2> QED BY <2>1, <1>5, <1>6, RowSets DEF Writes
<1>9. e[Session(a)] \in LiveSession \cup {None}
  <2>1. db[Session(a)] \in LiveSession \cup {None}
    BY <1>0 DEF Typed
  <2>2. EndedIn(db, Session(a)) = None
    BY RowSets DEF EndedIn
  <2> QED BY <2>1, <2>2, <1>5, RowSets DEF Writes
<1>10. ASSUME NEW x \in n \cap ChallengeRows
       PROVE  e[x] \in Activation /\ e[x].member = a /\ (db[x] # None => db[x].member = a)
  <2>1. CASE x \in M
    <3>1. db[x] \in Activation /\ db[x].member = a
      BY <2>1, <1>0, <1>1, <1>3 DEF Typed
    <3>2. e[x] = [db[x] EXCEPT !.status = "REVOKED"]
      BY <2>1, <1>5, <1>6, RowSets DEF EndedIn
    <3> QED BY <3>1, <3>2 DEF Activation
  <2>2. CASE x \notin M
    BY <2>2, <1>5, RowSets DEF Writes
  <2> QED BY <2>1, <2>2
<1>11. ASSUME NEW x \in n \cap RecoveryRows
       PROVE  /\ e[x] \in RecoveryRow /\ e[x].account = a /\ (db[x] # None => db[x].account = a)
              /\ e[x].status = "USED" => db[x] # None /\ ~Owns(db, a)
  <2>1. CASE x \in M
    <3>1. db[x] \in RecoveryRow /\ db[x].account = a
      BY <2>1, <1>0, <1>1, <1>3 DEF Typed
    <3>2. e[x] = [db[x] EXCEPT !.status = "REVOKED"]
      BY <2>1, <1>5, <1>6, RowSets DEF EndedIn
    <3> QED BY <3>1, <3>2 DEF RecoveryRow
  <2>2. CASE x \notin M
    BY <2>2, <1>5, RowSets DEF Writes
  <2> QED BY <2>1, <2>2
<1>12. n \subseteq RowsOf(e, a)
  <2>1. \A x \in n : x \in {Account(a), Member(a), Session(a)} \cup ChallengeRows \cup RecoveryRows
    BY <1>1, <1>3 DEF Writes
  <2>2. \A x \in n \cap ChallengeRows : x \in ChallengesIn(e, a)
    BY <1>10, <1>n DEF ChallengesIn
  <2>3. \A x \in n \cap RecoveryRows : x \in RecoveriesIn(e, a)
    BY <1>11, <1>n DEF RecoveriesIn
  <2> QED BY <2>1, <2>2, <2>3 DEF RowsOf
<1>13. PersonOK(e, a)
  OBVIOUS
<1>14. Effect(db, e, n, l, w)
  <2> HIDE DEF e, n
  <2> QED BY <1>4, <1>7, <1>8, <1>9, <1>10, <1>11, <1>12, <1>13, OnePersonWritten
<1>15. \A x \in DOMAIN W \cap SessionRows : W[x] # None
  <2>1. \A x \in DOMAIN W \cap SessionRows : x = Session(a)
    BY <1>6, RowNames DEF RowFacts, Writes
  <2> QED BY <2>1, <1>n DEF Writes
<1>16. \A x \in DOMAIN W \cap (ChallengeRows \cup RecoveryRows) :
          db[x] = None => \A v \in Workers : x \notin DOMAIN tx[v].writes
  BY DEF Writes
<1> QED BY <1>2, <1>14, <1>15, <1>16, FinishSettles

\* The person after those writes.
LEMMA PersonAfter ==
    ASSUME Data(db), NEW a \in Accounts, db[Workspace] # None,
           NEW W, NEW R, Writes(W, R, a), NEW M, M = {x \in R : Open(x)},
           NEW e, e = Written(W, M)
    PROVE  /\ e[Account(a)] = IF Account(a) \in DOMAIN W THEN W[Account(a)] ELSE db[Account(a)]
           /\ e[Member(a)] = IF Member(a) \in DOMAIN W THEN W[Member(a)] ELSE db[Member(a)]
           /\ Session(a) \notin DOMAIN W =>
                 e[Session(a)] = IF Session(a) \in R THEN None ELSE db[Session(a)]
           /\ Session(a) \in DOMAIN W /\ Session(a) \notin R => e[Session(a)] = W[Session(a)]
           /\ e[Workspace] # None /\ (Owns(e, a) <=> Owns(db, a))
           /\ e[Account(a)] # None /\ e[Member(a)] # None
           /\ \A x \in UsableIn(e, a) :
                 \/ x \in DOMAIN W /\ x \in ChallengeRows /\ W[x].status = "ISSUED"
                 \/ x \notin DOMAIN W /\ x \notin R /\ x \in UsableIn(db, a)
<1>n. None \notin {"PENDING_ACTIVATION", "ACTIVE"} /\ None \notin Membership
  BY MembersAssumption
<1>1. /\ R \subseteq {Session(a)} \cup ChallengeRows \cup RecoveryRows
      /\ DOMAIN W \subseteq {Account(a), Member(a), Session(a)} \cup ChallengeRows \cup RecoveryRows
  BY RowNames DEF RowFacts, Writes, ChallengesIn, RecoveriesIn
<1>2. /\ Account(a) \notin R /\ Member(a) \notin R
      /\ Workspace \notin R /\ Workspace \notin DOMAIN W
      /\ \A x \in ChallengeRows \cup RecoveryRows : x \notin SessionRows
  BY <1>1, RowNames DEF RowFacts
<1>3. M \subseteq R
  OBVIOUS
<1>4. \A x \in Rows : /\ x \in M => e[x] = EndedIn(db, x)
                      /\ x \notin M /\ x \in DOMAIN W => e[x] = W[x]
                      /\ x \notin M /\ x \notin DOMAIN W => e[x] = db[x]
  BY DEF Written
<1>5. /\ e[Account(a)] = IF Account(a) \in DOMAIN W THEN W[Account(a)] ELSE db[Account(a)]
      /\ e[Member(a)] = IF Member(a) \in DOMAIN W THEN W[Member(a)] ELSE db[Member(a)]
      /\ e[Workspace] = db[Workspace]
  BY <1>2, <1>3, <1>4, RowSets
<1>6. Session(a) \notin DOMAIN W => e[Session(a)] = IF Session(a) \in R THEN None ELSE db[Session(a)]
  <2>1. Session(a) \in R /\ db[Session(a)] # None => Session(a) \in M
    BY RowSets DEF Open
  <2>2. EndedIn(db, Session(a)) = None
    BY RowSets DEF EndedIn
  <2> QED BY <2>1, <2>2, <1>3, <1>4, RowSets
<1>7. Session(a) \in DOMAIN W /\ Session(a) \notin R => e[Session(a)] = W[Session(a)]
  BY <1>3, <1>4, RowSets
<1>8. Owns(e, a) <=> Owns(db, a)
  BY <1>5 DEF Owns
<1>9. e[Account(a)] # None /\ e[Member(a)] # None
  BY <1>5, <1>n DEF Writes
<1>10. ASSUME NEW x \in UsableIn(e, a)
       PROVE  \/ x \in DOMAIN W /\ x \in ChallengeRows /\ W[x].status = "ISSUED"
              \/ x \notin DOMAIN W /\ x \notin R /\ x \in UsableIn(db, a)
  <2>1. x \in ChallengeRows /\ x \in Rows /\ e[x] # None /\ e[x].member = a /\ e[x].status = "ISSUED"
    BY RowSets DEF UsableIn, ChallengesIn
  <2>2. x \notin M
    <3>1. SUFFICES ASSUME x \in M PROVE FALSE
      OBVIOUS
    <3>2. e[x] = [db[x] EXCEPT !.status = "REVOKED"] /\ db[x] # None
      BY <2>1, <3>1, <1>2, <1>4 DEF EndedIn, Open
    <3>3. db[x] \in Activation
      BY <2>1, <3>2 DEF Data, Typed
    <3> QED BY <2>1, <3>2, <3>3 DEF Activation
  <2>3. CASE x \in DOMAIN W
    BY <2>1, <2>2, <2>3, <1>4
  <2>4. CASE x \notin DOMAIN W
    <3>1. x \in UsableIn(db, a)
      BY <2>1, <2>2, <2>4, <1>4 DEF UsableIn, ChallengesIn
    <3>2. x \notin R
      BY <2>2, <3>1 DEF Open, UsableIn, ChallengesIn
    <3> QED BY <2>4, <3>1, <3>2
  <2> QED BY <2>3, <2>4
<1> QED BY <1>5, <1>6, <1>7, <1>8, <1>9, <1>10

\* A person who is not the owner: what the rows must agree on.
LEMMA OthersAreOK ==
    ASSUME NEW e, NEW a \in Accounts, e[Account(a)] # None, e[Member(a)] # None, e[Workspace] # None,
           ~Owns(e, a), e[Member(a)].role # "ADMIN",
           e[Session(a)] # None =>
              /\ e[Session(a)].role = e[Member(a)].role
              /\ e[Member(a)].status \in {"SUSPENDED", "REVOKED"} =>
                    e[Session(a)].status = e[Member(a)].status,
           \A x \in UsableIn(e, a) : e[Member(a)].status = "PENDING",
           \A x, y \in UsableIn(e, a) : x = y
    PROVE  PersonOK(e, a)
  BY DEF PersonOK

\* The Admin's change is what the rules allow, the sessions end with it, and
\* on revocation the challenges.
LEMMA MutateSettles ==
    ASSUME Data(db), NEW l, NEW w \in Workers, Others(l, w), NEW t, Ready(db, l, w, t), t.stage = "mutate",
           NEW u \in Mutate(t)
    PROVE  Settled(l, w, u)
<1> DEFINE a == t.on
           m == db[Member(a)]
           W == [x \in {Member(a)} |-> Moved(t, m)]
           R == EndsOf(t)
           M == {x \in R : Open(x)}
           e == Written(W, M)
<1>1. CASE u \in Refuse(t)
  BY <1>1, RefuseSettles
<1>2. CASE /\ t.on # Owner /\ Allowed(t, m)
           /\ u \in Finish(t, W, R)
  <2>0. t.kind \in Mutations /\ a \in Accounts /\ l[Account(a)] = w /\ db[Account(a)] # None
    BY StageKinds DEF Ready, Needs, Named
  <2>1. PersonOK(db, a) /\ m \in Membership /\ db[Workspace] # None /\ ~Owns(db, a)
    BY <1>2, <2>0 DEF Data, Typed, PersonOK, Owns, Owner
  <2>2. Guards(db, l, w, a)
    BY <2>0 DEF Guards
  <2>3. t.kind = "CHANGE_ROLE" => t.role \in Roles
    BY DEF Ready, Named
  <2>4. /\ Moved(t, m) \in Membership /\ Moves(m, Moved(t, m))
        /\ Moved(t, m).role # "ADMIN"
        /\ Moved(t, m).role = IF t.kind = "CHANGE_ROLE" THEN t.role ELSE m.role
        /\ Moved(t, m).status = CASE t.kind = "CHANGE_ROLE" -> m.status
                                  [] t.kind = "SUSPEND"     -> "SUSPENDED"
                                  [] t.kind = "REACTIVATE"  -> "ACTIVE"
                                  [] t.kind = "REVOKE"      -> "REVOKED"
    BY <1>2, <2>0, <2>1, <2>3, MembersAssumption DEF Allowed, Moved, Moves, Membership, Mutations
  <2>5. /\ Account(a) # Member(a) /\ Session(a) # Member(a)
        /\ Member(a) \notin ChallengeRows \cup RecoveryRows
        /\ Session(a) \notin ChallengeRows
    BY RowNames DEF RowFacts
  <2>6. /\ t.kind # "REACTIVATE" => Session(a) \in R
        /\ t.kind = "REVOKE" => \A x \in UsableIn(db, a) : x \in R
        /\ R \subseteq {Session(a)} \cup ChallengesIn(db, a)
    BY DEF EndsOf, IssuedTo, UsableIn, ChallengesIn, Open
  <2>7. DOMAIN W = {Member(a)} /\ W[Member(a)] = Moved(t, m)
    OBVIOUS
  <2> HIDE DEF W, R
  <2>8. Writes(W, R, a)
    BY <2>0, <2>4, <2>5, <2>6, <2>7 DEF Writes
  <2>9. /\ e[Account(a)] = db[Account(a)] /\ e[Member(a)] = Moved(t, m)
        /\ e[Session(a)] = IF Session(a) \in R THEN None ELSE db[Session(a)]
        /\ e[Workspace] # None /\ ~Owns(e, a)
        /\ e[Account(a)] # None /\ e[Member(a)] # None
        /\ \A x \in UsableIn(e, a) : x \notin R /\ x \in UsableIn(db, a)
    <3> HIDE DEF M, e
    <3>1. M = {x \in R : Open(x)} /\ e = Written(W, M)
      BY DEF M, e
    <3>2. \A x \in UsableIn(e, a) : x \in ChallengeRows
      BY DEF UsableIn, ChallengesIn
    <3> QED BY <2>1, <2>0, <2>5, <2>7, <2>8, <3>1, <3>2, PersonAfter
  <2>10. PersonOK(e, a)
    <3> HIDE DEF M, e, m
    <3>1. e[Session(a)] # None =>
              /\ e[Session(a)].role = e[Member(a)].role
              /\ e[Member(a)].status \in {"SUSPENDED", "REVOKED"} =>
                    e[Session(a)].status = e[Member(a)].status
      BY <2>0, <2>1, <2>4, <2>6, <2>9 DEF Mutations, PersonOK, m
    <3>2. \A x \in UsableIn(e, a) : e[Member(a)].status = "PENDING"
      BY <1>2, <2>0, <2>1, <2>4, <2>6, <2>9 DEF Mutations, PersonOK, Allowed, m
    <3>3. \A x, y \in UsableIn(e, a) : x = y
      BY <2>1, <2>9 DEF PersonOK
    <3> QED BY <2>0, <2>4, <2>9, <3>1, <3>2, <3>3, OthersAreOK
  <2> HIDE DEF a
  <2> QED BY <1>2, <2>0, <2>1, <2>2, <2>8, <2>10, PersonSettles
<1> QED BY <1>1, <1>2 DEF Mutate

\* An address that is unknown under its lock stays so until the account, the
\* membership and the challenge of the invitation exist together.
LEMMA ProvisionSettles ==
    ASSUME Data(db), NEW l, NEW w \in Workers, Others(l, w), NEW t, Ready(db, l, w, t), t.stage = "provision",
           NEW u \in Provision(t)
    PROVE  Settled(l, w, u)
<1> DEFINE a == t.on
<1>0. /\ Shape(t) /\ Named(db, t) /\ Knows(db, l, w, t) /\ t.kind = "PROVISION"
      /\ a \in Accounts /\ t.role \in Roles /\ l[Email(a)] = w
      /\ t.actor \in Accounts /\ db[Account(t.actor)] # None /\ t.kind \in BearerKinds
  <2>1. "PROVISION" \in BearerKinds
    BY DEF BearerKinds, AdminKinds
  <2> QED BY <2>1, StageKinds DEF Ready, Needs, Named
<1>1. CASE u \in Refuse(t)
  BY <1>1, RefuseSettles
<1>2. CASE db[Account(a)] # None /\ u \in Wait(t, "duplicate", <<Account(a)>>)
  <2>1. /\ u.kind = t.kind /\ u.actor = t.actor /\ u.on = t.on /\ u.key = t.key
        /\ u.role = t.role /\ u.stage = "duplicate" /\ u.seen = t.seen
    BY <1>0, <1>2, WaitFields
  <2>2. Named(db, u) /\ Knows(db, l, w, u)
    BY <1>0, <1>2, <2>1 DEF Named, Knows
  <2>3. Needs(db, u) = {} /\ Staged(t.kind, "duplicate")
    BY <1>0, <2>1 DEF Needs, Staged, PublicKinds
  <2>4. Account(a) \in Lockable
    BY <1>0, LockableRows
  <2> QED BY <1>2, <2>2, <2>3, <2>4, QueueOfOne, WaitSettles
<1>3. ASSUME db[Account(a)] = None, NEW c \in FreshIn(ChallengeRows), u \in Finish(t, Invited(t, c), {})
      PROVE  Settled(l, w, u)
  <2> DEFINE W == Invited(t, c)
             M == {x \in {} : Open(x)}
             e == Written(W, M)
  <2>1. db[Workspace] # None
    BY <1>0 DEF Data, PersonOK
  <2>2. Guards(db, l, w, a)
    BY <1>0, <1>3, <2>1 DEF Guards
  <2>3. PersonOK(db, a) /\ db[Member(a)] = None /\ db[Session(a)] = None /\ ~Owns(db, a)
    BY <1>0, <1>3, MembersAssumption DEF Data, PersonOK
  <2>4. c \in ChallengeRows /\ db[c] = None /\ \A v \in Workers : c \notin DOMAIN tx[v].writes
    BY FreshRows
  <2>5. /\ Account(a) # Member(a) /\ Account(a) # c /\ Member(a) # c
        /\ Session(a) \notin {Account(a), Member(a), c}
        /\ Account(a) \notin ChallengeRows \cup RecoveryRows
        /\ Member(a) \notin ChallengeRows \cup RecoveryRows
        /\ c \notin RecoveryRows
    BY <2>4, RowNames DEF RowFacts
  <2>6. /\ DOMAIN W = {Account(a), Member(a), c}
        /\ W[Account(a)] = "PENDING_ACTIVATION"
        /\ W[Member(a)] = [role |-> t.role, status |-> "PENDING", version |-> 1]
        /\ W[c] = [member |-> a, status |-> "ISSUED"]
    BY <2>5 DEF Invited, NewChallenge
  <2>7. W[Member(a)] \in Membership /\ W[c] \in Activation /\ W[Member(a)].role # "ADMIN"
    BY <1>0, <2>6, MembersAssumption DEF Membership, Activation
  <2> HIDE DEF W
  <2>8. Writes(W, {}, a)
    BY <2>3, <2>4, <2>5, <2>6, <2>7 DEF Writes
  <2>9. PersonOK(e, a)
    <3> HIDE DEF M, e
    <3>1. M = {x \in {} : Open(x)} /\ e = Written(W, M)
      BY DEF M, e
    <3>2. /\ e[Account(a)] # None /\ e[Member(a)] = W[Member(a)] /\ e[Member(a)] # None
          /\ e[Session(a)] = None /\ e[Workspace] # None /\ ~Owns(e, a)
          /\ \A x \in UsableIn(e, a) : x = c \/ x \in UsableIn(db, a)
      <4>1. \A x \in UsableIn(e, a) : x \in ChallengeRows
        BY DEF UsableIn, ChallengesIn
      <4> QED BY <1>0, <2>1, <2>3, <2>5, <2>6, <2>8, <3>1, <4>1, PersonAfter
    <3>3. UsableIn(db, a) = {}
      BY <1>3, <2>3 DEF PersonOK, UsableIn
    <3> QED BY <1>0, <2>6, <2>7, <3>2, <3>3, OthersAreOK
  <2>10. u \in Finish(t, W, {})
    BY <1>3 DEF W
  <2> HIDE DEF a
  <2> QED BY <1>0, <2>1, <2>2, <2>8, <2>9, <2>10, PersonSettles
<1> QED BY <1>1, <1>2, <1>3 DEF Provision

\* A restart replaces the open challenge of a member who is still PENDING.
LEMMA RestartSettles ==
    ASSUME Data(db), NEW l, NEW w \in Workers, Others(l, w), NEW t, Ready(db, l, w, t), t.stage = "restart",
           NEW u \in Restart(t)
    PROVE  Settled(l, w, u)
<1> DEFINE a == t.on
           m == db[Member(a)]
<1>0. /\ t.kind = "RESTART" /\ a \in Accounts /\ l[Account(a)] = w /\ db[Account(a)] # None
  BY StageKinds DEF Ready, Needs, Named
<1>1. CASE u \in Refuse(t)
  BY <1>1, RefuseSettles
<1>2. ASSUME m.status = "PENDING", NEW c \in FreshIn(ChallengeRows),
             u \in Finish(t, Reissued(t, c), IssuedTo(a))
      PROVE  Settled(l, w, u)
  <2> DEFINE W == Reissued(t, c)
             R == IssuedTo(a)
             M == {x \in R : Open(x)}
             e == Written(W, M)
  <2>1. PersonOK(db, a) /\ db[Workspace] # None /\ m \in Membership
    BY <1>0 DEF Data, Typed, PersonOK
  <2>2. Guards(db, l, w, a)
    BY <1>0 DEF Guards
  <2>3. ~Owns(db, a) /\ m.role # "ADMIN"
    BY <1>0, <1>2, <2>1, MembersAssumption DEF PersonOK
  <2>4. c \in ChallengeRows /\ db[c] = None /\ \A v \in Workers : c \notin DOMAIN tx[v].writes
    BY FreshRows
  <2>5. /\ Account(a) # Member(a) /\ Account(a) # c /\ Member(a) # c
        /\ Session(a) \notin {Account(a), Member(a), c}
        /\ Member(a) \notin ChallengeRows \cup RecoveryRows
        /\ c \notin RecoveryRows /\ Session(a) \notin ChallengeRows
    BY <2>4, RowNames DEF RowFacts
  <2>6. /\ DOMAIN W = {Member(a), c}
        /\ W[Member(a)] = [m EXCEPT !.version = @ + 1]
        /\ W[c] = [member |-> a, status |-> "ISSUED"]
    BY <2>5 DEF Reissued, NewChallenge
  <2>7. /\ W[Member(a)] \in Membership /\ W[c] \in Activation /\ Moves(m, W[Member(a)])
        /\ W[Member(a)].role = m.role /\ W[Member(a)].status = "PENDING"
    BY <1>0, <1>2, <2>1, <2>6 DEF Membership, Activation, Moves
  <2>8. R \subseteq ChallengesIn(db, a) /\ UsableIn(db, a) \subseteq R /\ Session(a) \notin R
    BY <2>5 DEF IssuedTo, ChallengesIn, UsableIn, Open
  <2> HIDE DEF W, R
  <2>9. Writes(W, R, a)
    BY <1>0, <2>1, <2>4, <2>5, <2>6, <2>7, <2>8 DEF Writes
  <2>10. PersonOK(e, a)
    <3> HIDE DEF M, e
    <3>1. M = {x \in R : Open(x)} /\ e = Written(W, M)
      BY DEF M, e
    <3>2. /\ e[Account(a)] # None /\ e[Member(a)] = W[Member(a)] /\ e[Member(a)] # None
          /\ e[Session(a)] = db[Session(a)] /\ e[Workspace] # None /\ ~Owns(e, a)
          /\ \A x \in UsableIn(e, a) : x = c
      <4>1. \A x \in UsableIn(e, a) : x \in ChallengeRows
        BY DEF UsableIn, ChallengesIn
      <4> QED BY <1>0, <2>1, <2>3, <2>5, <2>6, <2>8, <2>9, <3>1, <4>1, PersonAfter
    <3>3. e[Session(a)] # None =>
              /\ e[Session(a)].role = e[Member(a)].role
              /\ e[Member(a)].status \in {"SUSPENDED", "REVOKED"} =>
                    e[Session(a)].status = e[Member(a)].status
      BY <2>1, <2>7, <3>2 DEF PersonOK
    <3> HIDE DEF m
    <3> QED BY <1>0, <2>3, <2>7, <3>2, <3>3, OthersAreOK
  <2>11. u \in Finish(t, W, R)
    BY <1>2 DEF W, R
  <2> HIDE DEF a
  <2> QED BY <1>0, <2>1, <2>2, <2>9, <2>10, <2>11, PersonSettles
<1> QED BY <1>1, <1>2 DEF Restart

\* A login opens a session in the present role and status.
LEMMA LoginSettles ==
    ASSUME Data(db), NEW l, NEW w \in Workers, Others(l, w), NEW t, Ready(db, l, w, t), t.stage = "LOGIN",
           NEW u \in Login(t)
    PROVE  Settled(l, w, u)
<1> DEFINE a == t.on
           m == db[Member(a)]
           W == [x \in {Session(a)} |-> Opened(m)]
           M == {x \in {} : Open(x)}
           e == Written(W, M)
<1>0. t.kind = "LOGIN" /\ a \in Accounts /\ l[Account(a)] = w /\ db[Account(a)] # None
  BY StageKinds DEF Ready, Needs, Named, PublicKinds
<1>1. CASE u \in Refuse(t)
  BY <1>1, RefuseSettles
<1>2. CASE u \in Finish(t, W, {})
  <2>1. PersonOK(db, a) /\ db[Workspace] # None /\ m \in Membership /\ db[Member(a)] # None
    BY <1>0 DEF Data, Typed, PersonOK
  <2>2. Guards(db, l, w, a)
    BY <1>0 DEF Guards
  <2>3. /\ Session(a) # Account(a) /\ Session(a) # Member(a)
        /\ Session(a) \notin ChallengeRows \cup RecoveryRows
    BY RowNames DEF RowFacts
  <2>4. DOMAIN W = {Session(a)} /\ W[Session(a)] = [role |-> m.role, status |-> m.status]
    BY DEF Opened
  <2>5. W[Session(a)] \in LiveSession
    BY <2>1, <2>4 DEF Membership, LiveSession
  <2> HIDE DEF W
  <2>6. Writes(W, {}, a)
    BY <1>0, <2>1, <2>3, <2>4, <2>5 DEF Writes
  <2>7. PersonOK(e, a)
    <3> HIDE DEF M, e
    <3>1. M = {x \in {} : Open(x)} /\ e = Written(W, M)
      BY DEF M, e
    <3>2. /\ e[Account(a)] = db[Account(a)] /\ e[Member(a)] = m
          /\ e[Account(a)] # None /\ e[Member(a)] # None
          /\ e[Session(a)] = W[Session(a)] /\ e[Workspace] # None /\ (Owns(e, a) <=> Owns(db, a))
          /\ \A x \in UsableIn(e, a) : x \in UsableIn(db, a)
      <4>1. \A x \in UsableIn(e, a) : x \in ChallengeRows
        BY DEF UsableIn, ChallengesIn
      <4> QED BY <1>0, <2>1, <2>3, <2>4, <2>6, <3>1, <4>1, PersonAfter
    <3>3. /\ e[Session(a)].role = e[Member(a)].role
          /\ e[Session(a)].status = e[Member(a)].status
      BY <2>4, <3>2
    <3>4. /\ \A x \in UsableIn(e, a) : e[Member(a)].status = "PENDING"
          /\ \A x, y \in UsableIn(e, a) : x = y
      BY <2>1, <3>2 DEF PersonOK
    <3> QED BY <2>1, <3>2, <3>3, <3>4 DEF PersonOK
  <2> HIDE DEF a
  <2>8. t.stage # "update" /\ t.kind \notin BearerKinds
    BY <1>0 DEF BearerKinds, AdminKinds, Mutations
  <2> QED BY <1>0, <1>2, <2>1, <2>2, <2>6, <2>7, <2>8, PersonSettles
<1> QED BY <1>1, <1>2 DEF Login

\* What a person is who keeps account, membership and session, and whose
\* usable challenges are among those there were.
LEMMA UnmovedIsOK ==
    ASSUME Data(db), NEW a \in Accounts, NEW e, db[Account(a)] # None,
           e[Account(a)] = db[Account(a)], e[Member(a)] = db[Member(a)],
           e[Session(a)] \in {None, db[Session(a)]},
           e[Workspace] # None, Owns(e, a) <=> Owns(db, a),
           \A x \in UsableIn(e, a) : x \in UsableIn(db, a)
    PROVE  PersonOK(e, a)
  BY DEF Data, PersonOK

\* A proof that is looked at in time activates its member; one looked at too
\* late expires.
LEMMA ActivateSettles ==
    ASSUME Data(db), NEW l, NEW w \in Workers, Others(l, w), NEW t, Ready(db, l, w, t), t.stage = "ACTIVATE",
           NEW u \in Activate(t)
    PROVE  Settled(l, w, u)
<1> DEFINE c == t.key
           a == db[c].member
           m == db[Member(a)]
           M == {x \in {} : Open(x)}
<1>0. /\ t.kind = "ACTIVATE" /\ c \in ChallengeRows /\ db[c] # None /\ l[Account(a)] = w
      /\ t.kind \notin BearerKinds
  BY StageKinds DEF Ready, Needs, Named, PublicKinds, BearerKinds, AdminKinds, Mutations
<1>1. db[c] \in Activation /\ a \in Accounts
  BY <1>0 DEF Data, Typed, Activation
<1>2. PersonOK(db, a) /\ c \in ChallengesIn(db, a)
  BY <1>0, <1>1 DEF Data, ChallengesIn
<1>3. db[Account(a)] # None /\ db[Workspace] # None /\ db[Member(a)] # None
  BY <1>2 DEF PersonOK
<1>4. m \in Membership /\ Guards(db, l, w, a)
  BY <1>0, <1>1, <1>3 DEF Data, Typed, Guards
<1>5. /\ c \notin RecoveryRows /\ c \notin {Account(a), Member(a), Session(a)}
      /\ Account(a) # Member(a) /\ Session(a) \notin {Account(a), Member(a)}
      /\ Account(a) \notin ChallengeRows \cup RecoveryRows
      /\ Member(a) \notin ChallengeRows \cup RecoveryRows
  BY <1>0, RowNames DEF RowFacts
<1>6. CASE u \in Refuse(t)
  BY <1>6, RefuseSettles
<1>7. CASE u \in Finish(t, Expired(t), {})
  <2> DEFINE W == Expired(t)
             e == Written(W, M)
  <2>1. DOMAIN W = {c} /\ W[c] = [db[c] EXCEPT !.status = "EXPIRED"]
    BY DEF Expired
  <2>2. W[c] \in Activation /\ W[c].member = a /\ W[c].status = "EXPIRED"
    BY <1>1, <2>1 DEF Activation
  <2>3. u \in Finish(t, W, {})
    BY <1>7
  <2> HIDE DEF W
  <2>4. Writes(W, {}, a)
    BY <1>0, <1>3, <1>5, <2>1, <2>2 DEF Writes
  <2>5. PersonOK(e, a)
    <3> HIDE DEF M, e, a, c
    <3>1. M = {x \in {} : Open(x)} /\ e = Written(W, M)
      BY DEF M, e
    <3>2. /\ e[Account(a)] = db[Account(a)] /\ e[Member(a)] = db[Member(a)]
          /\ e[Session(a)] = db[Session(a)] /\ e[Workspace] # None /\ (Owns(e, a) <=> Owns(db, a))
          /\ \A x \in UsableIn(e, a) : x \in UsableIn(db, a)
      <4>1. W[c].status # "ISSUED"
        BY <2>2
      <4>2. Account(a) \notin DOMAIN W /\ Member(a) \notin DOMAIN W /\ Session(a) \notin DOMAIN W
        BY <1>5, <2>1
      <4>3. \A x \in DOMAIN W : x = c
        BY <2>1
      <4> HIDE DEF m
      <4> QED BY <1>1, <1>3, <2>4, <3>1, <4>1, <4>2, <4>3, PersonAfter
    <3> QED BY <1>1, <1>3, <3>2, UnmovedIsOK
  <2> HIDE DEF a, c
  <2> QED BY <1>0, <1>1, <1>3, <1>4, <2>3, <2>4, <2>5, PersonSettles
<1>8. CASE db[c].status = "ISSUED" /\ m.status = "PENDING" /\ u \in Finish(t, Activated(t), {})
  <2> DEFINE W == Activated(t)
             e == Written(W, M)
  <2>1. /\ DOMAIN W = {c, Member(a), Account(a)}
        /\ W[c] = [db[c] EXCEPT !.status = "USED"]
        /\ W[Member(a)] = [m EXCEPT !.status = "ACTIVE", !.version = @ + 1]
        /\ W[Account(a)] = "ACTIVE"
    BY <1>5 DEF Activated
  <2>2. W[c] \in Activation /\ W[c].member = a /\ W[c].status = "USED"
    BY <1>1, <2>1 DEF Activation
  <2>3. /\ W[Member(a)] \in Membership /\ Moves(m, W[Member(a)])
        /\ W[Member(a)].status = "ACTIVE" /\ W[Member(a)].role = m.role
    <3>1. m \in Membership /\ m.status = "PENDING"
      BY <1>4, <1>8
    <3>2. W[Member(a)] = [m EXCEPT !.status = "ACTIVE", !.version = @ + 1]
      BY <2>1
    <3>3. ASSUME NEW old \in Membership, old.status = "PENDING",
                 NEW new, new = [old EXCEPT !.status = "ACTIVE", !.version = @ + 1]
          PROVE  /\ new \in Membership /\ Moves(old, new)
                 /\ new.status = "ACTIVE" /\ new.role = old.role
      <4>1. new = [role |-> old.role, status |-> "ACTIVE", version |-> old.version + 1]
        BY <3>3 DEF Membership
      <4> QED BY <3>3, <4>1 DEF Membership, Moves
    <3> HIDE DEF m, W, a
    <3> QED BY <3>1, <3>2, <3>3
  <2>4. u \in Finish(t, W, {})
    BY <1>8
  <2>5. ~Owns(db, a) /\ m.role # "ADMIN" /\ c \in UsableIn(db, a)
    BY <1>2, <1>3, <1>8 DEF PersonOK, UsableIn
  <2> HIDE DEF W
  <2>6. Writes(W, {}, a)
    BY <1>0, <1>3, <1>5, <2>1, <2>2, <2>3 DEF Writes
  <2>7. PersonOK(e, a)
    <3> HIDE DEF M, e, a, c
    <3>1. M = {x \in {} : Open(x)} /\ e = Written(W, M)
      BY DEF M, e
    <3>2. /\ e[Account(a)] # None /\ e[Member(a)] = W[Member(a)] /\ e[Member(a)] # None
          /\ e[Session(a)] = db[Session(a)] /\ e[Workspace] # None /\ ~Owns(e, a)
          /\ \A x \in UsableIn(e, a) : x # c /\ x \in UsableIn(db, a)
      <4>1. \A x \in UsableIn(e, a) : x \in ChallengeRows
        BY DEF UsableIn, ChallengesIn
      <4>2. W[c].status # "ISSUED"
        BY <2>2
      <4>3. /\ Account(a) \in DOMAIN W /\ Member(a) \in DOMAIN W /\ Session(a) \notin DOMAIN W
            /\ c \in DOMAIN W
        BY <1>5, <2>1
      <4>4. \A x \in DOMAIN W \cap ChallengeRows : x = c
        BY <1>5, <2>1
      <4> HIDE DEF m
      <4> QED BY <1>1, <1>3, <2>5, <2>6, <3>1, <4>1, <4>2, <4>3, <4>4, PersonAfter
    <3>3. UsableIn(e, a) = {}
      BY <1>2, <2>5, <3>2 DEF PersonOK
    <3>4. e[Session(a)] # None => e[Session(a)].role = e[Member(a)].role
      BY <1>2, <2>3, <3>2 DEF PersonOK
    <3> HIDE DEF m
    <3> QED BY <1>1, <2>3, <2>5, <3>2, <3>3, <3>4, OthersAreOK
  <2> HIDE DEF a, c
  <2> QED BY <1>0, <1>1, <1>3, <1>4, <2>4, <2>6, <2>7, PersonSettles
<1> QED BY <1>6, <1>7, <1>8 DEF Activate

\* A recovery is offered to an ACTIVE account that is not the owner's.
LEMMA RecoverSettles ==
    ASSUME Data(db), NEW l, NEW w \in Workers, Others(l, w), NEW t, Ready(db, l, w, t), t.stage = "recover",
           NEW u \in Recover(t)
    PROVE  Settled(l, w, u)
<1> DEFINE a == t.on
           R == RecoveriesOf(a)
           M == {x \in R : Open(x)}
<1>0. /\ t.kind = "RECOVER" /\ a \in Accounts /\ l[Account(a)] = w /\ db[Account(a)] # None
      /\ t.kind \notin BearerKinds
  BY StageKinds DEF Ready, Needs, Named, BearerKinds, AdminKinds, Mutations
<1>1. CASE u \in Refuse(t)
  BY <1>1, RefuseSettles
<1>2. ASSUME NEW r \in FreshIn(RecoveryRows),
             u \in Finish(t, [x \in {r} |-> [account |-> a, status |-> "ISSUED"]], R)
      PROVE  Settled(l, w, u)
  <2> DEFINE W == [x \in {r} |-> [account |-> a, status |-> "ISSUED"]]
             e == Written(W, M)
  <2>1. db[Workspace] # None /\ db[Member(a)] # None
    BY <1>0 DEF Data, PersonOK
  <2>2. Guards(db, l, w, a)
    BY <1>0 DEF Guards
  <2>3. r \in RecoveryRows /\ db[r] = None /\ \A v \in Workers : r \notin DOMAIN tx[v].writes
    BY FreshRows
  <2>4. r \notin ChallengeRows /\ r \notin {Account(a), Member(a), Session(a)}
    BY <2>3, RowNames DEF RowFacts
  <2>5. DOMAIN W = {r} /\ W[r] = [account |-> a, status |-> "ISSUED"] /\ W[r] \in RecoveryRow
    BY <1>0 DEF RecoveryRow
  <2>6. R \subseteq RecoveriesIn(db, a) /\ Session(a) \notin R /\ R \cap ChallengeRows = {}
    BY RowNames DEF RowFacts, RecoveriesOf, RecoveriesIn, Open
  <2>7. u \in Finish(t, W, R)
    BY <1>2
  <2> HIDE DEF W, R
  <2>8. Writes(W, R, a)
    BY <1>0, <2>1, <2>3, <2>4, <2>5, <2>6 DEF Writes
  <2>9. PersonOK(e, a)
    <3> HIDE DEF M, e, a
    <3>1. M = {x \in R : Open(x)} /\ e = Written(W, M)
      BY DEF M, e
    <3>2. /\ e[Account(a)] = db[Account(a)] /\ e[Member(a)] = db[Member(a)]
          /\ e[Session(a)] = db[Session(a)] /\ e[Workspace] # None /\ (Owns(e, a) <=> Owns(db, a))
          /\ \A x \in UsableIn(e, a) : x \in UsableIn(db, a)
      BY <1>0, <2>1, <2>4, <2>5, <2>6, <2>8, <3>1, PersonAfter
    <3> QED BY <1>0, <3>2, UnmovedIsOK
  <2> HIDE DEF a
  <2> QED BY <1>0, <2>1, <2>2, <2>7, <2>8, <2>9, PersonSettles
<1> QED BY <1>1, <1>2 DEF Recover

\* A recovery is used up for an account that is not the owner's now, and its
\* session ends.
LEMMA ConfirmRecoverySettles ==
    ASSUME Data(db), NEW l, NEW w \in Workers, Others(l, w), NEW t, Ready(db, l, w, t),
           t.stage = "CONFIRM_RECOVERY", NEW u \in ConfirmRecovery(t)
    PROVE  Settled(l, w, u)
<1> DEFINE r == t.key
           a == db[r].account
<1>0. /\ t.kind = "CONFIRM_RECOVERY" /\ r \in RecoveryRows /\ db[r] # None /\ l[Account(a)] = w
      /\ t.kind \notin BearerKinds
  BY StageKinds DEF Ready, Needs, Named, PublicKinds, BearerKinds, AdminKinds, Mutations
<1>1. db[r] \in RecoveryRow /\ a \in Accounts
  BY <1>0 DEF Data, Typed, RecoveryRow
<1>2. PersonOK(db, a) /\ r \in RecoveriesIn(db, a)
  BY <1>0, <1>1 DEF Data, RecoveriesIn
<1>3. db[Account(a)] # None /\ db[Workspace] # None /\ db[Member(a)] # None
  BY <1>2 DEF PersonOK
<1>4. Guards(db, l, w, a)
  BY <1>0, <1>3 DEF Guards
<1>5. /\ r \notin ChallengeRows /\ r \notin {Account(a), Member(a), Session(a)}
      /\ Session(a) \notin ChallengeRows
  BY <1>0, RowNames DEF RowFacts
<1>6. CASE u \in Refuse(t)
  BY <1>6, RefuseSettles
<1>7. ASSUME NEW W, DOMAIN W = {r}, NEW R, R \subseteq {Session(a)}, u \in Finish(t, W, R),
             NEW status \in {"EXPIRED", "USED"}, W[r] = [db[r] EXCEPT !.status = status],
             status = "USED" => ~Owns(db, a)
      PROVE  Settled(l, w, u)
  <2> DEFINE M == {x \in R : Open(x)}
             e == Written(W, M)
  <2>1. W[r] \in RecoveryRow /\ W[r].account = a /\ W[r].status = status
    BY <1>1, <1>7 DEF RecoveryRow
  <2>2. Writes(W, R, a)
    BY <1>0, <1>3, <1>5, <1>7, <2>1 DEF Writes
  <2>3. PersonOK(e, a)
    <3> HIDE DEF M, e, a, r
    <3>1. M = {x \in R : Open(x)} /\ e = Written(W, M)
      BY DEF M, e
    <3>2. /\ e[Account(a)] = db[Account(a)] /\ e[Member(a)] = db[Member(a)]
          /\ e[Session(a)] \in {None, db[Session(a)]}
          /\ e[Workspace] # None /\ (Owns(e, a) <=> Owns(db, a))
          /\ \A x \in UsableIn(e, a) : x \in UsableIn(db, a)
      BY <1>1, <1>3, <1>5, <1>7, <2>2, <3>1, PersonAfter
    <3> QED BY <1>1, <1>3, <3>2, UnmovedIsOK
  <2> HIDE DEF a, r
  <2> QED BY <1>0, <1>1, <1>3, <1>4, <1>7, <2>2, <2>3, PersonSettles
<1>8. CASE u \in Finish(t, Expired(t), {})
  <2>1. DOMAIN Expired(t) = {r} /\ Expired(t)[r] = [db[r] EXCEPT !.status = "EXPIRED"]
    BY DEF Expired
  <2> QED BY <1>7, <1>8, <2>1
<1>9. CASE Owner # a /\ u \in Finish(t, Used(t), {Session(a)})
  <2>1. DOMAIN Used(t) = {r} /\ Used(t)[r] = [db[r] EXCEPT !.status = "USED"]
    BY DEF Used
  <2>2. ~Owns(db, a)
    BY <1>9 DEF Owns, Owner
  <2> QED BY <1>7, <1>9, <2>1, <2>2
<1> QED BY <1>6, <1>8, <1>9 DEF ConfirmRecovery

-----------------------------------------------------------------------------
(* Requests about the workspace.                                           *)

\* What a request may write about the workspace, which keeps its owner: a
\* transfer that opens is the owner's.
WritesWorkspace(W) ==
    /\ DOMAIN W \subseteq {Workspace} \cup TransferRows
    /\ Workspace \in DOMAIN W => W[Workspace] \in WorkspaceRow /\ W[Workspace].owner = Owner
    /\ \A x \in DOMAIN W \cap TransferRows :
          /\ W[x] \in TransferRow
          /\ db[x] # None => W[x].from = db[x].from /\ W[x].to = db[x].to
          /\ W[x].status = "INITIATED" => W[x].from = Owner

\* A request about the workspace settles what it writes under its guard.
LEMMA WorkspaceSettles ==
    ASSUME Data(db), NEW l, NEW w \in Workers, Others(l, w), NEW t, Ready(db, l, w, t), t.stage # "update",
           t.kind \in BearerKinds => t.stage \notin {"session", "account"},
           l[Workspace] = w, db[Workspace] # None,
           NEW W, WritesWorkspace(W),
           \A x, y \in OfferedIn(Written(W, {})) : x = y,
           NEW u \in Finish(t, W, {})
    PROVE  Settled(l, w, u)
<1> DEFINE e == Written(W, {})
<1>0. Typed(db)
  BY DEF Data
<1>n. None \notin WorkspaceRow \cup TransferRow
  BY MembersAssumption
<1>1. \A x \in Rows : e[x] = IF x \in DOMAIN W THEN W[x] ELSE db[x]
  BY DEF Written
<1>2. DOMAIN e = Rows
  BY DEF Written
<1>3. e[Workspace] \in WorkspaceRow /\ e[Workspace].owner = Owner
  BY <1>0, <1>1, RowSets DEF Typed, WritesWorkspace, Owner
<1>4. ASSUME NEW x \in DOMAIN W \cap TransferRows
      PROVE  /\ e[x] \in TransferRow
             /\ db[x] # None => e[x].from = db[x].from /\ e[x].to = db[x].to
  BY <1>1, RowSets DEF WritesWorkspace
<1>5. WorkspaceOK(e)
  <2>1. Installation # Workspace /\ Installation \notin TransferRows
    BY RowNames DEF RowFacts
  <2>2. e[Installation] = db[Installation] /\ db[Installation] # None
    BY <1>1, <2>1, RowSets DEF Data, WorkspaceOK, WritesWorkspace
  <2>3. ASSUME NEW x \in OfferedIn(e) PROVE e[x].from = e[Workspace].owner
    <3>1. x \in TransferRows /\ e[x] # None /\ e[x].status = "INITIATED"
      BY DEF OfferedIn
    <3>2. CASE x \in DOMAIN W
      BY <1>1, <1>3, <3>1, <3>2, RowSets DEF WritesWorkspace
    <3>3. CASE x \notin DOMAIN W
      <4>1. e[x] = db[x]
        BY <1>1, <3>1, <3>3, RowSets
      <4> QED BY <1>3, <3>1, <4>1 DEF Data, WorkspaceOK, OfferedIn, Owner
    <3> QED BY <3>2, <3>3
  <2> QED BY <1>3, <1>n, <2>2, <2>3 DEF WorkspaceOK
<1>6. GuardsWorkspace(db, l, w)
  BY DEF GuardsWorkspace
<1>7. Effect(db, e, DOMAIN W, l, w)
  <2>1. \A x \in Rows \ DOMAIN W : e[x] = db[x]
    BY <1>1
  <2>2. e[Workspace].owner = db[Workspace].owner
    BY <1>3 DEF Owner
  <2>3. DOMAIN W \subseteq {Workspace} \cup TransferRows
    BY DEF WritesWorkspace
  <2> HIDE DEF e
  <2> QED BY <1>2, <1>3, <1>4, <1>5, <1>6, <2>1, <2>2, <2>3, WorkspaceWritten
<1>8. \A x \in DOMAIN W : x \notin SessionRows \cup ChallengeRows \cup RecoveryRows
  BY RowNames DEF RowFacts, WritesWorkspace
<1>9. Effect(db, Written(W, {}), DOMAIN W \cup {}, l, w)
  <2>1. DOMAIN W \cup {} = DOMAIN W
    OBVIOUS
  <2> QED BY <2>1, <1>7
<1>10. {} = {x \in {} : Open(x)} /\ IsFiniteSet({}) /\ {} \subseteq Lockable
  BY FS_EmptySet
<1> QED BY <1>8, <1>9, <1>10, FinishSettles

\* Whoever has a membership is in a workspace.
LEMMA ActorsHaveAWorkspace ==
    ASSUME Data(db), NEW t, Named(db, t), t.kind \in BearerKinds
    PROVE  db[Workspace] # None
  BY DEF Data, PersonOK, Named

\* The settings change under the version the request names.
LEMMA UpdateSettingsSettles ==
    ASSUME Data(db), NEW l, NEW w \in Workers, Others(l, w), NEW t, Ready(db, l, w, t), t.stage = "settings",
           NEW u \in UpdateSettings(t)
    PROVE  Settled(l, w, u)
<1> DEFINE W == [x \in {Workspace} |-> [db[Workspace] EXCEPT !.version = @ + 1]]
<1>0. t.kind = "SETTINGS" /\ t.kind \in BearerKinds /\ l[Workspace] = w /\ Named(db, t)
  BY StageKinds DEF Ready, Needs, BearerKinds, AdminKinds
<1>1. db[Workspace] # None
  BY <1>0, ActorsHaveAWorkspace
<1>2. CASE u \in Refuse(t)
  BY <1>2, RefuseSettles
<1>3. CASE u \in Finish(t, W, {})
  <2>1. db[Workspace] \in WorkspaceRow
    BY <1>1 DEF Data, Typed
  <2>2. DOMAIN W = {Workspace} /\ W[Workspace] \in WorkspaceRow /\ W[Workspace].owner = Owner
    BY <2>1 DEF WorkspaceRow, Owner
  <2>3. Workspace \notin TransferRows
    BY RowNames DEF RowFacts
  <2> HIDE DEF W
  <2>4. WritesWorkspace(W)
    BY <2>2, <2>3 DEF WritesWorkspace
  <2>5. \A x \in TransferRows : Written(W, {})[x] = db[x]
    BY <2>2, <2>3, RowSets DEF Written
  <2>6. \A x, y \in OfferedIn(Written(W, {})) : x = y
    BY <2>5 DEF OfferedIn, Data, WorkspaceOK
  <2> QED BY <1>0, <1>1, <1>3, <2>4, <2>6, WorkspaceSettles
<1> QED BY <1>2, <1>3 DEF UpdateSettings

\* The owner's own rows are found unchanged, and both members are next.
LEMMA CandidateSettles ==
    ASSUME Data(db), NEW l, NEW w, NEW t, Ready(db, l, w, t), t.stage = "candidate", NEW u \in Candidate(t)
    PROVE  Settled(l, w, u)
<1>0. /\ Shape(t) /\ Named(db, t) /\ Knows(db, l, w, t) /\ t.kind = "INITIATE" /\ l[Workspace] = w
      /\ t.actor \in Accounts /\ t.on \in Accounts
  <2>1. "INITIATE" \in BearerKinds
    BY DEF BearerKinds
  <2> QED BY <2>1, StageKinds DEF Ready, Needs, Named
<1>1. CASE u \in Refuse(t)
  BY <1>1, RefuseSettles
<1>2. ASSUME NEW rows \in Seq(Lockable), rows # <<>>, u \in Wait(t, "initiate", rows) PROVE Settled(l, w, u)
  <2>1. /\ u.kind = t.kind /\ u.actor = t.actor /\ u.on = t.on /\ u.key = t.key
        /\ u.role = t.role /\ u.stage = "initiate" /\ u.seen = t.seen
    BY <1>0, <1>2, WaitFields
  <2>2. Named(db, u) /\ Knows(db, l, w, u)
    BY <1>0, <2>1 DEF Named, Knows
  <2>3. Needs(db, u) = {} /\ Staged(t.kind, "initiate")
    BY <1>0, <2>1 DEF Needs, Staged
  <2> QED BY <1>2, <2>2, <2>3, WaitSettles
<1>3. CASE u \in Wait(t, "initiate", <<Member(t.actor)>>)
  <2>1. Member(t.actor) \in Lockable
    BY <1>0, LockableRows
  <2> QED BY <1>2, <1>3, <2>1, QueueOfOne
<1>4. CASE u \in Wait(t, "initiate", Pair(t.actor, t.on))
  BY <1>0, <1>2, <1>4, QueueOfPair
<1> QED BY <1>1, <1>3, <1>4 DEF Candidate

\* A transfer that closes keeps its parties.
LEMMA ClosedKeepsParties ==
    ASSUME NEW x, db[x] \in TransferRow, NEW status \in {"EXPIRED", "CANCELLED"}
    PROVE  /\ Close(x, status) \in TransferRow /\ Close(x, status).status = status
           /\ Close(x, status).from = db[x].from /\ Close(x, status).to = db[x].to
<1>1. ASSUME NEW old \in TransferRow,
             NEW new, new = [old EXCEPT !.status = status, !.version = @ + 1]
      PROVE  new \in TransferRow /\ new.status = status /\ new.from = old.from /\ new.to = old.to
  <2>1. new = [from |-> old.from, to |-> old.to, former |-> old.former, status |-> status,
               version |-> old.version + 1]
    BY <1>1 DEF TransferRow
  <2>2. old.version + 1 \in Nat \ {0}
    BY DEF TransferRow
  <2> QED BY <2>1, <2>2 DEF TransferRow
<1>2. Close(x, status) = [db[x] EXCEPT !.status = status, !.version = @ + 1]
  BY DEF Close
<1> QED BY <1>1, <1>2

\* The one open transfer is the new one, and the owner's.
LEMMA InitiateSettles ==
    ASSUME Data(db), NEW l, NEW w \in Workers, Others(l, w), NEW t, Ready(db, l, w, t), t.stage = "initiate",
           NEW u \in Initiate(t)
    PROVE  Settled(l, w, u)
<1>0. /\ Named(db, t) /\ t.kind = "INITIATE" /\ t.kind \in BearerKinds /\ l[Workspace] = w
      /\ t.actor \in Accounts /\ t.on \in Accounts /\ t.role \in Roles
  <2>1. "INITIATE" \in BearerKinds
    BY DEF BearerKinds
  <2> QED BY <2>1, StageKinds DEF Ready, Knows, Named
<1>1. db[Workspace] # None
  BY <1>0, ActorsHaveAWorkspace
<1>2. CASE u \in Refuse(t)
  BY <1>2, RefuseSettles
<1>3. ASSUME Owner = t.actor, NEW new \in FreshIn(TransferRows), NEW status \in {"EXPIRED", "CANCELLED"},
             u \in Finish(t, Offered(t, Initiated, status, new), {})
      PROVE  Settled(l, w, u)
  <2> DEFINE W == Offered(t, Initiated, status, new)
             e == Written(W, {})
  <2>1. new \in TransferRows /\ db[new] = None
    BY FreshRows
  <2>2. Initiated = OfferedIn(db) /\ Initiated \subseteq TransferRows /\ new \notin Initiated
    BY <2>1 DEF Initiated, OfferedIn
  <2>3. /\ DOMAIN W = Initiated \cup {new}
        /\ W[new] = [from |-> t.actor, to |-> t.on, former |-> t.role, status |-> "INITIATED", version |-> 1]
        /\ \A x \in Initiated : W[x] = Close(x, status)
    BY <2>2 DEF Offered
  <2>4. W[new] \in TransferRow /\ W[new].from = Owner
    BY <1>0, <1>3, <2>3 DEF TransferRow
  <2>5. ASSUME NEW x \in Initiated
        PROVE  /\ Close(x, status) \in TransferRow /\ Close(x, status).status = status
               /\ Close(x, status).from = db[x].from /\ Close(x, status).to = db[x].to
    <3>1. db[x] \in TransferRow
      BY DEF Initiated, Data, Typed
    <3> QED BY <3>1, ClosedKeepsParties
  <2>6. Workspace \notin TransferRows
    BY RowNames DEF RowFacts
  <2>7. u \in Finish(t, W, {})
    BY <1>3
  <2> HIDE DEF W
  <2>8. WritesWorkspace(W)
    <3>1. \A x \in DOMAIN W : x = new \/ x \in Initiated
      BY <2>3
    <3> QED BY <2>1, <2>2, <2>3, <2>4, <2>5, <2>6, <3>1 DEF WritesWorkspace
  <2>9. \A x \in OfferedIn(e) : x = new
    <3>1. \A x \in TransferRows : e[x] = IF x \in DOMAIN W THEN W[x] ELSE db[x]
      BY RowSets DEF Written
    <3> QED BY <2>2, <2>3, <2>5, <3>1 DEF OfferedIn
  <2> QED BY <1>0, <1>1, <2>7, <2>8, <2>9, WorkspaceSettles
<1> QED BY <1>2, <1>3 DEF Initiate

\* A transfer that is closed leaves none more open than there were.
LEMMA ClosedSettles ==
    ASSUME Data(db), NEW l, NEW w \in Workers, Others(l, w), NEW t, Ready(db, l, w, t), t.stage # "update",
           t.kind \in BearerKinds, t.stage \notin {"session", "account"},
           l[Workspace] = w, t.key \in TransferRows, db[t.key] # None,
           NEW status \in {"EXPIRED", "CANCELLED"}, NEW u \in Finish(t, Closed(t, status), {})
    PROVE  Settled(l, w, u)
<1> DEFINE W == Closed(t, status)
           e == Written(W, {})
<1>1. db[Workspace] # None
  BY DEF Data, WorkspaceOK
<1>2. db[t.key] \in TransferRow
  BY DEF Data, Typed
<1>3. DOMAIN W = {t.key} /\ W[t.key] = Close(t.key, status)
  BY DEF Closed
<1>4. /\ W[t.key] \in TransferRow /\ W[t.key].status = status
      /\ W[t.key].from = db[t.key].from /\ W[t.key].to = db[t.key].to
  <2> HIDE DEF W
  <2> QED BY <1>2, <1>3, ClosedKeepsParties
<1>5. Workspace \notin TransferRows
  BY RowNames DEF RowFacts
<1>6. u \in Finish(t, W, {})
  OBVIOUS
<1> HIDE DEF W
<1>7. WritesWorkspace(W)
  BY <1>3, <1>4, <1>5 DEF WritesWorkspace
<1>8. \A x \in OfferedIn(e) : x \in OfferedIn(db)
  <2>1. \A x \in TransferRows : e[x] = IF x \in DOMAIN W THEN W[x] ELSE db[x]
    BY RowSets DEF Written
  <2> QED BY <1>3, <1>4, <2>1 DEF OfferedIn
<1>9. \A x, y \in OfferedIn(e) : x = y
  BY <1>8 DEF Data, WorkspaceOK
<1> QED BY <1>1, <1>6, <1>7, <1>9, WorkspaceSettles

\* The transfer is found open, and both members are next.
LEMMA FindTransferSettles ==
    ASSUME Data(db), NEW l, NEW w \in Workers, Others(l, w), NEW t, Ready(db, l, w, t), t.stage = "transfer",
           NEW u \in FindTransfer(t)
    PROVE  Settled(l, w, u)
<1> DEFINE r == db[t.key]
<1>0. /\ Shape(t) /\ Named(db, t) /\ Knows(db, l, w, t) /\ t.kind = "CONFIRM" /\ t.kind \in BearerKinds
      /\ l[Workspace] = w /\ t.key \in TransferRows /\ r # None
  <2>1. "CONFIRM" \in BearerKinds
    BY DEF BearerKinds
  <2> QED BY <2>1, StageKinds DEF Ready, Needs, Named
<1>1. CASE u \in Refuse(t)
  BY <1>1, RefuseSettles
<1>2. CASE u \in Finish(t, Closed(t, "EXPIRED"), {})
  BY <1>0, <1>2, ClosedSettles
<1>3. CASE /\ r.status = "INITIATED" /\ r.to = t.actor /\ Owner = r.from
           /\ u \in Wait(t, "confirm", Pair(r.from, r.to))
  <2>1. /\ u.kind = t.kind /\ u.actor = t.actor /\ u.on = t.on /\ u.key = t.key
        /\ u.role = t.role /\ u.stage = "confirm" /\ u.seen = t.seen
    BY <1>0, <1>3, WaitFields
  <2>2. Named(db, u) /\ Knows(db, l, w, u)
    BY <1>0, <1>3, <2>1 DEF Named, Knows, Owner
  <2>3. r.from \in Accounts /\ r.to \in Accounts
    BY <1>0 DEF Data, Typed, TransferRow
  <2>4. Needs(db, u) = {Account(r.from), Account(r.to)} /\ Staged(t.kind, "confirm")
    BY <1>0, <2>1 DEF Needs, Staged
  <2> HIDE DEF r
  <2> QED BY <1>3, <2>2, <2>3, <2>4, QueueOfPair, WaitSettles
<1> QED BY <1>1, <1>2, <1>3 DEF FindTransfer

\* The owner is found to be the one who cancels, and their membership is next.
LEMMA CheckOwnerSettles ==
    ASSUME Data(db), NEW l, NEW w, NEW t, Ready(db, l, w, t), t.stage = "owner", NEW u \in CheckOwner(t)
    PROVE  Settled(l, w, u)
<1>0. /\ Shape(t) /\ Named(db, t) /\ Knows(db, l, w, t) /\ t.kind = "CANCEL" /\ l[Workspace] = w
      /\ t.actor \in Accounts
  <2>1. "CANCEL" \in BearerKinds
    BY DEF BearerKinds
  <2> QED BY <2>1, StageKinds DEF Ready, Needs, Named
<1>1. CASE u \in Refuse(t)
  BY <1>1, RefuseSettles
<1>2. CASE u \in Wait(t, "cancel", <<Member(t.actor)>>)
  <2>1. /\ u.kind = t.kind /\ u.actor = t.actor /\ u.on = t.on /\ u.key = t.key
        /\ u.role = t.role /\ u.stage = "cancel" /\ u.seen = t.seen
    BY <1>0, <1>2, WaitFields
  <2>2. Named(db, u) /\ Knows(db, l, w, u)
    BY <1>0, <2>1 DEF Named, Knows
  <2>3. Needs(db, u) = {} /\ Staged(t.kind, "cancel")
    BY <1>0, <2>1 DEF Needs, Staged
  <2>4. Member(t.actor) \in Lockable
    BY <1>0, LockableRows
  <2> DEFINE rows == <<Member(t.actor)>>
  <2>5. rows \in Seq(Lockable) /\ rows # <<>> /\ u \in Wait(t, "cancel", rows)
    BY <1>2, <2>4, QueueOfOne
  <2> HIDE DEF rows
  <2> QED BY <2>2, <2>3, <2>5, WaitSettles
<1> QED BY <1>1, <1>2 DEF CheckOwner

\* The owner's open transfer is closed.
LEMMA CancelSettles ==
    ASSUME Data(db), NEW l, NEW w \in Workers, Others(l, w), NEW t, Ready(db, l, w, t), t.stage = "cancel",
           NEW u \in Cancel(t)
    PROVE  Settled(l, w, u)
<1>0. /\ t.kind = "CANCEL" /\ t.kind \in BearerKinds /\ l[Workspace] = w
      /\ t.key \in TransferRows /\ db[t.key] # None
  <2>1. "CANCEL" \in BearerKinds
    BY DEF BearerKinds
  <2> QED BY <2>1, StageKinds DEF Ready, Knows, Named
<1>1. CASE u \in Refuse(t)
  BY <1>1, RefuseSettles
<1>2. ASSUME NEW status \in {"EXPIRED", "CANCELLED"}, u \in Finish(t, Closed(t, status), {})
      PROVE  Settled(l, w, u)
  BY <1>0, <1>2, ClosedSettles
<1> QED BY <1>1, <1>2 DEF Cancel

\* An address is looked up under its lock, and its account is next.
LEMMA FindAddressSettles ==
    ASSUME Data(db), NEW l, NEW w, NEW t, Ready(db, l, w, t), t.stage = "RECOVER", NEW u \in FindAddress(t)
    PROVE  Settled(l, w, u)
<1>0. /\ Shape(t) /\ Named(db, t) /\ Knows(db, l, w, t) /\ t.kind = "RECOVER" /\ t.on \in Accounts
      /\ t.kind \notin BearerKinds
  BY StageKinds DEF Ready, Named, PublicKinds, BearerKinds, AdminKinds, Mutations
<1>1. CASE u \in Refuse(t)
  BY <1>1, RefuseSettles
<1>2. CASE db[Account(t.on)] # None /\ u \in Wait(t, "recover", <<Account(t.on)>>)
  <2>1. /\ u.kind = t.kind /\ u.actor = t.actor /\ u.on = t.on /\ u.key = t.key
        /\ u.role = t.role /\ u.stage = "recover" /\ u.seen = t.seen
    BY <1>0, <1>2, WaitFields
  <2>2. Named(db, u) /\ Knows(db, l, w, u)
    BY <1>0, <1>2, <2>1 DEF Named, Knows
  <2>3. Needs(db, u) = {Account(t.on)} /\ Staged(t.kind, "recover")
    BY <1>0, <2>1 DEF Needs, Staged
  <2>4. Account(t.on) \in Lockable
    BY <1>0, LockableRows
  <2> DEFINE rows == <<Account(t.on)>>
  <2>5. /\ rows \in Seq(Lockable) /\ rows # <<>> /\ u \in Wait(t, "recover", rows)
        /\ \E i \in DOMAIN rows : rows[i] = Account(t.on)
    BY <1>2, <2>4, QueueOfOne
  <2> HIDE DEF rows
  <2> QED BY <2>2, <2>3, <2>5, WaitSettles
<1> QED BY <1>1, <1>2 DEF FindAddress

-----------------------------------------------------------------------------
(* The ownership moves, and begins.                                        *)

\* Both members change their roles, the workspace its owner and the transfer
\* is used up in one commit, which ends the sessions of both.
LEMMA ConfirmSettles ==
    ASSUME Data(db), NEW l, NEW w \in Workers, Others(l, w), NEW t, Ready(db, l, w, t), t.stage = "confirm",
           NEW u \in Confirm(t)
    PROVE  Settled(l, w, u)
<1> DEFINE k == t.key
           r == db[k]
           a == r.from
           b == r.to
           W == Handover(t)
           R == {Session(a), Session(b)}
           M == {x \in R : Open(x)}
           e == Written(W, M)
           n == DOMAIN W \cup M
<1>0. /\ Named(db, t) /\ t.kind = "CONFIRM" /\ t.kind \in BearerKinds
      /\ k \in TransferRows /\ r # None /\ r.status = "INITIATED" /\ a = Owner
      /\ l[Workspace] = w /\ l[Account(a)] = w /\ l[Account(b)] = w
  <2>1. "CONFIRM" \in BearerKinds
    BY DEF BearerKinds
  <2> QED BY <2>1, StageKinds DEF Ready, Needs, Named, Knows, Owner
<1>1. CASE u \in Refuse(t)
  BY <1>1, RefuseSettles
<1>2. CASE /\ db[Member(a)].role = "ADMIN" /\ db[Member(a)].status = "ACTIVE" /\ Promotable(b)
           /\ u \in Finish(t, W, R)
  <2>1. r \in TransferRow /\ a \in Accounts /\ b \in Accounts /\ r.former \in Roles
    BY <1>0 DEF Data, Typed, TransferRow
  <2>2. db[Workspace] # None /\ db[Workspace] \in WorkspaceRow
    BY <1>0 DEF Data, Typed, WorkspaceOK
  <2>3. PersonOK(db, a) /\ PersonOK(db, b) /\ Owns(db, a) /\ a # b
    BY <1>0, <1>2, <2>1, <2>2, MembersAssumption DEF Data, Owns, Owner, Promotable
  <2>4. /\ db[Account(a)] = "ACTIVE" /\ db[Account(b)] = "ACTIVE"
        /\ db[Account(a)] # None /\ db[Account(b)] # None
        /\ db[Member(a)] # None /\ db[Member(b)] # None
        /\ db[Member(b)].role \in Roles /\ db[Member(b)].status = "ACTIVE"
    BY <1>2, <2>3, MembersAssumption DEF PersonOK, Promotable
  <2>5. db[Member(a)] \in Membership /\ db[Member(b)] \in Membership
    BY <2>1, <2>4 DEF Data, Typed
  <2>6. /\ Member(a) # Member(b) /\ Session(a) # Session(b)
        /\ k \notin {Member(a), Member(b), Workspace}
        /\ Workspace \notin {Member(a), Member(b)}
    BY <1>0, <2>3, RowNames DEF RowFacts
  <2>7. /\ DOMAIN W = {k, Member(a), Member(b), Workspace}
        /\ W[k] = [r EXCEPT !.status = "COMPLETED", !.version = @ + 2]
        /\ W[Member(a)] = [db[Member(a)] EXCEPT !.role = r.former, !.version = @ + 1]
        /\ W[Member(b)] = [db[Member(b)] EXCEPT !.role = "ADMIN", !.version = @ + 1]
        /\ W[Workspace] = [owner |-> b, version |-> db[Workspace].version + 1]
    BY <2>6 DEF Handover
  <2>8. W[k] \in TransferRow /\ W[k].status = "COMPLETED" /\ W[k].from = a /\ W[k].to = b
    <3>1. ASSUME NEW old \in TransferRow, NEW new, new = [old EXCEPT !.status = "COMPLETED", !.version = @ + 2]
          PROVE  new \in TransferRow /\ new.status = "COMPLETED" /\ new.from = old.from /\ new.to = old.to
      <4>1. new = [from |-> old.from, to |-> old.to, former |-> old.former, status |-> "COMPLETED",
                   version |-> old.version + 2]
        BY <3>1 DEF TransferRow
      <4>2. old.version + 2 \in Nat \ {0}
        BY DEF TransferRow
      <4> QED BY <4>1, <4>2 DEF TransferRow
    <3> QED BY <2>1, <2>7, <3>1
  <2>9. ASSUME NEW old \in Membership, old.status = "ACTIVE", NEW role \in Roles \cup {"ADMIN"},
               NEW new, new = [role |-> role, status |-> "ACTIVE", version |-> old.version + 1]
        PROVE  new \in Membership /\ new.role = role /\ new.status = "ACTIVE" /\ Moves(old, new)
    <3>1. old.version + 1 \in Nat \ {0}
      BY DEF Membership
    <3> QED BY <2>9, <3>1 DEF Membership, Moves
  <2>10. /\ W[Member(a)] \in Membership /\ W[Member(a)].role = r.former
         /\ W[Member(a)].status = "ACTIVE" /\ Moves(db[Member(a)], W[Member(a)])
    <3>1. db[Member(a)].status = "ACTIVE" /\ r.former \in Roles \cup {"ADMIN"}
      BY <1>2, <2>1
    <3>2. W[Member(a)] = [role |-> r.former, status |-> "ACTIVE", version |-> db[Member(a)].version + 1]
      BY <2>5, <2>7, <3>1 DEF Membership
    <3> HIDE DEF W, a, b, r
    <3> QED BY <2>5, <2>9, <3>1, <3>2
  <2>11. /\ W[Member(b)] \in Membership /\ W[Member(b)].role = "ADMIN"
         /\ W[Member(b)].status = "ACTIVE" /\ Moves(db[Member(b)], W[Member(b)])
    <3>1. db[Member(b)].status = "ACTIVE" /\ "ADMIN" \in Roles \cup {"ADMIN"}
      BY <2>4
    <3>2. W[Member(b)] = [role |-> "ADMIN", status |-> "ACTIVE", version |-> db[Member(b)].version + 1]
      BY <2>5, <2>7, <3>1 DEF Membership
    <3> HIDE DEF W, a, b, r
    <3> QED BY <2>5, <2>9, <3>1, <3>2
  <2>12. W[Workspace] \in WorkspaceRow /\ W[Workspace].owner = b
    <3>1. db[Workspace].version + 1 \in Nat \ {0}
      BY <2>2 DEF WorkspaceRow
    <3> QED BY <2>1, <2>7, <3>1 DEF WorkspaceRow
  <2>u. u \in Finish(t, W, R)
    BY <1>2
  <2>13. M \subseteq R
    OBVIOUS
  <2>m. \A x \in R : db[x] # None => x \in M
    BY <2>1, RowSets DEF Open
  <2> HIDE DEF W, M
  <2>14. \A x \in Rows : /\ x \in M => e[x] = EndedIn(db, x)
                         /\ x \notin M /\ x \in DOMAIN W => e[x] = W[x]
                         /\ x \notin M /\ x \notin DOMAIN W => e[x] = db[x]
    BY DEF Written
  <2>15. n \subseteq Rows /\ DOMAIN e = Rows /\ \A x \in Rows \ n : e[x] = db[x]
    BY <1>0, <2>1, <2>7, <2>13, <2>14, RowSets DEF Written
  <2>16. /\ e[k] = W[k] /\ e[Member(a)] = W[Member(a)] /\ e[Member(b)] = W[Member(b)]
         /\ e[Workspace] = W[Workspace]
    <3>1. k \notin R /\ Member(a) \notin R /\ Member(b) \notin R /\ Workspace \notin R
      BY <1>0, RowNames DEF RowFacts
    <3> QED BY <1>0, <2>1, <2>7, <2>13, <2>14, <3>1, RowSets
  <2>17. e[Session(a)] = None /\ e[Session(b)] = None
    <3>1. Session(a) \notin DOMAIN W /\ Session(b) \notin DOMAIN W
      BY <1>0, <2>7, RowNames DEF RowFacts
    <3>2. EndedIn(db, Session(a)) = None /\ EndedIn(db, Session(b)) = None
      BY <2>1, RowSets DEF EndedIn
    <3> QED BY <2>1, <2>m, <2>14, <3>1, <3>2, RowSets
  <2>18. \A x \in Rows : x \notin {k, Member(a), Member(b), Workspace, Session(a), Session(b)} => e[x] = db[x]
    BY <2>7, <2>13, <2>15
  <2>19. /\ \A c \in Accounts : e[Account(c)] = db[Account(c)]
         /\ \A c \in Accounts : c # a /\ c # b => e[Member(c)] = db[Member(c)] /\ e[Session(c)] = db[Session(c)]
         /\ \A x \in ChallengeRows \cup RecoveryRows : e[x] = db[x]
         /\ \A x \in TransferRows : x # k => e[x] = db[x]
         /\ e[Installation] = db[Installation]
    <3> HIDE DEF e, a, b
    <3> QED BY <1>0, <2>18, RowNames, RowSets DEF RowFacts
  <2>n. None \notin WorkspaceRow \cup Membership \cup TransferRow
    BY MembersAssumption
  <2>20. Typed(e)
    <3>1. ASSUME NEW c \in Accounts
          PROVE  /\ e[Account(c)] \in {None, "PENDING_ACTIVATION", "ACTIVE"}
                 /\ e[Member(c)] \in Membership \cup {None}
                 /\ e[Session(c)] \in LiveSession \cup {None}
      <4> HIDE DEF e, a, b
      <4> QED BY <2>10, <2>11, <2>16, <2>17, <2>19 DEF Data, Typed
    <3>2. \A x \in TransferRows : e[x] \in TransferRow \cup {None}
      BY <2>8, <2>16, <2>19 DEF Data, Typed
    <3> HIDE DEF e
    <3> QED BY <2>12, <2>15, <2>16, <2>19, <3>1, <3>2 DEF Data, Typed
  <2>21. Later(db, e)
    <3>1. ASSUME NEW c \in Accounts
          PROVE  /\ db[Account(c)] # None => e[Account(c)] # None
                 /\ db[Member(c)] # None => e[Member(c)] # None
                 /\ db[Member(c)] # None /\ e[Member(c)] # db[Member(c)] => Moves(db[Member(c)], e[Member(c)])
      <4> HIDE DEF e, a, b
      <4> QED BY <2>n, <2>10, <2>11, <2>16, <2>19
    <3>2. \A x \in TransferRows : db[x] # None => e[x] # None /\ e[x].from = db[x].from /\ e[x].to = db[x].to
      BY <2>n, <2>8, <2>16, <2>19
    <3>3. e[Workspace] # None
      BY <2>n, <2>12, <2>16
    <3> HIDE DEF e
    <3> QED BY <2>19, <3>1, <3>2, <3>3 DEF Later
  <2>22. /\ \A c \in Accounts : Owns(e, c) <=> c = b
         /\ \A c \in Accounts : Owns(db, c) <=> c = a
    BY <2>n, <1>0, <2>2, <2>12, <2>16 DEF Owns, Owner
  <2>23. \A c \in Accounts : UsableIn(e, c) = UsableIn(db, c) /\ ChallengesIn(e, c) = ChallengesIn(db, c)
    <3> HIDE DEF e
    <3> QED BY <2>19 DEF UsableIn, ChallengesIn
  <2>24. PersonOK(e, a)
    <3> HIDE DEF e, a, b, r
    <3>1. e[Account(a)] # None /\ e[Member(a)] # None /\ e[Workspace] # None
      BY <2>n, <2>1, <2>4, <2>10, <2>12, <2>16, <2>19
    <3>2. e[Member(a)].role # "ADMIN"
      BY <2>1, <2>10, <2>16, MembersAssumption
    <3>3. UsableIn(e, a) = {}
      BY <1>2, <2>1, <2>3, <2>23 DEF PersonOK
    <3> QED BY <2>1, <2>3, <2>17, <2>22, <3>1, <3>2, <3>3, OthersAreOK
  <2>25. PersonOK(e, b)
    <3> HIDE DEF e, a, b, r
    <3>1. e[Account(b)] = "ACTIVE" /\ e[Account(b)] # None /\ e[Member(b)] # None /\ e[Workspace] # None
      BY <2>n, <2>1, <2>4, <2>11, <2>12, <2>16, <2>19
    <3>2. e[Member(b)].role = "ADMIN" /\ e[Member(b)].status = "ACTIVE"
      BY <2>11, <2>16
    <3>3. UsableIn(e, b) = {}
      BY <2>1, <2>3, <2>4, <2>23 DEF PersonOK
    <3> QED BY <2>1, <2>17, <2>22, <3>1, <3>2, <3>3 DEF PersonOK
  <2>26. WorkspaceOK(e)
    <3>1. OfferedIn(e) = {}
      <4>1. \A x \in OfferedIn(db) : x = k
        BY <1>0 DEF Data, WorkspaceOK, OfferedIn
      <4> HIDE DEF e, r
      <4> QED BY <2>8, <2>16, <2>19, <4>1 DEF OfferedIn
    <3>2. e[Workspace] # None
      BY <2>n, <2>12, <2>16
    <3> HIDE DEF e
    <3> QED BY <2>2, <2>19, <3>1, <3>2 DEF Data, WorkspaceOK
  <2>27. Guards(db, l, w, a) /\ Guards(db, l, w, b) /\ GuardsWorkspace(db, l, w)
    BY <1>0, <2>2, <2>4 DEF Guards, GuardsWorkspace
  <2>28. \A x \in n : x \in {k, Member(a), Member(b), Workspace, Session(a), Session(b)}
    BY <2>7, <2>13
  <2>29. \A c \in Accounts : Hits(n, e, c) => c \in {a, b}
    <3> HIDE DEF n, e, a, b
    <3>1. \A c : \A x \in RowsOf(e, c) : x \in {Member(a), Member(b), Workspace, Session(a), Session(b)} \cup TransferRows
               => c \in {a, b}
      BY RowNames DEF RowFacts, RowsOf, ChallengesIn, RecoveriesIn
    <3> QED BY <1>0, <2>28, <3>1 DEF Hits
  <2>30. Hits(n, e, a) /\ Hits(n, e, b)
    BY <2>7 DEF Hits, RowsOf
  <2>31. n \cap RecoveryRows = {}
    BY <1>0, <2>28, RowNames DEF RowFacts
  <2>32. Effect(db, e, n, l, w)
    <3> HIDE DEF n, e, a, b
    <3>1. \A c \in Accounts : Hits(n, e, c) => Guards(db, l, w, c) /\ PersonOK(e, c)
      BY <2>24, <2>25, <2>27, <2>29
    <3>2. \A c \in Accounts : (Owns(db, c) <=> Owns(e, c)) \/ Hits(n, e, c)
      BY <2>22, <2>30
    <3> QED BY <2>15, <2>20, <2>21, <2>26, <2>27, <2>31, <3>1, <3>2 DEF Effect
  <2>33. /\ \A x \in DOMAIN W \cap SessionRows : W[x] # None
         /\ \A x \in DOMAIN W \cap (ChallengeRows \cup RecoveryRows) :
               db[x] = None => \A v \in Workers : x \notin DOMAIN tx[v].writes
    BY <1>0, <2>7, RowNames DEF RowFacts
  <2>34. R \subseteq Lockable /\ IsFiniteSet(R)
    <3>1. IsFiniteSet({Session(a)} \cup {Session(b)}) /\ R = {Session(a)} \cup {Session(b)}
      BY FS_Singleton, FS_Union
    <3> QED BY <2>1, <3>1, LockableRows
  <2>35. M = {x \in R : Open(x)}
    BY DEF M
  <2> HIDE DEF R
  <2> QED BY <1>0, <2>u, <2>32, <2>33, <2>34, <2>35, FinishSettles
<1> QED BY <1>1, <1>2 DEF Confirm

\* Before bootstrap there is nothing.
LEMMA NothingBeforeBootstrap ==
    ASSUME Data(db), db[Installation] = None
    PROVE  \A x \in Rows : db[x] = None
<1>1. db[Workspace] = None /\ \A x \in TransferRows : db[x] = None
  BY DEF Data, WorkspaceOK
<1>2. \A a \in Accounts : db[Account(a)] = None /\ db[Member(a)] = None /\ db[Session(a)] = None
  BY <1>1 DEF Data, PersonOK
<1>3. ASSUME NEW x \in ChallengeRows, db[x] # None PROVE FALSE
  <2>1. db[x] \in Activation
    BY <1>3 DEF Data, Typed
  <2>2. db[x].member \in Accounts
    BY <2>1 DEF Activation
  <2>3. PersonOK(db, db[x].member) /\ x \in ChallengesIn(db, db[x].member)
    BY <1>3, <2>2 DEF Data, ChallengesIn
  <2> QED BY <1>2, <2>2, <2>3 DEF PersonOK
<1>4. ASSUME NEW x \in RecoveryRows, db[x] # None PROVE FALSE
  <2>1. db[x] \in RecoveryRow
    BY <1>4 DEF Data, Typed
  <2>2. db[x].account \in Accounts
    BY <2>1 DEF RecoveryRow
  <2>3. PersonOK(db, db[x].account) /\ x \in RecoveriesIn(db, db[x].account)
    BY <1>4, <2>2 DEF Data, RecoveriesIn
  <2> QED BY <1>2, <2>2, <2>3 DEF PersonOK
<1> QED BY <1>1, <1>2, <1>3, <1>4, RowKinds DEF WorkspaceRows

\* What bootstrap writes is right on its own.
LEMMA FoundedIsOK ==
    ASSUME NEW a \in Accounts, NEW e, DOMAIN e = Rows,
           \A x \in Rows : e[x] = IF x \in DOMAIN Founded(a) THEN Founded(a)[x] ELSE None
    PROVE  /\ DOMAIN Founded(a) = {Installation, Workspace, Account(a), Member(a)}
           /\ Data(e)
           /\ \A c \in Accounts : Owns(e, c) <=> c = a
           /\ \A x \in ChallengeRows \cup RecoveryRows \cup TransferRows \cup SessionRows : e[x] = None
<1>1. DOMAIN Founded(a) = {Installation, Workspace, Account(a), Member(a)}
  BY DEF Founded
<1>2. /\ Installation # Workspace /\ Account(a) \notin {Installation, Workspace, Member(a)}
      /\ Member(a) \notin {Installation, Workspace}
  BY RowNames DEF RowFacts
<1>3. /\ Founded(a)[Installation] = "COMPLETE"
      /\ Founded(a)[Workspace] = [owner |-> a, version |-> 1]
      /\ Founded(a)[Account(a)] = "ACTIVE"
      /\ Founded(a)[Member(a)] = [role |-> "ADMIN", status |-> "ACTIVE", version |-> 1]
  BY <1>2 DEF Founded
<1>4. /\ e[Installation] = "COMPLETE"
      /\ e[Workspace] = [owner |-> a, version |-> 1]
      /\ e[Account(a)] = "ACTIVE"
      /\ e[Member(a)] = [role |-> "ADMIN", status |-> "ACTIVE", version |-> 1]
  BY <1>1, <1>3, RowSets
<1>5. \A c \in Accounts : c # a => e[Account(c)] = None /\ e[Member(c)] = None
  BY <1>1, RowNames, RowSets DEF RowFacts
<1>6. \A x \in ChallengeRows \cup RecoveryRows \cup TransferRows \cup SessionRows : e[x] = None
  BY <1>1, RowNames, RowSets DEF RowFacts
<1>7. \A c \in Accounts : e[Session(c)] = None
  BY <1>6, RowSets
<1>8. /\ e[Workspace] \in WorkspaceRow /\ e[Member(a)] \in Membership
      /\ None \notin {"COMPLETE", "ACTIVE"} /\ None \notin WorkspaceRow \cup Membership
  BY <1>4, MembersAssumption DEF WorkspaceRow, Membership
<1>9. \A c \in Accounts : Owns(e, c) <=> c = a
  BY <1>4, <1>8 DEF Owns
<1>10. Typed(e)
  <2>1. ASSUME NEW c \in Accounts
        PROVE  /\ e[Account(c)] \in {None, "PENDING_ACTIVATION", "ACTIVE"}
               /\ e[Member(c)] \in Membership \cup {None}
               /\ e[Session(c)] \in LiveSession \cup {None}
    BY <1>4, <1>5, <1>7, <1>8
  <2> QED BY <1>4, <1>6, <1>8, <2>1 DEF Typed
<1>11. WorkspaceOK(e)
  <2>1. OfferedIn(e) = {}
    BY <1>6 DEF OfferedIn
  <2> QED BY <1>4, <1>6, <1>8, <2>1 DEF WorkspaceOK
<1>12. ASSUME NEW c \in Accounts PROVE PersonOK(e, c)
  <2>1. ChallengesIn(e, c) = {} /\ RecoveriesIn(e, c) = {}
    BY <1>6 DEF ChallengesIn, RecoveriesIn
  <2>2. UsableIn(e, c) = {}
    BY <2>1 DEF UsableIn
  <2>3. CASE c = a
    <3>1. /\ e[Account(c)] = "ACTIVE" /\ e[Account(c)] # None /\ e[Member(c)] # None
          /\ e[Member(c)].role = "ADMIN" /\ e[Member(c)].status = "ACTIVE"
          /\ e[Workspace] # None /\ e[Session(c)] = None
      BY <1>4, <1>7, <1>8, <2>3
    <3> QED BY <1>9, <2>1, <2>2, <2>3, <3>1 DEF PersonOK
  <2>4. CASE c # a
    BY <1>5, <1>7, <1>9, <2>1, <2>2, <2>4 DEF PersonOK
  <2> QED BY <2>3, <2>4
<1> QED BY <1>1, <1>6, <1>9, <1>10, <1>11, <1>12 DEF Data

\* Bootstrap founds the workspace, if it finds nothing under its lock.
LEMMA BootstrapSettles ==
    ASSUME Data(db), NEW l, NEW w \in Workers, Others(l, w), NEW t, Ready(db, l, w, t), t.stage = "BOOTSTRAP",
           NEW u \in Bootstrap(t)
    PROVE  Settled(l, w, u)
<1> DEFINE a == t.on
           W == Founded(a)
           e == Written(W, {})
<1>0. /\ t.kind = "BOOTSTRAP" /\ a \in Accounts /\ l[Installation] = w /\ t.kind \notin BearerKinds
  BY StageKinds DEF Ready, Needs, Named, PublicKinds, BearerKinds, AdminKinds, Mutations
<1>1. CASE u \in Refuse(t)
  BY <1>1, RefuseSettles
<1>2. CASE db[Installation] = None /\ u \in Finish(t, W, {})
  <2>1. \A x \in Rows : db[x] = None
    BY <1>2, NothingBeforeBootstrap
  <2>2. DOMAIN e = Rows /\ \A x \in Rows : e[x] = IF x \in DOMAIN W THEN W[x] ELSE None
    BY <2>1 DEF Written
  <2>u. u \in Finish(t, W, {})
    BY <1>2
  <2>3. /\ DOMAIN W = {Installation, Workspace, Account(a), Member(a)}
        /\ Data(e)
        /\ \A c \in Accounts : Owns(e, c) <=> c = a
        /\ \A x \in ChallengeRows \cup RecoveryRows \cup TransferRows \cup SessionRows : e[x] = None
    <3> HIDE DEF e
    <3> QED BY <1>0, <2>2, FoundedIsOK
  <2> HIDE DEF W, e
  <2>4. DOMAIN W \subseteq Rows
    BY <1>0, <2>3, RowSets
  <2>5. Later(db, e)
    BY <2>1, RowSets DEF Later
  <2>6. /\ db[Workspace] = None /\ GuardsWorkspace(db, l, w)
        /\ \A c \in Accounts : Guards(db, l, w, c)
    BY <1>0, <2>1, RowSets DEF GuardsWorkspace, Guards
  <2>7. /\ \A c \in Accounts : (Owns(db, c) <=> Owns(e, c)) \/ Hits(DOMAIN W, e, c)
        /\ DOMAIN W \cap (ChallengeRows \cup RecoveryRows \cup SessionRows) = {}
    <3>1. Hits(DOMAIN W, e, a)
      BY <2>3 DEF Hits, RowsOf
    <3>2. \A c \in Accounts : ~Owns(db, c)
      BY <2>6 DEF Owns
    <3>3. DOMAIN W \cap (ChallengeRows \cup RecoveryRows \cup SessionRows) = {}
      BY <2>3, RowNames DEF RowFacts
    <3> QED BY <2>3, <3>1, <3>2, <3>3
  <2>8. Effect(db, e, DOMAIN W, l, w)
    BY <2>3, <2>4, <2>5, <2>6, <2>7 DEF Effect, Data
  <2>9. DOMAIN W \cup {} = DOMAIN W /\ IsFiniteSet({}) /\ {} \subseteq Lockable /\ {} = {x \in {} : Open(x)}
    BY FS_EmptySet
  <2>10. Effect(db, Written(W, {}), DOMAIN W \cup {}, l, w)
    BY <2>8, <2>9 DEF e
  <2>11. /\ \A x \in DOMAIN W \cap SessionRows : W[x] # None
         /\ \A x \in DOMAIN W \cap (ChallengeRows \cup RecoveryRows) :
               db[x] = None => \A v \in Workers : x \notin DOMAIN tx[v].writes
    BY <2>7
  <2> HIDE DEF a
  <2> QED BY <1>0, <2>u, <2>9, <2>10, <2>11, FinishSettles
<1> QED BY <1>1, <1>2 DEF Bootstrap

-----------------------------------------------------------------------------
(* All of them.                                                            *)

\* A transaction that holds what it waited for is refused, waits for more, or
\* has settled what it writes.
LEMMA ProceedSettles ==
    ASSUME Data(db), NEW l, NEW w \in Workers, Others(l, w), NEW t, Ready(db, l, w, t),
           Intent(db, l, w, t), \A v \in Workers \ {w} : Touched(t) \cap Touched(tx[v]) = {},
           NEW u \in Proceed(t)
    PROVE  Settled(l, w, u)
<1>0. t.stage \in {"session", "account", "mutate", "settings", "provision",
                   "duplicate", "restart", "candidate", "initiate", "transfer",
                   "confirm", "owner", "cancel", "BOOTSTRAP", "ACTIVATE",
                   "LOGIN", "RECOVER", "recover", "CONFIRM_RECOVERY", "update"}
  <2>1. Shape(t)
    BY DEF Ready
  <2> QED BY <2>1 DEF Shape, Staged, PublicKinds
<1>1. CASE t.stage = "session"
  <2>1. u \in Authenticate(t)
    BY <1>1 DEF Proceed
  <2> QED BY <1>1, <2>1, AuthenticateSettles
<1>2. CASE t.stage = "account"
  <2>1. u \in Authorize(t)
    BY <1>2 DEF Proceed
  <2> QED BY <1>2, <2>1, AuthorizeSettles
<1>3. CASE t.stage = "mutate"
  <2>1. u \in Mutate(t)
    BY <1>3 DEF Proceed
  <2> QED BY <1>3, <2>1, MutateSettles
<1>4. CASE t.stage = "settings"
  <2>1. u \in UpdateSettings(t)
    BY <1>4 DEF Proceed
  <2> QED BY <1>4, <2>1, UpdateSettingsSettles
<1>5. CASE t.stage = "provision"
  <2>1. u \in Provision(t)
    BY <1>5 DEF Proceed
  <2> QED BY <1>5, <2>1, ProvisionSettles
<1>6. CASE t.stage = "duplicate"
  <2>1. u \in Refuse(t)
    BY <1>6 DEF Proceed
  <2> QED BY <1>6, <2>1, RefuseSettles
<1>7. CASE t.stage = "restart"
  <2>1. u \in Restart(t)
    BY <1>7 DEF Proceed
  <2> QED BY <1>7, <2>1, RestartSettles
<1>8. CASE t.stage = "candidate"
  <2>1. u \in Candidate(t)
    BY <1>8 DEF Proceed
  <2> QED BY <1>8, <2>1, CandidateSettles
<1>9. CASE t.stage = "initiate"
  <2>1. u \in Initiate(t)
    BY <1>9 DEF Proceed
  <2> QED BY <1>9, <2>1, InitiateSettles
<1>10. CASE t.stage = "transfer"
  <2>1. u \in FindTransfer(t)
    BY <1>10 DEF Proceed
  <2> QED BY <1>10, <2>1, FindTransferSettles
<1>11. CASE t.stage = "confirm"
  <2>1. u \in Confirm(t)
    BY <1>11 DEF Proceed
  <2> QED BY <1>11, <2>1, ConfirmSettles
<1>12. CASE t.stage = "owner"
  <2>1. u \in CheckOwner(t)
    BY <1>12 DEF Proceed
  <2> QED BY <1>12, <2>1, CheckOwnerSettles
<1>13. CASE t.stage = "cancel"
  <2>1. u \in Cancel(t)
    BY <1>13 DEF Proceed
  <2> QED BY <1>13, <2>1, CancelSettles
<1>14. CASE t.stage = "BOOTSTRAP"
  <2>1. u \in Bootstrap(t)
    BY <1>14 DEF Proceed
  <2> QED BY <1>14, <2>1, BootstrapSettles
<1>15. CASE t.stage = "ACTIVATE"
  <2>1. u \in Activate(t)
    BY <1>15 DEF Proceed
  <2> QED BY <1>15, <2>1, ActivateSettles
<1>16. CASE t.stage = "LOGIN"
  <2>1. u \in Login(t)
    BY <1>16 DEF Proceed
  <2> QED BY <1>16, <2>1, LoginSettles
<1>17. CASE t.stage = "RECOVER"
  <2>1. u \in FindAddress(t)
    BY <1>17 DEF Proceed
  <2> QED BY <1>17, <2>1, FindAddressSettles
<1>18. CASE t.stage = "recover"
  <2>1. u \in Recover(t)
    BY <1>18 DEF Proceed
  <2> QED BY <1>18, <2>1, RecoverSettles
<1>19. CASE t.stage = "CONFIRM_RECOVERY"
  <2>1. u \in ConfirmRecovery(t)
    BY <1>19 DEF Proceed
  <2> QED BY <1>19, <2>1, ConfirmRecoverySettles
<1>20. CASE t.stage = "update"
  <2>1. u \in Update(t)
    BY <1>20 DEF Proceed
  <2> QED BY <1>20, <2>1, UpdateSettles
<1> QED BY <1>0, <1>1, <1>2, <1>3, <1>4, <1>5, <1>6, <1>7, <1>8, <1>9, <1>10, <1>11, <1>12, <1>13, <1>14, <1>15, <1>16, <1>17, <1>18, <1>19, <1>20
=============================================================================
