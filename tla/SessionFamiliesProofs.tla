----------------------- MODULE SessionFamiliesProofs -----------------------
(***************************************************************************)
(* Theorems about SessionFamilies, for every set of accounts, sessions and *)
(* open transactions.                                                      *)
(***************************************************************************)
EXTENDS SessionFamilies, TLAPS

-----------------------------------------------------------------------------
(* The inductive invariant: what each open transaction knows and holds.    *)

Early == {"session", "account", "rollback"}
Plans == {<<>>, RevokeActiveFamily, RevokeActiveAccount, RevokeOthers, RecordReuse, Tail(RecordReuse)}

Steps    == Early \cup {"snapshot", "row", "commit"}
AllKinds == SessionKinds \cup EndingKinds \cup {"LOGIN"}
Writings == UNION {[S -> Row] : S \in SUBSET Sessions}

Request ==
    [pc      : Steps,
     kind    : AllKinds,
     on      : Sessions \cup {None},
     account : Accounts,
     plan    : Plans,
     row     : Sessions \cup {None},
     rest    : SUBSET Sessions,
     chosen  : SUBSET Sessions,
     writes  : Writings,
     ends    : BOOLEAN]

\* A request is about a session of its account, or about the account.
Presented(t) ==
    /\ t.on # None <=> t.kind \in SessionKinds
    /\ t.on # None => session[t.on] # None /\ session[t.on].account = t.account
    /\ t.pc = "session" => t.on # None
    /\ t.pc = "account" => t.kind \notin {"LOGOUT", "LOGOUT_ALL"}

\* Which statements a request runs, and why.
Stage(t) ==
    /\ t.pc \in Early => DOMAIN t.writes = {} /\ t.plan = <<>> /\ t.chosen = {} /\ ~t.ends
    /\ t.pc \in {"snapshot", "row"} \/ t.chosen # {} => t.plan # <<>>
    /\ t.pc = "row" => t.row # None
    /\ t.ends => /\ t.kind \in Revocations
                 /\ t.plan = IF t.kind = "PASSWORD" THEN RevokeOthers ELSE RevokeActiveAccount
                 /\ t.kind = "PASSWORD" => t.on \in DOMAIN t.writes
    /\ t.plan # <<>> =>
          \/ t.ends
          \/ /\ t.kind \in RefreshKinds /\ t.plan \in {RecordReuse, Tail(RecordReuse)}
             /\ session[t.on].status = "ROTATED"
          \/ /\ t.kind \in {"LOGOUT", "LOGOUT_ALL"}
             /\ t.plan \in {RevokeActiveFamily, RevokeActiveAccount}
             /\ session[t.on].status = "ACTIVE"

\* The rows a request has locked: its session, its account, what it rewrote.
Locked(w, t) ==
    /\ t.on # None /\ t.pc # "session" => lock[t.on] = w
    /\ t.kind \in BearerKinds \cup EndingKinds \cup {"LOGIN"} /\ t.pc \notin Early => lock[t.account] = w
    /\ \A s \in DOMAIN t.writes : lock[IF session[s] = None THEN t.account ELSE s] = w

Inserts(t) == \E s \in DOMAIN t.writes : session[s] = None

\* The session a request acts for is still ACTIVE.
Live(t) ==
    \/ t.kind \in BearerKinds /\ t.pc \notin {"session", "rollback"}
    \/ t.kind = "REFRESH" /\ (t.pc = "account" \/ Inserts(t))
    => session[t.on].status = "ACTIVE"

\* A row a request inserts: the root of a family, or the child of the session
\* it exchanges.
InsertOK(t, s) ==
    LET row == t.writes[s] IN
    /\ t.pc = "commit" /\ t.plan = <<>>
    /\ row.account = t.account /\ row.status = "ACTIVE" /\ row.epoch = epoch[t.account]
    /\ \/ /\ t.kind = "LOGIN" /\ DOMAIN t.writes = {s}
          /\ row.parent = None /\ row.family = s
       \/ /\ t.kind = "REFRESH" /\ DOMAIN t.writes = {s, t.on}
          /\ row.parent = t.on /\ row.family = session[t.on].family
          /\ t.writes[t.on].status = "ROTATED"

\* A row a request rewrites.
UpdateOK(t, s) ==
    LET row == t.writes[s]
        old == session[s] IN
    /\ row.account = old.account /\ row.parent = old.parent /\ row.family = old.family
    /\ \/ old.status = "ACTIVE" /\ row.status \in {"REVOKED", "EXPIRED"} /\ row.epoch = old.epoch
       \/ old.status = "ROTATED" /\ row.status = "REUSE_DETECTED" /\ row.epoch = old.epoch
       \/ /\ old.status = "ACTIVE" /\ row.status = "ROTATED" /\ row.epoch = old.epoch
          /\ s = t.on /\ t.kind = "REFRESH" /\ t.plan = <<>> /\ Inserts(t)
       \/ /\ old.status = "ACTIVE" /\ row.status = "ACTIVE" /\ row.epoch = epoch[t.account] + 1
          /\ s = t.on /\ t.kind = "PASSWORD" /\ t.ends

WriteOK(t, s) == IF session[s] = None THEN InsertOK(t, s) ELSE UpdateOK(t, s)

\* What a statement that ends sessions has not reached yet is still to come.
Remaining(t) == IF t.pc = "row" THEN t.rest \cup {t.row} ELSE {}

Sweeps(t) ==
    t.pc \in {"row", "commit"} =>
        /\ t.ends =>
              \A s \in Sessions :
                  /\ View(t)[s] # None
                  /\ View(t)[s].account = t.account /\ View(t)[s].status = "ACTIVE"
                  => s \in Remaining(t) \/ (t.kind = "PASSWORD" /\ s = t.on)
        /\ /\ t.plan # <<>> /\ t.kind \in {"LOGOUT", "LOGOUT_ALL"}
           /\ View(t)[t.on].status = "ACTIVE"
           => t.on \in Remaining(t)

RequestOK(w, t) ==
    /\ t \in Request
    /\ Presented(t)
    /\ Stage(t)
    /\ Locked(w, t)
    /\ Live(t)
    /\ \A s \in DOMAIN t.writes : WriteOK(t, s)
    /\ Sweeps(t)

RequestsOK == \A w \in Workers : tx[w] = Idle \/ RequestOK(w, tx[w])

\* No two requests write the same row, the new ones included.
WritesDisjoint ==
    \A v, w \in Workers :
        v # w /\ tx[v] # Idle /\ tx[w] # Idle => DOMAIN tx[v].writes \cap DOMAIN tx[w].writes = {}

\* Parents and families are sessions too.
Rooted ==
    \A s \in Issued : session[s].family \in Issued /\ session[s].parent \in Issued \cup {None}

IInv ==
    /\ session \in [Sessions -> Row \cup {None}]
    /\ epoch \in [Accounts -> Nat]
    /\ lock \in [Lockable -> Workers \cup {None}]
    /\ \A x \in Lockable : lock[x] # None => tx[lock[x]] # Idle
    /\ tx \in [Workers -> {Idle} \cup Request]
    /\ RequestsOK
    /\ WritesDisjoint
    /\ Rooted
    /\ FamiliesAreChains
    /\ RevocationReachesEverySession

-----------------------------------------------------------------------------
(* Records, rows and statements.                                           *)

\* What the statements look for and write.
LEMMA Statements ==
    /\ \A p \in {RevokeActiveFamily, RevokeActiveAccount, RevokeOthers} :
          p # <<>> /\ Len(p) = 1 /\ Head(p).from = "ACTIVE" /\ Head(p).to = "REVOKED"
    /\ Head(RevokeActiveFamily).scope = "FAMILY"
    /\ Head(RevokeActiveAccount).scope = "ACCOUNT"
    /\ Head(RevokeOthers).scope = "OTHERS"
    /\ RecordReuse # <<>> /\ Len(RecordReuse) = 2
    /\ Head(RecordReuse).from = "ACTIVE" /\ Head(RecordReuse).to = "REVOKED"
    /\ Head(RecordReuse).scope = "FAMILY"
    /\ Tail(RecordReuse) # <<>> /\ Len(Tail(RecordReuse)) = 1
    /\ Head(Tail(RecordReuse)).from = "ROTATED" /\ Head(Tail(RecordReuse)).to = "REUSE_DETECTED"
    /\ Head(Tail(RecordReuse)).scope = "FAMILY"
    /\ RecordReuse \notin {RevokeActiveFamily, RevokeActiveAccount, RevokeOthers}
<1>1. \A p \in {RevokeActiveFamily, RevokeActiveAccount, RevokeOthers} :
          p # <<>> /\ Len(p) = 1 /\ Head(p).from = "ACTIVE" /\ Head(p).to = "REVOKED"
  BY DEF RevokeActiveFamily, RevokeActiveAccount, RevokeOthers, Statement
<1>2. /\ Head(RevokeActiveFamily).scope = "FAMILY"
      /\ Head(RevokeActiveAccount).scope = "ACCOUNT"
      /\ Head(RevokeOthers).scope = "OTHERS"
  BY DEF RevokeActiveFamily, RevokeActiveAccount, RevokeOthers, Statement
<1>3. /\ RecordReuse # <<>> /\ Len(RecordReuse) = 2
      /\ Head(RecordReuse) = Statement("FAMILY", "ACTIVE", "REVOKED")
  BY DEF RecordReuse, RevokeActiveFamily
<1>4. /\ Tail(RecordReuse) # <<>> /\ Len(Tail(RecordReuse)) = 1
      /\ Head(Tail(RecordReuse)) = Statement("FAMILY", "ROTATED", "REUSE_DETECTED")
  BY DEF RecordReuse, RevokeActiveFamily
<1>5. ASSUME NEW p \in {RevokeActiveFamily, RevokeActiveAccount, RevokeOthers}, RecordReuse = p
      PROVE  FALSE
  <2>1. Len(p) = 1 /\ Len(p) = 2
    BY <1>1, <1>3, <1>5
  <2> QED
    BY <2>1
<1> QED
  BY <1>1, <1>2, <1>3, <1>4, <1>5 DEF Statement

\* The rows a request writes.
LEMMA WritesAreRows ==
    ASSUME NEW t \in Request
    PROVE  /\ DOMAIN t.writes \subseteq Sessions
           /\ \A s \in DOMAIN t.writes : t.writes[s] \in Row
BY DEF Request, Writings

\* What a request reads: its own rows first.
LEMMA ViewReads ==
    ASSUME NEW t \in Request, NEW s \in Sessions
    PROVE  View(t)[s] = IF s \in DOMAIN t.writes THEN t.writes[s] ELSE session[s]
BY DEF View

\* A write adds a row to those a request reads and changes nothing else.
LEMMA WriteAdds ==
    ASSUME NEW t \in Request, NEW s \in Sessions, NEW row \in Row
    PROVE  LET u == Write(t, s, row) IN
           /\ u \in Request
           /\ DOMAIN u.writes = {s} \cup DOMAIN t.writes
           /\ \A r \in {s} \cup DOMAIN t.writes : u.writes[r] = IF r = s THEN row ELSE t.writes[r]
           /\ u.pc = t.pc /\ u.kind = t.kind /\ u.on = t.on /\ u.account = t.account
           /\ u.plan = t.plan /\ u.row = t.row /\ u.rest = t.rest /\ u.chosen = t.chosen
           /\ u.ends = t.ends
<1> DEFINE rows == [r \in {s} \cup DOMAIN t.writes |-> IF r = s THEN row ELSE t.writes[r]]
<1>1. rows \in [{s} \cup DOMAIN t.writes -> Row] /\ ({s} \cup DOMAIN t.writes) \in SUBSET Sessions
  BY WritesAreRows
<1>2. rows \in Writings
  BY <1>1 DEF Writings
<1>3. Write(t, s, row) = [t EXCEPT !.writes = rows]
  BY DEF Write
<1>4. /\ \A r \in {s} \cup DOMAIN t.writes : rows[r] = IF r = s THEN row ELSE t.writes[r]
      /\ DOMAIN rows = {s} \cup DOMAIN t.writes
  OBVIOUS
<1> HIDE DEF rows
<1> DEFINE u == [t EXCEPT !.writes = rows]
<1>5. /\ u \in Request /\ u.writes = rows
      /\ u.pc = t.pc /\ u.kind = t.kind /\ u.on = t.on /\ u.account = t.account
      /\ u.plan = t.plan /\ u.row = t.row /\ u.rest = t.rest /\ u.chosen = t.chosen
      /\ u.ends = t.ends
  BY <1>2 DEF Request
<1> HIDE DEF u
<1> QED
  BY <1>3, <1>4, <1>5 DEF u

\* Where a request goes on; only the fields named change.
LEMMA MoveOn ==
    ASSUME NEW t \in Request, NEW pc \in Steps
    PROVE  LET u == [t EXCEPT !.pc = pc] IN
           /\ u \in Request /\ u.pc = pc
           /\ u.kind = t.kind /\ u.on = t.on /\ u.account = t.account /\ u.plan = t.plan
           /\ u.row = t.row /\ u.rest = t.rest /\ u.chosen = t.chosen
           /\ u.writes = t.writes /\ u.ends = t.ends
BY DEF Request

\* An UPDATE is what a request does next.
LEMMA RunMoves ==
    ASSUME NEW t \in Request, NEW plan \in Plans
    PROVE  LET u == Run(t, plan) IN
           /\ u \in Request /\ u.pc = "snapshot" /\ u.plan = plan
           /\ u.kind = t.kind /\ u.on = t.on /\ u.account = t.account
           /\ u.row = t.row /\ u.rest = t.rest /\ u.chosen = t.chosen
           /\ u.writes = t.writes /\ u.ends = t.ends
BY DEF Request, Run, Steps

\* A request that will end every session of its account.
LEMMA EndsMoves ==
    ASSUME NEW t \in Request
    PROVE  LET u == [t EXCEPT !.ends = TRUE] IN
           /\ u \in Request /\ u.ends = TRUE
           /\ u.pc = t.pc /\ u.kind = t.kind /\ u.on = t.on /\ u.account = t.account
           /\ u.plan = t.plan /\ u.row = t.row /\ u.rest = t.rest /\ u.chosen = t.chosen
           /\ u.writes = t.writes
BY DEF Request

-----------------------------------------------------------------------------
(* Steps that touch no row.                                                *)

\* They disturb no other request.
LEMMA OwnStep ==
    ASSUME IInv, NEW w \in Workers, NEW u \in {Idle} \cup Request,
           tx' = [tx EXCEPT ![w] = u], UNCHANGED <<session, epoch>>,
           lock' \in [Lockable -> Workers \cup {None}],
           \A x \in Lockable, v \in Workers \ {w} : lock'[x] = v <=> lock[x] = v,
           u = Idle => \A x \in Lockable : lock'[x] # w,
           u # Idle => RequestOK(w, u)',
           u # Idle => \A v \in Workers \ {w} : tx[v] # Idle =>
                          DOMAIN u.writes \cap DOMAIN tx[v].writes = {}
    PROVE  IInv'
<1>1. /\ tx' \in [Workers -> {Idle} \cup Request] /\ tx'[w] = u
      /\ \A v \in Workers \ {w} : tx'[v] = tx[v]
  BY DEF IInv
<1>2. \A x \in Lockable : lock'[x] # None => tx'[lock'[x]] # Idle
  BY <1>1, SessionsAssumption DEF IInv
<1>3. RequestsOK'
  <2> SUFFICES ASSUME NEW v \in Workers, tx'[v] # Idle
               PROVE  RequestOK(v, tx[v])'
    BY DEF RequestsOK, Idle
  <2>1. CASE v = w
    BY <1>1, <2>1
  <2>2. CASE v # w
    <3>1. tx'[v] = tx[v] /\ RequestOK(v, tx[v]) /\ tx[v] \in Request
      BY <1>1, <2>2 DEF IInv, RequestsOK, RequestOK
    <3>2. /\ tx[v].account \in Lockable
          /\ tx[v].on # None => tx[v].on \in Lockable
          /\ DOMAIN tx[v].writes \subseteq Lockable
      BY <3>1, WritesAreRows DEF Request, Lockable
    <3>3. Locked(v, tx[v])'
      BY <2>2, <3>1, <3>2 DEF RequestOK, Locked
    <3> DEFINE t == tx[v]
    <3>4. Presented(t)' /\ Stage(t)' /\ Live(t)'
      BY <3>1 DEF RequestOK, Presented, Stage, Live, Inserts
    <3>5. (\A s \in DOMAIN t.writes : WriteOK(t, s))'
      BY <3>1 DEF RequestOK, WriteOK, InsertOK, UpdateOK, Inserts
    <3>6. Sweeps(t)'
      BY <3>1 DEF RequestOK, Sweeps, View, Remaining
    <3> QED
      BY <3>1, <3>3, <3>4, <3>5, <3>6 DEF RequestOK
  <2> QED
    BY <2>1, <2>2
<1>4. WritesDisjoint'
  BY <1>1 DEF IInv, WritesDisjoint
<1>5. Rooted' /\ FamiliesAreChains' /\ RevocationReachesEverySession'
  BY DEF IInv, Rooted, FamiliesAreChains, RevocationReachesEverySession, Issued
<1> QED
  BY <1>1, <1>2, <1>3, <1>4, <1>5 DEF IInv

\* A request that ends without a commit releases its locks.
LEMMA CloseKeeps ==
    ASSUME IInv, NEW w \in Workers, Close(w), UNCHANGED <<session, epoch>>
    PROVE  IInv'
<1>1. /\ tx' = [tx EXCEPT ![w] = Idle]
      /\ lock' \in [Lockable -> Workers \cup {None}]
      /\ \A x \in Lockable : lock'[x] = IF lock[x] = w THEN None ELSE lock[x]
  BY DEF Close, IInv
<1>2. \A v \in Workers : v # None
  BY SessionsAssumption
<1> QED
  BY <1>1, <1>2, OwnStep

\* A request starts with nothing.
LEMMA BeginKeeps ==
    ASSUME IInv, NEW w \in Workers, Begin(w)
    PROVE  IInv'
<1>1. PICK kind \in Kinds, on \in Issued \cup {None}, account \in Accounts :
         /\ on # None <=> kind \in SessionKinds
         /\ on # None => session[on].account = account
         /\ tx' = [tx EXCEPT ![w] =
                [pc      |-> IF on = None THEN "account" ELSE "session",
                 kind    |-> kind, on |-> on, account |-> account,
                 plan    |-> <<>>, row |-> None, rest |-> {}, chosen |-> {},
                 writes  |-> <<>>, ends |-> FALSE]]
  BY DEF Begin
<1>2. tx[w].pc = "idle" /\ UNCHANGED <<session, epoch, lock>>
  BY DEF Begin
<1> DEFINE u == [pc      |-> IF on = None THEN "account" ELSE "session",
                 kind    |-> kind, on |-> on, account |-> account,
                 plan    |-> <<>>, row |-> None, rest |-> {}, chosen |-> {},
                 writes  |-> <<>>, ends |-> FALSE]
<1>3. <<>> \in Writings /\ DOMAIN <<>> = {}
  <2>1. <<>> \in [{} -> Row]
    OBVIOUS
  <2> QED
    BY <2>1 DEF Writings
<1>4. kind \in AllKinds /\ on \in Sessions \cup {None}
  BY SessionsAssumption DEF AllKinds, Issued
<1>5. u \in Request
  BY <1>3, <1>4 DEF Request, Steps, Early, Plans
<1>6. /\ u.pc \in {"session", "account"} /\ (u.pc = "session" => u.on # None) /\ (u.pc = "account" => u.on = None)
      /\ u.kind = kind /\ u.on = on /\ u.account = account /\ u.plan = <<>> /\ u.chosen = {}
      /\ DOMAIN u.writes = {} /\ u.ends = FALSE
  BY <1>3
<1> HIDE DEF u
<1>7. tx[w] = Idle
  BY <1>2 DEF IInv, Request, Steps, Early
<1>8. u # Idle
  BY <1>6 DEF Idle
<1>9. RequestOK(w, u)'
  <2>1. Presented(u)'
    BY <1>1, <1>2, <1>6, SessionsAssumption DEF Presented, Issued, SessionKinds, RefreshKinds
  <2>2. Stage(u)'
    BY <1>6 DEF Stage, Early
  <2>3. Locked(w, u)'
    BY <1>6 DEF Locked, Early
  <2>4. Live(u)'
    BY <1>1, <1>6 DEF Live, Inserts, SessionKinds, RefreshKinds, BearerKinds
  <2>5. (\A s \in DOMAIN u.writes : WriteOK(u, s))' /\ Sweeps(u)'
    BY <1>6 DEF Sweeps
  <2> QED
    BY <1>5, <2>1, <2>2, <2>3, <2>4, <2>5 DEF RequestOK
<1>10. \A x \in Lockable : lock[x] # w
  BY <1>7, SessionsAssumption DEF IInv
<1> QED
  BY <1>1, <1>2, <1>5, <1>6, <1>8, <1>9, OwnStep DEF u, IInv

\* What a request knows of the locks it finds.
LEMMA TakeLock ==
    ASSUME IInv, NEW w \in Workers, NEW x \in Lockable, Free(w, x), lock' = [lock EXCEPT ![x] = w]
    PROVE  /\ lock' \in [Lockable -> Workers \cup {None}]
           /\ lock'[x] = w
           /\ \A y \in Lockable, v \in Workers \ {w} : lock'[y] = v <=> lock[y] = v
           /\ \A y \in Lockable : lock[y] = w => lock'[y] = w
BY SessionsAssumption DEF IInv, Free

\* A request that locks the session it presented keeps the invariant.
LEMMA LockSessionKeeps ==
    ASSUME IInv, NEW w \in Workers, LockSession(w)
    PROVE  IInv'
<1> DEFINE t == tx[w]
<1>1. /\ t.pc = "session" /\ Free(w, t.on) /\ lock' = [lock EXCEPT ![t.on] = w]
      /\ UNCHANGED <<session, epoch>>
  BY DEF LockSession
<1>2. PICK u \in AfterSession(t) : tx' = [tx EXCEPT ![w] = u]
  BY DEF LockSession
<1>3. t \in Request /\ RequestOK(w, t)
  BY <1>1 DEF IInv, RequestsOK, Idle, RequestOK
<1>4. /\ t.on \in Sessions /\ t.on \in Lockable /\ session[t.on] # None
      /\ t.kind \in SessionKinds /\ session[t.on].account = t.account
      /\ DOMAIN t.writes = {} /\ t.plan = <<>> /\ t.chosen = {} /\ t.ends = FALSE
  BY <1>1, <1>3 DEF RequestOK, Presented, Stage, Early, Request, Lockable
<1>5. /\ lock' \in [Lockable -> Workers \cup {None}] /\ lock'[t.on] = w
      /\ \A y \in Lockable, v \in Workers \ {w} : lock'[y] = v <=> lock[y] = v
  BY <1>1, <1>4, TakeLock
<1>6. \/ u = Raise(t)
      \/ u = Respond(t) /\ t.kind \in RefreshKinds
      \/ u = [t EXCEPT !.pc = "account"] /\ session[t.on].status = "ACTIVE" /\ t.kind \in BearerKinds \cup {"REFRESH"}
      \/ u = Run(t, RecordReuse) /\ session[t.on].status = "ROTATED" /\ t.kind \in RefreshKinds
      \/ u \in {Run(t, RevokeActiveFamily), Run(t, RevokeActiveAccount)} /\ session[t.on].status = "ACTIVE"
         /\ t.kind \in {"LOGOUT", "LOGOUT_ALL"}
  BY <1>2, <1>4 DEF AfterSession, SessionKinds, BearerKinds, RefreshKinds
<1>7. /\ u \in Request
      /\ u.kind = t.kind /\ u.on = t.on /\ u.account = t.account /\ u.chosen = {}
      /\ DOMAIN u.writes = {} /\ u.ends = FALSE
      /\ \/ u.pc = "rollback" /\ u.plan = <<>>
         \/ u.pc = "commit" /\ u.plan = <<>> /\ t.kind \in RefreshKinds
         \/ /\ u.pc = "account" /\ session[t.on].status = "ACTIVE" /\ t.kind \in BearerKinds \cup {"REFRESH"}
            /\ u.plan = <<>>
         \/ u.pc = "snapshot" /\ u.plan = RecordReuse /\ session[t.on].status = "ROTATED" /\ t.kind \in RefreshKinds
         \/ u.pc = "snapshot" /\ u.plan \in {RevokeActiveFamily, RevokeActiveAccount}
            /\ session[t.on].status = "ACTIVE" /\ t.kind \in {"LOGOUT", "LOGOUT_ALL"}
  <2>1. {"rollback", "commit", "account"} \subseteq Steps
        /\ {RecordReuse, RevokeActiveFamily, RevokeActiveAccount} \subseteq Plans
    BY DEF Steps, Early, Plans
  <2> HIDE DEF t
  <2>2. CASE u = [t EXCEPT !.pc = "rollback"]
    BY <1>3, <1>4, <2>1, <2>2, MoveOn
  <2>3. CASE u = [t EXCEPT !.pc = "commit"] /\ t.kind \in RefreshKinds
    BY <1>3, <1>4, <2>1, <2>3, MoveOn
  <2>4. CASE /\ u = [t EXCEPT !.pc = "account"] /\ session[t.on].status = "ACTIVE"
             /\ t.kind \in BearerKinds \cup {"REFRESH"}
    BY <1>3, <1>4, <2>1, <2>4, MoveOn
  <2>5. ASSUME NEW plan \in Plans, u = Run(t, plan)
        PROVE  /\ u \in Request /\ u.pc = "snapshot" /\ u.plan = plan
               /\ u.kind = t.kind /\ u.on = t.on /\ u.account = t.account /\ u.chosen = {}
               /\ DOMAIN u.writes = {} /\ u.ends = FALSE
    BY <1>3, <1>4, <2>5, RunMoves
  <2> QED
    BY <1>6, <2>1, <2>2, <2>3, <2>4, <2>5 DEF Raise, Respond
<1> HIDE DEF t
<1>8. RequestOK(w, u)'
  <2>1. Presented(u)'
    BY <1>1, <1>4, <1>7, SessionsAssumption DEF Presented, BearerKinds
  <2>2. Stage(u)'
    BY <1>1, <1>4, <1>7, Statements DEF Stage, Early
  <2>3. Locked(w, u)'
    BY <1>5, <1>7, <1>4 DEF Locked, Early, RefreshKinds, BearerKinds, EndingKinds
  <2>4. Live(u)'
    BY <1>1, <1>7 DEF Live, Inserts, RefreshKinds, BearerKinds
  <2>5. (\A s \in DOMAIN u.writes : WriteOK(u, s))' /\ Sweeps(u)'
    BY <1>7 DEF Sweeps
  <2> QED
    BY <1>7, <2>1, <2>2, <2>3, <2>4, <2>5 DEF RequestOK
<1>9. u # Idle
  BY <1>7 DEF Idle
<1>10. /\ tx' = [tx EXCEPT ![w] = u] /\ UNCHANGED <<session, epoch>>
       /\ \A x \in Lockable, v \in Workers \ {w} : lock'[x] = v <=> lock[x] = v
  BY <1>1, <1>2, <1>5
<1>11. \A v \in Workers \ {w} : tx[v] # Idle => DOMAIN u.writes \cap DOMAIN tx[v].writes = {}
  BY <1>7
<1>12. u \in {Idle} \cup Request /\ lock' \in [Lockable -> Workers \cup {None}]
  BY <1>5, <1>7
<1> QED
  BY <1>8, <1>9, <1>10, <1>11, <1>12, OwnStep

\* Nobody else has written a row that is free.
LEMMA FreeRowIsUnwritten ==
    ASSUME IInv, NEW w \in Workers, NEW v \in Workers \ {w}, tx[v] # Idle,
           NEW s \in Sessions, session[s] # None, Free(w, s)
    PROVE  s \notin DOMAIN tx[v].writes
BY SessionsAssumption DEF IInv, RequestsOK, RequestOK, Locked, Free

\* A fresh identifier has no row, and nobody is writing one.
LEMMA FreshIsUnwritten ==
    ASSUME IInv, NEW s \in FreshIds
    PROVE  /\ s \in Sessions /\ session[s] = None
           /\ \A v \in Workers : tx[v] # Idle => s \notin DOMAIN tx[v].writes
<1>1. s \in Unused
  BY DEF FreshIds
<1>2. \A v \in Workers : tx[v] # Idle => tx[v].pc # "idle"
  BY DEF IInv, Request, Steps, Early
<1> QED
  BY <1>1, <1>2 DEF Unused, Drawn

\* What a request knows when it gets its account.
LEMMA AtAccount ==
    ASSUME IInv, NEW w \in Workers, tx[w].pc = "account"
    PROVE  /\ tx[w] \in Request /\ RequestOK(w, tx[w])
           /\ DOMAIN tx[w].writes = {} /\ tx[w].plan = <<>> /\ tx[w].chosen = {} /\ tx[w].ends = FALSE
           /\ tx[w].account \in Accounts /\ tx[w].account \in Lockable
           /\ tx[w].kind \in BearerKinds \cup {"REFRESH"} =>
                /\ tx[w].on \in Sessions /\ tx[w].on \in Lockable
                /\ session[tx[w].on] \in Row /\ session[tx[w].on] # None
                /\ session[tx[w].on].account = tx[w].account
                /\ session[tx[w].on].status = "ACTIVE"
                /\ session[tx[w].on].epoch = epoch[tx[w].account]
                /\ lock[tx[w].on] = w
                /\ View(tx[w])[tx[w].on] = session[tx[w].on]
<1>1. tx[w] # Idle /\ tx[w] \in Request /\ RequestOK(w, tx[w])
  BY DEF IInv, RequestsOK, RequestOK, Idle
<1>2. /\ DOMAIN tx[w].writes = {} /\ tx[w].plan = <<>> /\ tx[w].chosen = {} /\ tx[w].ends = FALSE
      /\ tx[w].account \in Accounts /\ tx[w].account \in Lockable
  BY <1>1 DEF RequestOK, Stage, Early, Request, Lockable
<1>3. ASSUME tx[w].kind \in BearerKinds \cup {"REFRESH"}
      PROVE  /\ tx[w].on \in Sessions /\ tx[w].on \in Lockable
             /\ session[tx[w].on] \in Row /\ session[tx[w].on] # None
             /\ session[tx[w].on].account = tx[w].account
             /\ session[tx[w].on].status = "ACTIVE"
             /\ session[tx[w].on].epoch = epoch[tx[w].account]
             /\ lock[tx[w].on] = w
             /\ View(tx[w])[tx[w].on] = session[tx[w].on]
  <2>1. tx[w].on \in Sessions /\ session[tx[w].on] # None /\ session[tx[w].on].account = tx[w].account
    BY <1>1, <1>3 DEF RequestOK, Presented, Request, SessionKinds, RefreshKinds
  <2>2. session[tx[w].on].status = "ACTIVE" /\ lock[tx[w].on] = w
    BY <1>1, <1>3, <2>1, SessionsAssumption DEF RequestOK, Live, Locked
  <2>3. session[tx[w].on] \in Row /\ session[tx[w].on].epoch = epoch[tx[w].account]
    BY <2>1, <2>2 DEF IInv, RevocationReachesEverySession, Issued
  <2>4. View(tx[w])[tx[w].on] = session[tx[w].on]
    BY <1>1, <1>2, <2>1, ViewReads
  <2> QED
    BY <2>1, <2>2, <2>3, <2>4 DEF Lockable
<1> QED
  BY <1>1, <1>2, <1>3

\* A request that locks its account and answers keeps the invariant.
LEMMA AnswerKeeps ==
    ASSUME IInv, NEW w \in Workers, tx[w].pc = "account", NEW pc \in {"commit", "rollback"},
           Free(w, tx[w].account), lock' = [lock EXCEPT ![tx[w].account] = w],
           tx' = [tx EXCEPT ![w] = [tx[w] EXCEPT !.pc = pc]], UNCHANGED <<session, epoch>>
    PROVE  IInv'
<1> DEFINE t == tx[w]
<1>1. /\ t \in Request /\ RequestOK(w, t) /\ t.account \in Lockable
      /\ DOMAIN t.writes = {} /\ t.plan = <<>> /\ t.chosen = {} /\ t.ends = FALSE
  BY AtAccount
<1>2. PICK u \in Request :
         /\ u = [t EXCEPT !.pc = pc]
         /\ u.pc = pc /\ u.kind = t.kind /\ u.on = t.on /\ u.account = t.account
         /\ u.plan = <<>> /\ u.chosen = {} /\ DOMAIN u.writes = {} /\ u.ends = FALSE
  <2>1. pc \in Steps
    BY DEF Steps, Early
  <2> DEFINE e == [t EXCEPT !.pc = pc]
  <2>2. /\ e \in Request /\ e.pc = pc /\ e.kind = t.kind /\ e.on = t.on /\ e.account = t.account
        /\ e.plan = t.plan /\ e.chosen = t.chosen /\ e.writes = t.writes /\ e.ends = t.ends
    BY <1>1, <2>1, MoveOn
  <2> HIDE DEF t
  <2> QED
    BY <1>1, <2>2
<1>3. /\ lock' \in [Lockable -> Workers \cup {None}] /\ lock'[t.account] = w
      /\ \A y \in Lockable, v \in Workers \ {w} : lock'[y] = v <=> lock[y] = v
      /\ \A y \in Lockable : lock[y] = w => lock'[y] = w
  BY <1>1, TakeLock
<1>4. tx' = [tx EXCEPT ![w] = u] /\ t.pc = "account"
  BY <1>2
<1> HIDE DEF t
<1>5. RequestOK(w, u)'
  <2>1. Presented(u)' /\ Stage(u)'
    BY <1>1, <1>2 DEF RequestOK, Presented, Stage, Early
  <2>2. Locked(w, u)'
    BY <1>1, <1>2, <1>3, <1>4 DEF RequestOK, Locked, Request, Lockable
  <2>3. Live(u)'
    BY <1>1, <1>2, <1>4 DEF RequestOK, Live, Inserts
  <2>4. (\A s \in DOMAIN u.writes : WriteOK(u, s))' /\ Sweeps(u)'
    BY <1>2 DEF Sweeps
  <2> QED
    BY <1>2, <2>1, <2>2, <2>3, <2>4 DEF RequestOK
<1>6. u # Idle
  BY <1>2 DEF Idle
<1>7. \A v \in Workers \ {w} : tx[v] # Idle => DOMAIN u.writes \cap DOMAIN tx[v].writes = {}
  BY <1>2
<1> QED
  BY <1>3, <1>4, <1>5, <1>6, <1>7, OwnStep

\* A request that locks its account may write the session it acts for and a
\* fresh one.
LEMMA ActKeeps ==
    ASSUME IInv, NEW w \in Workers, tx[w].pc = "account", NEW u \in Request,
           Free(w, tx[w].account), lock' = [lock EXCEPT ![tx[w].account] = w],
           tx' = [tx EXCEPT ![w] = u], UNCHANGED <<session, epoch>>,
           u.kind = tx[w].kind, u.on = tx[w].on, u.account = tx[w].account,
           \/ u.pc = "commit" /\ u.plan = <<>>
           \/ u.pc = "snapshot" /\ u.ends,
           Stage(u),
           \A s \in DOMAIN u.writes :
               /\ WriteOK(u, s)
               /\ IF session[s] = None THEN s \in FreshIds
                  ELSE s = u.on /\ u.kind \in BearerKinds \cup {"REFRESH"}
    PROVE  IInv'
<1> DEFINE t == tx[w]
<1>1. /\ t \in Request /\ RequestOK(w, t) /\ t.account \in Lockable
      /\ t.kind \in BearerKinds \cup {"REFRESH"} =>
            t.on \in Sessions /\ t.on \in Lockable /\ session[t.on] # None /\ lock[t.on] = w
            /\ session[t.on].status = "ACTIVE"
  BY AtAccount
<1>2. /\ lock' \in [Lockable -> Workers \cup {None}] /\ lock'[t.account] = w
      /\ \A y \in Lockable, v \in Workers \ {w} : lock'[y] = v <=> lock[y] = v
      /\ \A y \in Lockable : lock[y] = w => lock'[y] = w
  BY <1>1, TakeLock
<1>3. t.pc = "account" /\ u.kind = t.kind /\ u.on = t.on /\ u.account = t.account
  OBVIOUS
<1>4. \A v \in Workers \ {w} : tx[v] # Idle => DOMAIN u.writes \cap DOMAIN tx[v].writes = {}
  <2> SUFFICES ASSUME NEW v \in Workers \ {w}, tx[v] # Idle, NEW s \in DOMAIN u.writes
               PROVE  s \notin DOMAIN tx[v].writes
    OBVIOUS
  <2>1. CASE session[s] = None
    BY <2>1, FreshIsUnwritten
  <2>2. CASE session[s] # None
    BY <1>1, <1>3, <2>2, FreeRowIsUnwritten DEF Free
  <2> QED
    BY <2>1, <2>2
<1> HIDE DEF t
<1>5. RequestOK(w, u)'
  <2>1. Presented(u)' /\ Stage(u)'
    BY <1>1, <1>3 DEF RequestOK, Presented, Stage, Early
  <2>2. Locked(w, u)'
    <3>1. u.on # None /\ u.pc # "session" => lock'[u.on] = w
      BY <1>1, <1>2, <1>3 DEF RequestOK, Locked, Request, Lockable
    <3>2. \A s \in DOMAIN u.writes : lock'[IF session[s] = None THEN u.account ELSE s] = w
      BY <1>1, <1>2, <1>3
    <3> QED
      BY <1>2, <1>3, <3>1, <3>2 DEF Locked
  <2>3. Live(u)'
    BY <1>1, <1>3 DEF Live, Inserts
  <2>4. (\A s \in DOMAIN u.writes : WriteOK(u, s))'
    BY DEF WriteOK, InsertOK, UpdateOK, Inserts
  <2>5. Sweeps(u)'
    BY Statements DEF Sweeps, Stage
  <2> QED
    BY <2>1, <2>2, <2>3, <2>4, <2>5 DEF RequestOK
<1>6. u # Idle
  <2>1. u.pc # "idle"
    OBVIOUS
  <2> QED
    BY <2>1 DEF Idle
<1>7. tx' = [tx EXCEPT ![w] = u] /\ u \in {Idle} \cup Request
  OBVIOUS
<1>8. lock' \in [Lockable -> Workers \cup {None}]
      /\ (\A y \in Lockable, v \in Workers \ {w} : lock'[y] = v <=> lock[y] = v)
  BY <1>2
<1>9. (u = Idle => \A x \in Lockable : lock'[x] # w) /\ (u # Idle => RequestOK(w, u)')
  BY <1>5, <1>6
<1>10. u # Idle => \A v \in Workers \ {w} : tx[v] # Idle => DOMAIN u.writes \cap DOMAIN tx[v].writes = {}
  BY <1>4
<1> QED
  BY <1>7, <1>8, <1>9, <1>10, OwnStep

\* A row with another status.
LEMMA WithStatus ==
    ASSUME NEW row \in Row, NEW status \in Statuses
    PROVE  LET new == [row EXCEPT !.status = status] IN
           /\ new \in Row /\ new.status = status
           /\ new.account = row.account /\ new.parent = row.parent /\ new.family = row.family
           /\ new.epoch = row.epoch
BY DEF Row

\* A request that writes a row and answers.
LEMMA RespondWrites ==
    ASSUME NEW t \in Request, NEW s \in Sessions, NEW row \in Row
    PROVE  LET u == Respond(Write(t, s, row)) IN
           /\ u \in Request /\ u.pc = "commit"
           /\ DOMAIN u.writes = {s} \cup DOMAIN t.writes
           /\ \A r \in {s} \cup DOMAIN t.writes : u.writes[r] = IF r = s THEN row ELSE t.writes[r]
           /\ u.kind = t.kind /\ u.on = t.on /\ u.account = t.account
           /\ u.plan = t.plan /\ u.chosen = t.chosen /\ u.ends = t.ends
<1> DEFINE x == Write(t, s, row)
<1>1. /\ x \in Request
      /\ DOMAIN x.writes = {s} \cup DOMAIN t.writes
      /\ \A r \in {s} \cup DOMAIN t.writes : x.writes[r] = IF r = s THEN row ELSE t.writes[r]
      /\ x.kind = t.kind /\ x.on = t.on /\ x.account = t.account
      /\ x.plan = t.plan /\ x.chosen = t.chosen /\ x.ends = t.ends
  BY WriteAdds
<1>2. "commit" \in Steps
  BY DEF Steps
<1> HIDE DEF x
<1> QED
  BY <1>1, <1>2, MoveOn DEF Respond, x

\* A request that writes two rows and answers.
LEMMA RespondWritesTwo ==
    ASSUME NEW t \in Request, DOMAIN t.writes = {},
           NEW s \in Sessions, NEW row \in Row, NEW r \in Sessions \ {s}, NEW other \in Row
    PROVE  LET u == Respond(Write(Write(t, s, row), r, other)) IN
           /\ u \in Request /\ u.pc = "commit"
           /\ DOMAIN u.writes = {r, s} /\ u.writes[s] = row /\ u.writes[r] = other
           /\ u.kind = t.kind /\ u.on = t.on /\ u.account = t.account
           /\ u.plan = t.plan /\ u.chosen = t.chosen /\ u.ends = t.ends
<1> DEFINE x == Write(t, s, row)
           u == Respond(Write(x, r, other))
<1>1. /\ x \in Request
      /\ DOMAIN x.writes = {s} /\ x.writes[s] = row
      /\ x.kind = t.kind /\ x.on = t.on /\ x.account = t.account
      /\ x.plan = t.plan /\ x.chosen = t.chosen /\ x.ends = t.ends
  BY WriteAdds
<1> HIDE DEF x
<1>2. /\ u \in Request /\ u.pc = "commit"
      /\ DOMAIN u.writes = {r} \cup DOMAIN x.writes
      /\ \A q \in {r} \cup DOMAIN x.writes : u.writes[q] = IF q = r THEN other ELSE x.writes[q]
      /\ u.kind = x.kind /\ u.on = x.on /\ u.account = x.account
      /\ u.plan = x.plan /\ u.chosen = x.chosen /\ u.ends = x.ends
  BY <1>1, RespondWrites
<1> HIDE DEF u
<1> QED
  BY <1>1, <1>2 DEF u, x

\* Recording that the session has expired keeps the invariant.
LEMMA ExpiryKeeps ==
    ASSUME IInv, NEW w \in Workers, tx[w].pc = "account", tx[w].kind = "REFRESH",
           Free(w, tx[w].account), lock' = [lock EXCEPT ![tx[w].account] = w],
           tx' = [tx EXCEPT ![w] = Expiry(tx[w])], UNCHANGED <<session, epoch>>
    PROVE  IInv'
<1> DEFINE t   == tx[w]
           row == [session[t.on] EXCEPT !.status = "EXPIRED"]
           u   == Respond(Write(t, t.on, row))
<1>1. /\ t \in Request /\ t.on \in Sessions /\ session[t.on] \in Row /\ session[t.on].status = "ACTIVE"
      /\ DOMAIN t.writes = {} /\ t.plan = <<>> /\ t.chosen = {} /\ t.ends = FALSE
      /\ View(t)[t.on] = session[t.on] /\ session[t.on] # None
  BY AtAccount
<1>2. row \in Row /\ row.status = "EXPIRED" /\ row.account = session[t.on].account
      /\ row.parent = session[t.on].parent /\ row.family = session[t.on].family
      /\ row.epoch = session[t.on].epoch
  BY <1>1, WithStatus DEF Statuses
<1>3. tx' = [tx EXCEPT ![w] = u]
  BY <1>1 DEF Expiry
<1>4. /\ u \in Request /\ u.pc = "commit" /\ u.kind = t.kind /\ u.on = t.on /\ u.account = t.account
      /\ u.plan = <<>> /\ u.chosen = {} /\ u.ends = FALSE
      /\ DOMAIN u.writes = {t.on} /\ u.writes[t.on] = row
  <2> HIDE DEF row
  <2> QED
    BY <1>1, <1>2, RespondWrites
<1> HIDE DEF u, row
<1>5. Stage(u)
  BY <1>4 DEF Stage, Early
<1>6. \A s \in DOMAIN u.writes :
          /\ WriteOK(u, s)
          /\ IF session[s] = None THEN s \in FreshIds
             ELSE s = u.on /\ u.kind \in BearerKinds \cup {"REFRESH"}
  BY <1>1, <1>2, <1>4 DEF WriteOK, UpdateOK
<1>7. u.kind = tx[w].kind /\ u.on = tx[w].on /\ u.account = tx[w].account
  BY <1>4
<1>8. (u.pc = "commit" /\ u.plan = <<>>) \/ (u.pc = "snapshot" /\ u.ends)
  BY <1>4
<1>9. u \in Request
  BY <1>4
<1> QED
  BY <1>3, <1>5, <1>6, <1>7, <1>8, <1>9, ActKeeps

\* Logging in opens a family.
LEMMA LoginKeeps ==
    ASSUME IInv, NEW w \in Workers, tx[w].pc = "account", tx[w].kind = "LOGIN", NEW new \in FreshIds,
           Free(w, tx[w].account), lock' = [lock EXCEPT ![tx[w].account] = w],
           tx' = [tx EXCEPT ![w] = Login(tx[w], new)], UNCHANGED <<session, epoch>>
    PROVE  IInv'
<1> DEFINE t   == tx[w]
           row == NewSession(t.account, None, new, epoch[t.account])
           u   == Respond(Write(t, new, row))
<1>1. /\ t \in Request /\ t.account \in Accounts /\ new \in Sessions /\ session[new] = None
      /\ DOMAIN t.writes = {} /\ t.plan = <<>> /\ t.chosen = {} /\ t.ends = FALSE
  BY AtAccount, FreshIsUnwritten
<1>2. row \in Row /\ row.status = "ACTIVE" /\ row.account = t.account
      /\ row.parent = None /\ row.family = new /\ row.epoch = epoch[t.account]
  BY <1>1 DEF NewSession, Row, Statuses, IInv
<1>3. tx' = [tx EXCEPT ![w] = u]
  BY DEF Login
<1>4. /\ u \in Request /\ u.pc = "commit" /\ u.kind = t.kind /\ u.on = t.on /\ u.account = t.account
      /\ u.plan = <<>> /\ u.chosen = {} /\ u.ends = FALSE
      /\ DOMAIN u.writes = {new} /\ u.writes[new] = row
  <2> HIDE DEF row
  <2> QED
    BY <1>1, <1>2, RespondWrites
<1> HIDE DEF u, row
<1>5. Stage(u)
  BY <1>4 DEF Stage, Early
<1>6. \A s \in DOMAIN u.writes :
          /\ WriteOK(u, s)
          /\ IF session[s] = None THEN s \in FreshIds
             ELSE s = u.on /\ u.kind \in BearerKinds \cup {"REFRESH"}
  BY <1>1, <1>2, <1>4 DEF WriteOK, InsertOK
<1>7. u.kind = tx[w].kind /\ u.on = tx[w].on /\ u.account = tx[w].account
  BY <1>4
<1>8. (u.pc = "commit" /\ u.plan = <<>>) \/ (u.pc = "snapshot" /\ u.ends)
  BY <1>4
<1>9. u \in Request
  BY <1>4
<1> QED
  BY <1>3, <1>5, <1>6, <1>7, <1>8, <1>9, ActKeeps

\* Exchanging a session writes it and its child.
LEMMA RotationKeeps ==
    ASSUME IInv, NEW w \in Workers, tx[w].pc = "account", tx[w].kind = "REFRESH", NEW new \in FreshIds,
           Free(w, tx[w].account), lock' = [lock EXCEPT ![tx[w].account] = w],
           tx' = [tx EXCEPT ![w] = Rotation(tx[w], new)], UNCHANGED <<session, epoch>>
    PROVE  IInv'
<1> DEFINE t     == tx[w]
           old   == session[t.on]
           row   == [old EXCEPT !.status = "ROTATED"]
           child == NewSession(t.account, t.on, old.family, old.epoch)
           u     == Respond(Write(Write(t, t.on, row), new, child))
<1>1. /\ t \in Request /\ t.on \in Sessions /\ old \in Row /\ old.status = "ACTIVE" /\ old # None
      /\ old.epoch = epoch[t.account] /\ View(t)[t.on] = old
      /\ t.account \in Accounts /\ new \in Sessions /\ session[new] = None
      /\ DOMAIN t.writes = {} /\ t.plan = <<>> /\ t.chosen = {} /\ t.ends = FALSE
  BY AtAccount, FreshIsUnwritten
<1>2. row \in Row /\ row.status = "ROTATED" /\ row.account = old.account
      /\ row.parent = old.parent /\ row.family = old.family /\ row.epoch = old.epoch
  <2> HIDE DEF old
  <2> QED
    BY <1>1, WithStatus DEF Statuses
<1>3. child \in Row /\ child.status = "ACTIVE" /\ child.account = t.account
      /\ child.parent = t.on /\ child.family = old.family /\ child.epoch = epoch[t.account]
  <2> HIDE DEF old
  <2> QED
    BY <1>1 DEF NewSession, Row, Statuses
<1>4. tx' = [tx EXCEPT ![w] = Raise(t)] \/ tx' = [tx EXCEPT ![w] = u]
  BY <1>1 DEF Rotation
<1>5. /\ u \in Request /\ u.pc = "commit" /\ u.kind = t.kind /\ u.on = t.on /\ u.account = t.account
      /\ u.plan = <<>> /\ u.chosen = {} /\ u.ends = FALSE
      /\ DOMAIN u.writes = {new, t.on} /\ u.writes[new] = child /\ u.writes[t.on] = row
  <2>1. new \in Sessions \ {t.on}
    BY <1>1
  <2> HIDE DEF row, child, old, t
  <2>2. /\ u \in Request /\ u.pc = "commit"
        /\ DOMAIN u.writes = {new, t.on} /\ u.writes[t.on] = row /\ u.writes[new] = child
        /\ u.kind = t.kind /\ u.on = t.on /\ u.account = t.account
        /\ u.plan = t.plan /\ u.chosen = t.chosen /\ u.ends = t.ends
    BY <1>1, <1>2, <1>3, <2>1, RespondWritesTwo
  <2> HIDE DEF u
  <2> QED
    BY <1>1, <2>2
<1> HIDE DEF u, row, child
<1>7. Stage(u)
  BY <1>5 DEF Stage, Early
<1>8. \A s \in DOMAIN u.writes :
          /\ WriteOK(u, s)
          /\ IF session[s] = None THEN s \in FreshIds
             ELSE s = u.on /\ u.kind \in BearerKinds \cup {"REFRESH"}
  <2>1. WriteOK(u, new)
    BY <1>1, <1>2, <1>3, <1>5 DEF WriteOK, InsertOK
  <2>2. WriteOK(u, t.on)
    BY <1>1, <1>2, <1>5 DEF WriteOK, UpdateOK, Inserts
  <2> QED
    BY <1>1, <1>5, <2>1, <2>2
<1>9. u.kind = tx[w].kind /\ u.on = tx[w].on /\ u.account = tx[w].account
  BY <1>5
<1>10. (u.pc = "commit" /\ u.plan = <<>>) \/ (u.pc = "snapshot" /\ u.ends)
  BY <1>5
<1>11. u \in Request
  BY <1>5
<1>12. CASE tx' = [tx EXCEPT ![w] = u]
  BY <1>7, <1>8, <1>9, <1>10, <1>11, <1>12, ActKeeps
<1>13. CASE tx' = [tx EXCEPT ![w] = Raise(t)]
  BY <1>13, AnswerKeeps DEF Raise
<1> QED
  BY <1>4, <1>12, <1>13

\* A request that is about to revoke the sessions of its account.
LEMMA EndMoves ==
    ASSUME NEW t \in Request, NEW plan \in Plans
    PROVE  LET u == [Run(t, plan) EXCEPT !.ends = TRUE] IN
           /\ u \in Request /\ u.pc = "snapshot" /\ u.plan = plan /\ u.ends = TRUE
           /\ u.kind = t.kind /\ u.on = t.on /\ u.account = t.account
           /\ u.chosen = t.chosen /\ u.writes = t.writes
<1> DEFINE x == Run(t, plan)
<1>1. /\ x \in Request /\ x.pc = "snapshot" /\ x.plan = plan
      /\ x.kind = t.kind /\ x.on = t.on /\ x.account = t.account
      /\ x.chosen = t.chosen /\ x.writes = t.writes
  BY RunMoves
<1> HIDE DEF x
<1> QED
  BY <1>1, EndsMoves DEF x

\* Recovery and the end of a membership begin to revoke.
LEMMA EndAccountKeeps ==
    ASSUME IInv, NEW w \in Workers, tx[w].pc = "account", tx[w].kind \in EndingKinds,
           Free(w, tx[w].account), lock' = [lock EXCEPT ![tx[w].account] = w],
           tx' = [tx EXCEPT ![w] = EndAccount(tx[w])], UNCHANGED <<session, epoch>>
    PROVE  IInv'
<1> DEFINE t == tx[w]
           u == [Run(t, RevokeActiveAccount) EXCEPT !.ends = TRUE]
<1>1. t \in Request /\ DOMAIN t.writes = {} /\ t.chosen = {}
  BY AtAccount
<1>2. RevokeActiveAccount \in Plans
  BY DEF Plans
<1>3. tx' = [tx EXCEPT ![w] = u]
  BY DEF EndAccount
<1>4. /\ u \in Request /\ u.pc = "snapshot" /\ u.plan = RevokeActiveAccount /\ u.ends = TRUE
      /\ u.kind = t.kind /\ u.on = t.on /\ u.account = t.account
      /\ u.chosen = t.chosen /\ u.writes = t.writes
  BY <1>1, <1>2, EndMoves
<1> HIDE DEF u
<1>5. Stage(u)
  BY <1>1, <1>4, Statements DEF Stage, Early, Revocations, EndingKinds
<1>6. \A s \in DOMAIN u.writes :
          /\ WriteOK(u, s)
          /\ IF session[s] = None THEN s \in FreshIds
             ELSE s = u.on /\ u.kind \in BearerKinds \cup {"REFRESH"}
  BY <1>1, <1>4
<1>7. u.kind = tx[w].kind /\ u.on = tx[w].on /\ u.account = tx[w].account
  BY <1>4
<1>8. (u.pc = "commit" /\ u.plan = <<>>) \/ (u.pc = "snapshot" /\ u.ends)
  BY <1>4
<1>9. u \in Request
  BY <1>4
<1> QED
  BY <1>3, <1>5, <1>6, <1>7, <1>8, <1>9, ActKeeps

\* A password change keeps its session, in the new epoch, and begins to revoke.
LEMMA ChangePasswordKeeps ==
    ASSUME IInv, NEW w \in Workers, tx[w].pc = "account", tx[w].kind = "PASSWORD",
           Free(w, tx[w].account), lock' = [lock EXCEPT ![tx[w].account] = w],
           tx' = [tx EXCEPT ![w] = ChangePassword(tx[w])], UNCHANGED <<session, epoch>>
    PROVE  IInv'
<1> DEFINE t   == tx[w]
           old == session[t.on]
           row == [old EXCEPT !.epoch = epoch[t.account] + 1]
           x   == Write(t, t.on, row)
           u   == [Run(x, RevokeOthers) EXCEPT !.ends = TRUE]
<1>1. /\ t \in Request /\ t.on \in Sessions /\ old \in Row /\ old.status = "ACTIVE" /\ old # None
      /\ View(t)[t.on] = old /\ t.account \in Accounts
      /\ DOMAIN t.writes = {} /\ t.chosen = {}
  BY AtAccount DEF BearerKinds
<1>2. epoch[t.account] + 1 \in Nat
  BY <1>1 DEF IInv
<1>3. row \in Row /\ row.status = "ACTIVE" /\ row.account = old.account
      /\ row.parent = old.parent /\ row.family = old.family /\ row.epoch = epoch[t.account] + 1
  <2> HIDE DEF old
  <2> QED
    BY <1>1, <1>2 DEF Row
<1>4. RevokeOthers \in Plans
  BY DEF Plans
<1>5. tx' = [tx EXCEPT ![w] = u]
  BY <1>1 DEF ChangePassword
<1>6. /\ x \in Request /\ DOMAIN x.writes = {t.on} /\ x.writes[t.on] = row
      /\ x.kind = t.kind /\ x.on = t.on /\ x.account = t.account /\ x.chosen = t.chosen
  <2> HIDE DEF row, t
  <2> QED
    BY <1>1, <1>3, WriteAdds
<1>7. /\ u \in Request /\ u.pc = "snapshot" /\ u.plan = RevokeOthers /\ u.ends = TRUE
      /\ u.kind = x.kind /\ u.on = x.on /\ u.account = x.account
      /\ u.chosen = x.chosen /\ u.writes = x.writes
  <2> HIDE DEF x
  <2> QED
    BY <1>4, <1>6, EndMoves
<1> HIDE DEF u, x, row
<1>8. Stage(u)
  BY <1>1, <1>6, <1>7, Statements DEF Stage, Early, Revocations
<1>9. \A s \in DOMAIN u.writes :
          /\ WriteOK(u, s)
          /\ IF session[s] = None THEN s \in FreshIds
             ELSE s = u.on /\ u.kind \in BearerKinds \cup {"REFRESH"}
  BY <1>1, <1>3, <1>6, <1>7 DEF WriteOK, UpdateOK, BearerKinds
<1>10. u.kind = tx[w].kind /\ u.on = tx[w].on /\ u.account = tx[w].account
  BY <1>6, <1>7
<1>11. (u.pc = "commit" /\ u.plan = <<>>) \/ (u.pc = "snapshot" /\ u.ends)
  BY <1>7
<1>12. u \in Request
  BY <1>7
<1> QED
  BY <1>5, <1>8, <1>9, <1>10, <1>11, <1>12, ActKeeps

\* A request that locks its account keeps the invariant.
LEMMA LockAccountKeeps ==
    ASSUME IInv, NEW w \in Workers, LockAccount(w)
    PROVE  IInv'
<1> DEFINE t == tx[w]
<1>1. /\ t.pc = "account" /\ Free(w, t.account) /\ lock' = [lock EXCEPT ![t.account] = w]
      /\ UNCHANGED <<session, epoch>>
  BY DEF LockAccount
<1>2. PICK u \in AfterAccount(t) : tx' = [tx EXCEPT ![w] = u]
  BY DEF LockAccount
<1>3. t.kind \in {"REFRESH", "LOGIN", "USE", "PASSWORD"} \cup EndingKinds
  <2>1. t \in Request /\ RequestOK(w, t)
    BY <1>1, AtAccount
  <2>2. t.kind \notin {"LOGOUT", "LOGOUT_ALL"}
    BY <1>1, <2>1 DEF RequestOK, Presented
  <2> QED
    BY <2>1, <2>2 DEF Request, AllKinds, SessionKinds, BearerKinds, RefreshKinds
<1>4. ASSUME u \in {Respond(t), Raise(t)} PROVE IInv'
  BY <1>1, <1>2, <1>4, AnswerKeeps DEF Respond, Raise
<1>5. CASE t.kind = "REFRESH" /\ (u = Expiry(t) \/ \E s \in FreshIds : u = Rotation(t, s))
  BY <1>1, <1>2, <1>5, ExpiryKeeps, RotationKeeps
<1>6. CASE t.kind = "LOGIN" /\ \E s \in FreshIds : u = Login(t, s)
  BY <1>1, <1>2, <1>6, LoginKeeps
<1>7. CASE t.kind = "PASSWORD" /\ u = ChangePassword(t)
  BY <1>1, <1>2, <1>7, ChangePasswordKeeps
<1>8. CASE t.kind \in EndingKinds /\ u = EndAccount(t)
  BY <1>1, <1>2, <1>8, EndAccountKeeps
<1> QED
  BY <1>2, <1>3, <1>4, <1>5, <1>6, <1>7, <1>8 DEF AfterAccount, EndingKinds

-----------------------------------------------------------------------------
(* The statements that end sessions.                                       *)

\* Where a request goes when it has selected or reached a row.
LEMMA Advances ==
    ASSUME NEW t \in Request, t.plan # <<>>, NEW rest \in SUBSET Sessions, NEW u \in Advance(t, rest)
    PROVE  /\ u \in Request
           /\ u.kind = t.kind /\ u.on = t.on /\ u.account = t.account
           /\ u.chosen = t.chosen /\ u.writes = t.writes /\ u.ends = t.ends
           /\ \/ u.pc = "row" /\ u.plan = t.plan /\ u.row # None /\ Remaining(u) = rest
              \/ u.pc = "commit" /\ u.plan = t.plan /\ rest = {} /\ Remaining(u) = {}
              \/ u.pc = "snapshot" /\ t.plan = RecordReuse /\ u.plan = Tail(RecordReuse)
<1>1. t.plan \in {RevokeActiveFamily, RevokeActiveAccount, RevokeOthers, RecordReuse, Tail(RecordReuse)}
  BY DEF Request, Plans
<1>2. CASE rest # {}
  <2>1. PICK s \in rest : u = [t EXCEPT !.pc = "row", !.row = s, !.rest = rest \ {s}]
    BY <1>2 DEF Advance
  <2>2. s \in Sessions /\ rest \ {s} \in SUBSET Sessions /\ s # None
    BY SessionsAssumption
  <2>3. /\ u \in Request /\ u.pc = "row" /\ u.row = s /\ u.rest = rest \ {s}
        /\ u.kind = t.kind /\ u.on = t.on /\ u.account = t.account /\ u.plan = t.plan
        /\ u.chosen = t.chosen /\ u.writes = t.writes /\ u.ends = t.ends
    BY <2>1, <2>2 DEF Request, Steps
  <2>4. Remaining(u) = rest
    BY <2>3 DEF Remaining
  <2> QED
    BY <2>2, <2>3, <2>4
<1>3. CASE rest = {} /\ Len(t.plan) > 1
  <2>1. t.plan = RecordReuse
    <3>1. Len(t.plan) = 1 \/ t.plan = RecordReuse
      <4>1. CASE t.plan \in {RevokeActiveFamily, RevokeActiveAccount, RevokeOthers}
        BY <4>1, Statements
      <4>2. CASE t.plan = Tail(RecordReuse)
        <5>1. Len(Tail(RecordReuse)) = 1
          BY Statements
        <5> QED
          BY <4>2, <5>1
      <4> QED
        BY <1>1, <4>1, <4>2
    <3>2. ~(1 > 1)
      OBVIOUS
    <3> QED
      BY <1>3, <3>1, <3>2, Zenon
  <2>2. u = [t EXCEPT !.pc = "snapshot", !.plan = Tail(t.plan), !.row = None]
    BY <1>3 DEF Advance
  <2>3. Tail(t.plan) \in Plans
    BY <2>1 DEF Plans
  <2>4. /\ u \in Request /\ u.pc = "snapshot" /\ u.plan = Tail(t.plan)
        /\ u.kind = t.kind /\ u.on = t.on /\ u.account = t.account
        /\ u.chosen = t.chosen /\ u.writes = t.writes /\ u.ends = t.ends
    BY <2>2, <2>3 DEF Request, Steps
  <2> QED
    BY <2>1, <2>4
<1>4. CASE rest = {} /\ ~(Len(t.plan) > 1)
  <2>1. u = [t EXCEPT !.pc = "commit", !.row = None]
    BY <1>4 DEF Advance
  <2>2. /\ u \in Request /\ u.pc = "commit" /\ u.plan = t.plan
        /\ u.kind = t.kind /\ u.on = t.on /\ u.account = t.account
        /\ u.chosen = t.chosen /\ u.writes = t.writes /\ u.ends = t.ends
    BY <2>1 DEF Request, Steps
  <2> QED
    BY <1>4, <2>2 DEF Remaining
<1> QED
  BY <1>2, <1>3, <1>4

\* What a running statement finds: it rewrites a row at most once, and misses
\* none of those the revocation or the logout is about.
LEMMA WhileRunning ==
    ASSUME IInv, NEW w \in Workers, NEW t \in Request, RequestOK(w, t), t.pc \in {"snapshot", "row"}
    PROVE  /\ t.plan # <<>>
           /\ \A s \in DOMAIN t.writes : session[s] # None /\ UpdateOK(t, s)
           /\ \A s \in Sessions : Matches(t, s) =>
                 /\ session[s] \in Row /\ session[s] # None /\ s \notin DOMAIN t.writes
                 /\ \/ session[s].status = "ACTIVE" /\ Head(t.plan).to = "REVOKED"
                    \/ session[s].status = "ROTATED" /\ Head(t.plan).to = "REUSE_DETECTED"
           /\ t.ends => \A s \in Sessions :
                 View(t)[s] # None /\ View(t)[s].account = t.account /\ View(t)[s].status = "ACTIVE" =>
                     Matches(t, s) \/ (t.kind = "PASSWORD" /\ s = t.on)
           /\ t.kind \in {"LOGOUT", "LOGOUT_ALL"} /\ View(t)[t.on].status = "ACTIVE" => Matches(t, t.on)
<1>1. t.plan # <<>> /\ Stage(t) /\ Presented(t) /\ \A s \in DOMAIN t.writes : WriteOK(t, s)
  BY DEF RequestOK, Stage
<1>2. t.plan \in {RevokeActiveFamily, RevokeActiveAccount, RevokeOthers, RecordReuse, Tail(RecordReuse)}
  BY <1>1 DEF Request, Plans
<1>3. \A s \in DOMAIN t.writes : session[s] # None /\ UpdateOK(t, s)
  BY <1>1 DEF WriteOK, InsertOK
<1>4. ASSUME NEW s \in Sessions, Matches(t, s)
      PROVE  /\ session[s] \in Row /\ session[s] # None /\ s \notin DOMAIN t.writes
             /\ \/ session[s].status = "ACTIVE" /\ Head(t.plan).to = "REVOKED"
                \/ session[s].status = "ROTATED" /\ Head(t.plan).to = "REUSE_DETECTED"
  <2>1. /\ View(t)[s] # None /\ View(t)[s].status = Head(t.plan).from
        /\ Head(t.plan).scope = "OTHERS" => s # t.on
    BY <1>4 DEF Matches
  <2>2. \/ Head(t.plan).from = "ACTIVE" /\ Head(t.plan).to = "REVOKED"
        \/ Head(t.plan).from = "ROTATED" /\ Head(t.plan).to = "REUSE_DETECTED"
    BY <1>2, Statements
  <2>3. s \notin DOMAIN t.writes
    <3> SUFFICES ASSUME s \in DOMAIN t.writes PROVE FALSE
      OBVIOUS
    <3>1. View(t)[s] = t.writes[s]
      BY ViewReads
    <3>2. t.writes[s].status = "ACTIVE" /\ s = t.on /\ t.kind = "PASSWORD" /\ t.ends
      BY <1>1, <1>3, <2>1, <2>2, <3>1 DEF UpdateOK
    <3> QED
      BY <1>1, <2>1, <3>2, Statements DEF Stage
  <2>4. View(t)[s] = session[s]
    BY <2>3, ViewReads
  <2> QED
    BY <2>1, <2>2, <2>3, <2>4 DEF IInv
<1>5. ASSUME t.ends, NEW s \in Sessions,
             View(t)[s] # None, View(t)[s].account = t.account, View(t)[s].status = "ACTIVE"
      PROVE  Matches(t, s) \/ (t.kind = "PASSWORD" /\ s = t.on)
  <2>1. /\ Head(t.plan).from = "ACTIVE"
        /\ Head(t.plan).scope = IF t.kind = "PASSWORD" THEN "OTHERS" ELSE "ACCOUNT"
    BY <1>1, <1>5, Statements DEF Stage
  <2> QED
    BY <1>5, <2>1 DEF Matches
<1>6. ASSUME t.kind \in {"LOGOUT", "LOGOUT_ALL"}, View(t)[t.on].status = "ACTIVE"
      PROVE  Matches(t, t.on)
  <2>1. t.on \in Sessions /\ session[t.on] # None /\ session[t.on].account = t.account
    BY <1>1, <1>6 DEF Presented, Request, SessionKinds, RefreshKinds
  <2>2. /\ View(t)[t.on] # None /\ View(t)[t.on].account = t.account
        /\ session[t.on].status = "ACTIVE"
    <3>1. CASE t.on \in DOMAIN t.writes
      <4>1. View(t)[t.on] = t.writes[t.on] /\ t.writes[t.on] \in Row
        BY <2>1, <3>1, ViewReads, WritesAreRows
      <4>2. UpdateOK(t, t.on)
        BY <1>3, <3>1
      <4> QED
        BY <1>6, <2>1, <4>1, <4>2, SessionsAssumption DEF UpdateOK
    <3>2. CASE t.on \notin DOMAIN t.writes
      <4>1. View(t)[t.on] = session[t.on]
        BY <2>1, <3>2, ViewReads
      <4> QED
        BY <1>6, <2>1, <4>1
    <3> QED
      BY <3>1, <3>2
  <2>3. t.plan \in {RevokeActiveFamily, RevokeActiveAccount}
    BY <1>1, <1>6, <2>2 DEF Stage, Revocations, EndingKinds
  <2>4. Head(t.plan).from = "ACTIVE" /\ Head(t.plan).scope \in {"FAMILY", "ACCOUNT"}
    BY <2>3, Statements
  <2> QED
    BY <1>6, <2>2, <2>4 DEF Matches
<1> QED
  BY <1>1, <1>3, <1>4, <1>5, <1>6

\* A statement that selects or reaches a row keeps what its request has
\* promised, if it promises the rest.
LEMMA StillOK ==
    ASSUME IInv, NEW w \in Workers, NEW t \in Request, RequestOK(w, t), t.pc \in {"snapshot", "row"},
           UNCHANGED <<session, epoch>>,
           \A y \in Lockable : lock[y] = w => lock'[y] = w,
           NEW u \in Request,
           u.kind = t.kind, u.on = t.on, u.account = t.account, u.ends = t.ends,
           DOMAIN t.writes \subseteq DOMAIN u.writes,
           \/ u.pc \in {"row", "commit"} /\ u.plan = t.plan
           \/ u.pc = "snapshot" /\ t.plan = RecordReuse /\ u.plan = Tail(RecordReuse),
           u.pc = "row" => u.row # None,
           \A s \in DOMAIN u.writes : session[s] # None /\ lock'[s] = w /\ UpdateOK(u, s),
           u.pc \in {"row", "commit"} => Sweeps(u)
    PROVE  RequestOK(w, u)'
<1>1. t.plan # <<>> /\ Presented(t) /\ Stage(t) /\ Locked(w, t) /\ Live(t)
  BY WhileRunning DEF RequestOK
<1>2. u.plan # <<>>
  BY <1>1, Statements
<1>3. t.account \in Lockable /\ (t.on # None => t.on \in Lockable)
  BY DEF Request, Lockable
<1>4. Presented(u)'
  BY <1>1 DEF Presented
<1>5. Stage(u)'
  <2>1. CASE u.plan = t.plan
    BY <1>1, <1>2, <2>1 DEF Stage, Early
  <2>2. CASE t.plan = RecordReuse /\ u.plan = Tail(RecordReuse)
    <3>1. RecordReuse # RevokeOthers /\ RecordReuse # RevokeActiveAccount /\ RecordReuse # RevokeActiveFamily
      BY Statements
    <3> QED
      BY <1>1, <1>2, <2>2, <3>1 DEF Stage, Early
  <2> QED
    BY <2>1, <2>2
<1>6. Locked(w, u)'
  BY <1>1, <1>3 DEF Locked, Early
<1>7. Live(u)'
  BY <1>1 DEF Live, Inserts
<1>8. (\A s \in DOMAIN u.writes : WriteOK(u, s))'
  BY DEF WriteOK, UpdateOK, Inserts
<1>9. Sweeps(u)'
  BY DEF Sweeps, View
<1> QED
  BY <1>4, <1>5, <1>6, <1>7, <1>8, <1>9 DEF RequestOK

\* Selecting the rows of a statement keeps the invariant.
LEMMA SnapshotKeeps ==
    ASSUME IInv, NEW w \in Workers, Snapshot(w)
    PROVE  IInv'
<1> DEFINE t        == tx[w]
           matching == {s \in Sessions : Matches(t, s)}
           x        == [t EXCEPT !.chosen = matching]
<1>1. t.pc = "snapshot" /\ UNCHANGED <<session, epoch, lock>>
  BY DEF Snapshot
<1>2. PICK u \in Advance(x, matching) : tx' = [tx EXCEPT ![w] = u]
  BY DEF Snapshot
<1>3. t \in Request /\ RequestOK(w, t) /\ t # Idle
  BY <1>1 DEF IInv, RequestsOK, Idle, RequestOK
<1>4. t.plan # <<>> /\ \A s \in DOMAIN t.writes : session[s] # None /\ UpdateOK(t, s)
  BY <1>1, <1>3, WhileRunning
<1>5. /\ x \in Request /\ x.plan = t.plan /\ x.kind = t.kind /\ x.on = t.on /\ x.account = t.account
      /\ x.writes = t.writes /\ x.ends = t.ends
  BY <1>3 DEF Request
<1>6. matching \in SUBSET Sessions
  OBVIOUS
<1> HIDE DEF x, matching
<1>7. /\ u \in Request
      /\ u.kind = t.kind /\ u.on = t.on /\ u.account = t.account
      /\ u.writes = t.writes /\ u.ends = t.ends
      /\ \/ u.pc = "row" /\ u.plan = t.plan /\ u.row # None /\ Remaining(u) = matching
         \/ u.pc = "commit" /\ u.plan = t.plan /\ matching = {} /\ Remaining(u) = {}
         \/ u.pc = "snapshot" /\ t.plan = RecordReuse /\ u.plan = Tail(RecordReuse)
  BY <1>4, <1>5, <1>6, Advances
<1>8. View(u) = View(t)
  BY <1>7 DEF View
<1>9. u.pc \in {"row", "commit"} => Sweeps(u)
  <2> HAVE u.pc \in {"row", "commit"}
  <2>1. /\ t.ends => \A s \in Sessions :
            View(t)[s] # None /\ View(t)[s].account = t.account /\ View(t)[s].status = "ACTIVE" =>
               Matches(t, s) \/ (t.kind = "PASSWORD" /\ s = t.on)
        /\ t.kind \in {"LOGOUT", "LOGOUT_ALL"} /\ View(t)[t.on].status = "ACTIVE" => Matches(t, t.on)
    BY <1>1, <1>3, WhileRunning
  <2>2. Remaining(u) = matching
    BY <1>7
  <2>3. t.kind \in {"LOGOUT", "LOGOUT_ALL"} => t.on \in Sessions
    BY <1>3 DEF RequestOK, Presented, Request, SessionKinds, RefreshKinds
  <2> QED
    BY <1>7, <1>8, <2>1, <2>2, <2>3 DEF Sweeps, matching
<1>10. \A s \in DOMAIN u.writes : session[s] # None /\ lock'[s] = w /\ UpdateOK(u, s)
  <2>1. \A s \in DOMAIN t.writes : lock[s] = w
    BY <1>3, <1>4 DEF RequestOK, Locked
  <2>2. ASSUME NEW s \in DOMAIN t.writes, UpdateOK(t, s) PROVE UpdateOK(u, s)
    BY <1>4, <1>7, <2>2 DEF UpdateOK, Inserts
  <2> QED
    BY <1>1, <1>4, <1>7, <2>1, <2>2
<1>11. RequestOK(w, u)'
  <2>1. \/ u.pc \in {"row", "commit"} /\ u.plan = t.plan
        \/ u.pc = "snapshot" /\ t.plan = RecordReuse /\ u.plan = Tail(RecordReuse)
    BY <1>7
  <2>2. /\ u \in Request /\ u.kind = t.kind /\ u.on = t.on /\ u.account = t.account /\ u.ends = t.ends
        /\ DOMAIN t.writes \subseteq DOMAIN u.writes
        /\ u.pc = "row" => u.row # None
        /\ t.pc \in {"snapshot", "row"}
    BY <1>1, <1>7
  <2>3. \A y \in Lockable : lock[y] = w => lock'[y] = w
    BY <1>1
  <2> HIDE DEF t
  <2> QED
    BY <1>1, <1>3, <1>9, <1>10, <2>1, <2>2, <2>3, StillOK
<1>12. u \in {Idle} \cup Request /\ u # Idle
  BY <1>7 DEF Idle
<1>13. /\ lock' \in [Lockable -> Workers \cup {None}]
       /\ \A y \in Lockable, v \in Workers \ {w} : lock'[y] = v <=> lock[y] = v
  BY <1>1 DEF IInv
<1>14. u # Idle => \A v \in Workers \ {w} : tx[v] # Idle => DOMAIN u.writes \cap DOMAIN tx[v].writes = {}
  BY <1>3, <1>7 DEF IInv, WritesDisjoint
<1>15. (u = Idle => \A y \in Lockable : lock'[y] # w) /\ (u # Idle => RequestOK(w, u)')
  BY <1>11, <1>12
<1> QED
  BY <1>1, <1>2, <1>12, <1>13, <1>14, <1>15, OwnStep

\* A row that is reached need not be reached again.
LEMMA ReachedOK ==
    ASSUME IInv, NEW w \in Workers, NEW t \in Request, RequestOK(w, t), t.pc = "row",
           NEW u \in Request, u.pc \in {"row", "commit"},
           u.kind = t.kind, u.on = t.on, u.account = t.account, u.ends = t.ends, u.plan = t.plan,
           \A s \in Sessions \ {t.row} : View(u)[s] = View(t)[s],
           Matches(t, t.row) => View(u)[t.row].status # "ACTIVE",
           ~Matches(t, t.row) => View(u)[t.row] = View(t)[t.row],
           Remaining(u) = t.rest
    PROVE  Sweeps(u)
<1>1. Sweeps(t) /\ Remaining(t) = t.rest \cup {t.row} /\ t.row \in Sessions
  BY DEF RequestOK, Stage, Request, Remaining
<1>2. /\ t.plan # <<>>
      /\ t.ends => \A s \in Sessions :
            View(t)[s] # None /\ View(t)[s].account = t.account /\ View(t)[s].status = "ACTIVE" =>
               Matches(t, s) \/ (t.kind = "PASSWORD" /\ s = t.on)
      /\ t.kind \in {"LOGOUT", "LOGOUT_ALL"} /\ View(t)[t.on].status = "ACTIVE" => Matches(t, t.on)
  BY WhileRunning
<1>3. ASSUME t.ends, NEW s \in Sessions,
             View(u)[s] # None, View(u)[s].account = t.account, View(u)[s].status = "ACTIVE"
      PROVE  s \in Remaining(u) \/ (t.kind = "PASSWORD" /\ s = t.on)
  <2>1. View(u)[s] = View(t)[s] /\ (s = t.row => ~Matches(t, s))
    BY <1>3
  <2>2. s \in Remaining(t) \/ (t.kind = "PASSWORD" /\ s = t.on)
    BY <1>1, <1>3, <2>1 DEF Sweeps
  <2> QED
    BY <1>1, <1>2, <1>3, <2>1, <2>2
<1>4. ASSUME t.kind \in {"LOGOUT", "LOGOUT_ALL"}, View(u)[t.on].status = "ACTIVE"
      PROVE  t.on \in Remaining(u)
  <2>1. t.on \in Sessions
    BY <1>4 DEF RequestOK, Presented, Request, SessionKinds, RefreshKinds
  <2>2. View(u)[t.on] = View(t)[t.on] /\ (t.on = t.row => ~Matches(t, t.on))
    BY <1>4, <2>1
  <2>3. t.on \in Remaining(t)
    BY <1>1, <1>2, <1>4, <2>2 DEF Sweeps
  <2> QED
    BY <1>1, <1>2, <1>4, <2>2, <2>3
<1> QED
  BY <1>3, <1>4 DEF Sweeps

\* Writing a row that a statement selected, or leaving it, keeps the invariant.
LEMMA UpdateRowKeeps ==
    ASSUME IInv, NEW w \in Workers, UpdateRow(w)
    PROVE  IInv'
<1> DEFINE t   == tx[w]
           r   == t.row
           new == [View(t)[r] EXCEPT !.status = Head(t.plan).to]
           x   == IF Matches(t, r) THEN Write(t, r, new) ELSE t
<1>1. /\ t.pc = "row" /\ Free(w, r) /\ UNCHANGED <<session, epoch>>
      /\ lock' = IF Matches(t, r) THEN [lock EXCEPT ![r] = w] ELSE lock
  BY DEF UpdateRow
<1>2. PICK u \in Advance(x, t.rest) : tx' = [tx EXCEPT ![w] = u]
  BY DEF UpdateRow
<1>3. t \in Request /\ RequestOK(w, t) /\ t # Idle
  BY <1>1 DEF IInv, RequestsOK, Idle, RequestOK
<1>4. /\ t.plan # <<>>
      /\ \A s \in DOMAIN t.writes : session[s] # None /\ UpdateOK(t, s)
      /\ \A s \in Sessions : Matches(t, s) =>
            /\ session[s] \in Row /\ session[s] # None /\ s \notin DOMAIN t.writes
            /\ \/ session[s].status = "ACTIVE" /\ Head(t.plan).to = "REVOKED"
               \/ session[s].status = "ROTATED" /\ Head(t.plan).to = "REUSE_DETECTED"
  BY <1>1, <1>3, WhileRunning
<1>5. r \in Sessions /\ r \in Lockable /\ t.rest \in SUBSET Sessions
  BY <1>1, <1>3 DEF RequestOK, Stage, Request, Lockable
<1>6. ASSUME Matches(t, r)
      PROVE  /\ new \in Row /\ new.status \in {"REVOKED", "REUSE_DETECTED"}
             /\ new.status = "REVOKED" <=> session[r].status = "ACTIVE"
             /\ new.status = "REUSE_DETECTED" <=> session[r].status = "ROTATED"
             /\ new.account = session[r].account /\ new.parent = session[r].parent
             /\ new.family = session[r].family /\ new.epoch = session[r].epoch
  <2>1. session[r] \in Row /\ View(t)[r] = session[r] /\ Head(t.plan).to \in Statuses
    BY <1>3, <1>4, <1>5, <1>6, ViewReads DEF Statuses
  <2> QED
    BY <1>4, <1>5, <1>6, <2>1, WithStatus
<1>7. /\ x \in Request
      /\ x.kind = t.kind /\ x.on = t.on /\ x.account = t.account /\ x.plan = t.plan
      /\ x.ends = t.ends
      /\ Matches(t, r) => /\ DOMAIN x.writes = {r} \cup DOMAIN t.writes
                          /\ \A s \in DOMAIN x.writes : x.writes[s] = IF s = r THEN new ELSE t.writes[s]
      /\ ~Matches(t, r) => x.writes = t.writes
  <2> HIDE DEF new, r
  <2>1. CASE Matches(t, r)
    <3>1. x = Write(t, r, new)
      BY <2>1
    <3>2. t \in Request /\ r \in Sessions /\ new \in Row
      BY <1>3, <1>5, <1>6, <2>1
    <3> HIDE DEF x, t
    <3> QED
      BY <2>1, <3>1, <3>2, WriteAdds
  <2>2. CASE ~Matches(t, r)
    BY <1>3, <2>2
  <2> QED
    BY <2>1, <2>2
<1> HIDE DEF x, new
<1>8. /\ u \in Request
      /\ u.kind = t.kind /\ u.on = t.on /\ u.account = t.account
      /\ u.writes = x.writes /\ u.ends = t.ends
      /\ \/ u.pc = "row" /\ u.plan = t.plan /\ u.row # None /\ Remaining(u) = t.rest
         \/ u.pc = "commit" /\ u.plan = t.plan /\ t.rest = {} /\ Remaining(u) = {}
         \/ u.pc = "snapshot" /\ t.plan = RecordReuse /\ u.plan = Tail(RecordReuse)
  BY <1>4, <1>5, <1>7, Advances
<1>9. /\ lock' \in [Lockable -> Workers \cup {None}]
      /\ \A y \in Lockable, v \in Workers \ {w} : lock'[y] = v <=> lock[y] = v
      /\ \A y \in Lockable : lock[y] = w => lock'[y] = w
      /\ Matches(t, r) => lock'[r] = w
  <2>1. CASE Matches(t, r)
    BY <1>1, <1>5, <2>1, TakeLock
  <2>2. CASE ~Matches(t, r)
    BY <1>1, <2>2 DEF IInv
  <2> QED
    BY <2>1, <2>2
<1>10. \A s \in DOMAIN u.writes : session[s] # None /\ lock'[s] = w /\ UpdateOK(u, s)
  <2>1. ASSUME NEW s \in DOMAIN t.writes
        PROVE  session[s] # None /\ lock'[s] = w /\ UpdateOK(t, s) /\ s \in Sessions
    <3>1. session[s] # None /\ UpdateOK(t, s) /\ s \in Sessions /\ s \in Lockable
      BY <1>3, <1>4, WritesAreRows DEF Lockable
    <3>2. lock[s] = w
      BY <1>3, <3>1 DEF RequestOK, Locked
    <3> QED
      BY <1>9, <3>1, <3>2
  <2>2. ASSUME NEW s \in DOMAIN t.writes, u.writes[s] = t.writes[s] PROVE UpdateOK(u, s)
    BY <1>4, <1>8, <2>1, <2>2 DEF UpdateOK, Inserts
  <2>3. CASE Matches(t, r)
    <3>1. session[r] # None /\ lock'[r] = w /\ UpdateOK(u, r)
      BY <1>4, <1>5, <1>6, <1>7, <1>8, <1>9, <2>3 DEF UpdateOK
    <3>2. \A s \in DOMAIN t.writes : u.writes[s] = t.writes[s]
      BY <1>4, <1>5, <1>7, <1>8, <2>3
    <3> QED
      BY <1>7, <1>8, <2>1, <2>2, <2>3, <3>1, <3>2
  <2>4. CASE ~Matches(t, r)
    BY <1>7, <1>8, <2>1, <2>2, <2>4
  <2> QED
    BY <2>3, <2>4
<1>11. u.pc \in {"row", "commit"} => Sweeps(u)
  <2> HAVE u.pc \in {"row", "commit"}
  <2>1. /\ \A s \in Sessions \ {r} : View(u)[s] = View(t)[s]
        /\ Matches(t, r) => View(u)[r].status # "ACTIVE"
        /\ ~Matches(t, r) => View(u)[r] = View(t)[r]
    BY <1>3, <1>4, <1>5, <1>6, <1>7, <1>8, ViewReads
  <2>2. Remaining(u) = t.rest /\ u.plan = t.plan
    BY <1>8
  <2>3. /\ t \in Request /\ RequestOK(w, t) /\ t.pc = "row" /\ u \in Request
        /\ u.kind = t.kind /\ u.on = t.on /\ u.account = t.account /\ u.ends = t.ends
    BY <1>1, <1>3, <1>8
  <2> HIDE DEF t
  <2> QED
    BY <2>1, <2>2, <2>3, ReachedOK
<1>12. RequestOK(w, u)'
  <2>1. \/ u.pc \in {"row", "commit"} /\ u.plan = t.plan
        \/ u.pc = "snapshot" /\ t.plan = RecordReuse /\ u.plan = Tail(RecordReuse)
    BY <1>8
  <2>2. /\ u \in Request /\ u.kind = t.kind /\ u.on = t.on /\ u.account = t.account /\ u.ends = t.ends
        /\ DOMAIN t.writes \subseteq DOMAIN u.writes
        /\ u.pc = "row" => u.row # None
        /\ t.pc \in {"snapshot", "row"}
    BY <1>1, <1>7, <1>8
  <2>3. \A y \in Lockable : lock[y] = w => lock'[y] = w
    BY <1>9
  <2> HIDE DEF t
  <2> QED
    BY <1>1, <1>3, <1>10, <1>11, <2>1, <2>2, <2>3, StillOK
<1>13. u \in {Idle} \cup Request /\ u # Idle
  BY <1>8 DEF Idle
<1>14. u # Idle => \A v \in Workers \ {w} : tx[v] # Idle => DOMAIN u.writes \cap DOMAIN tx[v].writes = {}
  <2> SUFFICES ASSUME NEW v \in Workers \ {w}, tx[v] # Idle
               PROVE  DOMAIN u.writes \cap DOMAIN tx[v].writes = {}
    OBVIOUS
  <2>1. DOMAIN t.writes \cap DOMAIN tx[v].writes = {}
    BY <1>3 DEF IInv, WritesDisjoint
  <2>2. Matches(t, r) => r \notin DOMAIN tx[v].writes
    BY <1>1, <1>4, <1>5, FreeRowIsUnwritten
  <2> QED
    BY <1>7, <1>8, <2>1, <2>2
<1>15. /\ lock' \in [Lockable -> Workers \cup {None}]
       /\ \A y \in Lockable, v \in Workers \ {w} : lock'[y] = v <=> lock[y] = v
  BY <1>9
<1>16. (u = Idle => \A y \in Lockable : lock'[y] # w) /\ (u # Idle => RequestOK(w, u)')
  BY <1>12, <1>13
<1> QED
  BY <1>1, <1>2, <1>13, <1>14, <1>15, <1>16, OwnStep

-----------------------------------------------------------------------------
(* Commits.                                                                *)

\* What a commit changes: the rows the request wrote, and the era of its
\* account if it ends the sessions there.
LEMMA Committed ==
    ASSUME IInv, NEW w \in Workers, Commit(w)
    PROVE  /\ tx[w] \in Request /\ tx[w].pc = "commit" /\ RequestOK(w, tx[w])
           /\ session' \in [Sessions -> Row \cup {None}]
           /\ \A s \in Sessions \ DOMAIN tx[w].writes : session'[s] = session[s]
           /\ \A s \in DOMAIN tx[w].writes :
                 /\ s \in Sessions /\ session'[s] = tx[w].writes[s]
                 /\ session'[s] \in Row /\ session'[s] # None
                 /\ IF session[s] = None THEN InsertOK(tx[w], s) ELSE UpdateOK(tx[w], s)
           /\ epoch' \in [Accounts -> Nat]
           /\ ~tx[w].ends => epoch' = epoch
           /\ tx[w].ends => epoch'[tx[w].account] = epoch[tx[w].account] + 1
           /\ \A a \in Accounts : (tx[w].ends /\ a = tx[w].account) \/ epoch'[a] = epoch[a]
           /\ tx' = [tx EXCEPT ![w] = Idle]
           /\ lock' \in [Lockable -> Workers \cup {None}]
           /\ \A x \in Lockable : lock'[x] = IF lock[x] = w THEN None ELSE lock[x]
<1>1. tx[w].pc = "commit" /\ session' = View(tx[w])
  BY DEF Commit
<1>2. tx[w] \in Request /\ RequestOK(w, tx[w])
  BY <1>1 DEF IInv, RequestsOK, RequestOK, Idle
<1>3. /\ session \in [Sessions -> Row \cup {None}] /\ epoch \in [Accounts -> Nat]
      /\ lock \in [Lockable -> Workers \cup {None}]
  BY DEF IInv
<1>4. /\ DOMAIN tx[w].writes \subseteq Sessions
      /\ \A s \in DOMAIN tx[w].writes : tx[w].writes[s] \in Row /\ tx[w].writes[s] # None
  BY <1>2, WritesAreRows, SessionsAssumption
<1>5. /\ session' \in [Sessions -> Row \cup {None}]
      /\ \A s \in Sessions :
            session'[s] = IF s \in DOMAIN tx[w].writes THEN tx[w].writes[s] ELSE session[s]
  BY <1>1, <1>3, <1>4 DEF View
<1>6. \A s \in DOMAIN tx[w].writes : WriteOK(tx[w], s)
  BY <1>2 DEF RequestOK
<1>7. /\ epoch' \in [Accounts -> Nat]
      /\ ~tx[w].ends => epoch' = epoch
      /\ tx[w].ends => epoch'[tx[w].account] = epoch[tx[w].account] + 1
      /\ \A a \in Accounts : (tx[w].ends /\ a = tx[w].account) \/ epoch'[a] = epoch[a]
  <2>1. /\ tx[w].account \in Accounts
        /\ epoch' = IF tx[w].ends THEN [epoch EXCEPT ![tx[w].account] = epoch[tx[w].account] + 1] ELSE epoch
    BY <1>2 DEF Commit, Request
  <2> QED
    BY <1>3, <2>1
<1>8. /\ tx' = [tx EXCEPT ![w] = Idle]
      /\ lock' \in [Lockable -> Workers \cup {None}]
      /\ \A x \in Lockable : lock'[x] = IF lock[x] = w THEN None ELSE lock[x]
  BY <1>3 DEF Commit, Close
<1> QED
  BY <1>1, <1>2, <1>4, <1>5, <1>6, <1>7, <1>8 DEF WriteOK

\* A commit inserts at most one row: the root of a family, or the child of a
\* session that was ACTIVE until then.
LEMMA CommitInserts ==
    ASSUME IInv, NEW w \in Workers, Commit(w),
           NEW s \in DOMAIN tx[w].writes, session[s] = None
    PROVE  /\ ~tx[w].ends /\ lock[tx[w].account] = w
           /\ session'[s].account = tx[w].account /\ session'[s].status = "ACTIVE"
           /\ session'[s].epoch = epoch[tx[w].account]
           /\ \A r \in DOMAIN tx[w].writes : session[r] = None => r = s
           /\ \/ session'[s].parent = None /\ session'[s].family = s /\ tx[w].kind = "LOGIN"
              \/ /\ tx[w].on \in Sessions /\ session[tx[w].on] # None /\ tx[w].kind = "REFRESH"
                 /\ session[tx[w].on].status = "ACTIVE" /\ session'[tx[w].on].status = "ROTATED"
                 /\ session'[s].parent = tx[w].on
                 /\ session'[s].family = session[tx[w].on].family
<1>1. /\ tx[w] \in Request /\ RequestOK(w, tx[w]) /\ InsertOK(tx[w], s) /\ session'[s] = tx[w].writes[s]
      /\ \A r \in DOMAIN tx[w].writes : session'[r] = tx[w].writes[r]
  BY Committed
<1>2. ~tx[w].ends /\ lock[tx[w].account] = w
  BY <1>1, Statements DEF RequestOK, Stage, Locked, InsertOK
<1>3. tx[w].kind = "REFRESH" =>
         tx[w].on \in Sessions /\ session[tx[w].on] # None /\ session[tx[w].on].status = "ACTIVE"
  BY <1>1 DEF RequestOK, Presented, Live, Inserts, Request, SessionKinds, RefreshKinds
<1> QED
  BY <1>1, <1>2, <1>3 DEF InsertOK

\* A commit rewrites rows in place: it ends, exchanges or condemns them, and
\* only the session that changed the password stays ACTIVE, in a new era.
LEMMA CommitUpdates ==
    ASSUME IInv, NEW w \in Workers, Commit(w),
           NEW s \in DOMAIN tx[w].writes, session[s] # None
    PROVE  /\ lock[s] = w
           /\ session'[s].account = session[s].account
           /\ session'[s].parent = session[s].parent
           /\ session'[s].family = session[s].family
           /\ \/ session[s].status = "ACTIVE" /\ session'[s].status \in {"REVOKED", "EXPIRED"}
              \/ session[s].status = "ROTATED" /\ session'[s].status = "REUSE_DETECTED"
              \/ /\ session[s].status = "ACTIVE" /\ session'[s].status = "ROTATED"
                 /\ s = tx[w].on /\ tx[w].kind = "REFRESH" /\ Inserts(tx[w])
              \/ /\ session[s].status = "ACTIVE" /\ session'[s].status = "ACTIVE"
                 /\ session'[s].epoch = epoch[tx[w].account] + 1
                 /\ s = tx[w].on /\ session[s].account = tx[w].account
                 /\ tx[w].ends
<1>1. tx[w] \in Request /\ RequestOK(w, tx[w]) /\ UpdateOK(tx[w], s) /\ session'[s] = tx[w].writes[s] /\ s # None
  BY Committed, SessionsAssumption
<1>2. lock[s] = w
  BY <1>1 DEF RequestOK, Locked
<1>3. s = tx[w].on => session[s].account = tx[w].account
  BY <1>1 DEF RequestOK, Presented
<1> QED
  BY <1>1, <1>2, <1>3 DEF UpdateOK

\* A request that ends sessions inserts none, and holds the account.
LEMMA EndsHolds ==
    ASSUME NEW w \in Workers, NEW t, RequestOK(w, t), t.ends
    PROVE  /\ lock[t.account] = w
           /\ \A s \in DOMAIN t.writes : session[s] # None
<1>1. t.plan # <<>> /\ t.kind \in BearerKinds \cup EndingKinds /\ t.pc \notin Early
  BY Statements DEF RequestOK, Stage, Revocations, BearerKinds
<1> QED
  BY <1>1 DEF RequestOK, Locked, WriteOK, InsertOK

\* Rows stay rooted.
LEMMA CommitRoots ==
    ASSUME IInv, NEW w \in Workers, Commit(w)
    PROVE  Rooted' /\ Issued \subseteq Issued'
<1>1. Issued \subseteq Issued'
  BY Committed DEF Issued
<1>2. ASSUME NEW s \in Issued'
      PROVE  session'[s].family \in Issued' /\ session'[s].parent \in Issued' \cup {None}
  <2>1. s \in Sessions /\ session'[s] # None
    BY <1>2 DEF Issued
  <2>2. CASE session[s] # None
    <3>1. session'[s].family = session[s].family /\ session'[s].parent = session[s].parent
      BY <2>1, <2>2, Committed, CommitUpdates
    <3>2. session[s].family \in Issued /\ session[s].parent \in Issued \cup {None}
      BY <2>1, <2>2 DEF IInv, Rooted, Issued
    <3> QED
      BY <1>1, <3>1, <3>2
  <2>3. CASE session[s] = None
    <3>1. s \in DOMAIN tx[w].writes
      BY <2>1, <2>3, Committed
    <3>2. CASE session'[s].parent = None /\ session'[s].family = s
      BY <1>2, <3>2
    <3>3. CASE /\ tx[w].on \in Sessions /\ session[tx[w].on] # None
               /\ session'[s].parent = tx[w].on
               /\ session'[s].family = session[tx[w].on].family
      <4>1. tx[w].on \in Issued /\ session[tx[w].on].family \in Issued
        BY <3>3 DEF IInv, Rooted, Issued
      <4> QED
        BY <1>1, <3>3, <4>1
    <3> QED
      BY <2>3, <3>1, <3>2, <3>3, CommitInserts
  <2> QED
    BY <2>2, <2>3
<1> QED
  BY <1>1, <1>2 DEF Rooted

\* The child of the session a commit exchanges is the only new row of the
\* family, and its parent the only ACTIVE row that leaves it.
LEMMA CommitChains ==
    ASSUME IInv, NEW w \in Workers, Commit(w)
    PROVE  FamiliesAreChains'
<1>1. /\ \A s \in Issued' : s \in Sessions /\ session'[s] # None
      /\ \A s \in Issued' : session[s] # None => s \in Issued
      /\ \A s \in Issued' : session[s] = None => s \in DOMAIN tx[w].writes
      /\ \A s \in Issued : session[s] # None /\ s \in Sessions
      /\ Issued \subseteq Issued'
  BY Committed, CommitRoots DEF Issued
<1>2. \A s \in Issued :
         /\ session'[s].family = session[s].family /\ session'[s].parent = session[s].parent
         /\ session'[s].status = "ACTIVE" => session[s].status = "ACTIVE"
  BY <1>1, Committed, CommitUpdates
<1>3. \A s \in Issued : session[s].family \in Issued /\ session[s].parent \in Issued \cup {None}
  BY DEF IInv, Rooted
<1>4. None \notin Sessions
  BY SessionsAssumption
<1>5. ASSUME NEW r \in Issued', NEW s \in Issued', session'[r].family = session'[s].family,
             session'[r].status = "ACTIVE", session'[s].status = "ACTIVE"
      PROVE  r = s
  <2>1. CASE session[r] # None /\ session[s] # None
    BY <1>1, <1>2, <1>5, <2>1 DEF IInv, FamiliesAreChains
  <2>2. CASE session[r] = None /\ session[s] = None
    BY <1>1, <2>2, CommitInserts
  <2>3. ASSUME NEW new \in Issued', NEW old \in Issued', session[new] = None, session[old] # None,
               session'[new].family = session'[old].family, session'[old].status = "ACTIVE"
        PROVE  FALSE
    <3>1. old \in Issued /\ session[old].status = "ACTIVE" /\ session[old].family = session'[new].family
      BY <1>1, <1>2, <2>3
    <3>2. new \in DOMAIN tx[w].writes
      BY <1>1, <2>3
    <3>3. CASE session'[new].family = new
      BY <1>1, <1>3, <2>3, <3>1, <3>3
    <3>4. CASE /\ tx[w].on \in Sessions /\ session[tx[w].on] # None
               /\ session[tx[w].on].status = "ACTIVE" /\ session'[tx[w].on].status = "ROTATED"
               /\ session'[new].family = session[tx[w].on].family
      <4>1. tx[w].on \in Issued /\ tx[w].on = old
        BY <3>1, <3>4 DEF IInv, FamiliesAreChains, Issued
      <4> QED
        BY <2>3, <3>4, <4>1
    <3> QED
      BY <2>3, <3>2, <3>3, <3>4, CommitInserts
  <2> QED
    BY <1>5, <2>1, <2>2, <2>3
<1>6. ASSUME NEW s \in Issued'
      PROVE  LET children == {c \in Issued' : session'[c].parent = s} IN
             /\ session'[s].status \in {"ROTATED", "REUSE_DETECTED"} <=> children # {}
             /\ \A c, d \in children : c = d
             /\ \A c \in children : session'[c].family = session'[s].family
  <2> DEFINE before == {c \in Issued : session[c].parent = s}
             after  == {c \in Issued' : session'[c].parent = s}
  <2>1. /\ before \subseteq after
        /\ \A c \in after : session[c] # None => c \in before
    BY <1>1, <1>2
  <2>2. s \in Sessions
    BY <1>1
  <2>3. CASE session[s] = None
    <3>1. s \in DOMAIN tx[w].writes /\ s \notin Issued
      BY <1>1, <2>3
    <3>2. session'[s].status = "ACTIVE" /\ session'[s].parent # s
          /\ (\A c \in DOMAIN tx[w].writes : session[c] = None => c = s)
      BY <1>4, <2>2, <2>3, <3>1, CommitInserts
    <3>3. before = {}
      BY <1>3, <2>2, <1>4, <3>1
    <3>4. after = {}
      BY <1>1, <2>1, <3>2, <3>3
    <3> QED
      BY <3>2, <3>4
  <2>4. CASE session[s] # None
    <3>1. /\ s \in Issued
          /\ session[s].status \in {"ROTATED", "REUSE_DETECTED"} <=> before # {}
          /\ \A c, d \in before : c = d
          /\ \A c \in before : session[c].family = session[s].family
      BY <1>1, <2>4 DEF IInv, FamiliesAreChains
    <3>2. CASE \E new \in after : session[new] = None
      <4>1. PICK new \in after : session[new] = None
        BY <3>2
      <4>2. /\ new \in DOMAIN tx[w].writes /\ new \in Issued' /\ session'[new].parent = s
        BY <1>1, <4>1
      <4>3. /\ s = tx[w].on /\ session[s].status = "ACTIVE" /\ session'[s].status = "ROTATED"
            /\ session'[new].family = session[s].family
            /\ \A c \in DOMAIN tx[w].writes : session[c] = None => c = new
        BY <1>4, <2>2, <4>1, <4>2, CommitInserts
      <4>4. before = {}
        BY <3>1, <4>3
      <4>5. after = {new}
        BY <1>1, <2>1, <4>1, <4>3, <4>4
      <4> QED
        BY <1>2, <3>1, <4>3, <4>5
    <3>3. CASE \A c \in after : session[c] # None
      <4>1. after = before
        BY <2>1, <3>3
      <4>2. session'[s].status \in {"ROTATED", "REUSE_DETECTED"}
               <=> session[s].status \in {"ROTATED", "REUSE_DETECTED"}
        <5>1. CASE s \notin DOMAIN tx[w].writes
          BY <2>2, <5>1, Committed
        <5>2. CASE s \in DOMAIN tx[w].writes /\ Inserts(tx[w]) /\ s = tx[w].on /\ tx[w].kind = "REFRESH"
          <6>1. PICK new \in DOMAIN tx[w].writes : session[new] = None
            BY <5>2 DEF Inserts
          <6>2. session'[new].parent = s \/ tx[w].kind = "LOGIN"
            BY <5>2, <6>1, CommitInserts
          <6>3. new \in Issued'
            BY <6>1, Committed DEF Issued
          <6> QED
            BY <3>3, <5>2, <6>1, <6>2, <6>3
        <5>3. CASE s \in DOMAIN tx[w].writes
                   /\ ~(Inserts(tx[w]) /\ s = tx[w].on /\ tx[w].kind = "REFRESH")
          BY <2>4, <5>3, CommitUpdates
        <5> QED
          BY <5>1, <5>2, <5>3
      <4>3. \A c \in after : session'[c].family = session'[s].family
        BY <1>2, <3>1, <4>1
      <4> QED
        BY <3>1, <4>1, <4>2, <4>3
    <3> QED
      BY <3>2, <3>3
  <2> QED
    BY <2>3, <2>4
<1> QED
  BY <1>5, <1>6 DEF FamiliesAreChains

\* A commit that ends the sessions of an account ends all of them but the one
\* that is kept; any other commit leaves the era of the account alone.
LEMMA CommitRevokes ==
    ASSUME IInv, NEW w \in Workers, Commit(w)
    PROVE  RevocationReachesEverySession'
<1> SUFFICES ASSUME NEW s \in Issued', session'[s].status = "ACTIVE"
             PROVE  session'[s].epoch = epoch'[session'[s].account]
  BY DEF RevocationReachesEverySession
<1>1. s \in Sessions /\ session'[s] # None
  BY DEF Issued
<1>2. tx[w] \in Request /\ tx[w].pc = "commit" /\ RequestOK(w, tx[w]) /\ tx[w].account \in Accounts
  BY Committed DEF Request
<1>3. CASE session[s] = None
  BY <1>1, <1>2, <1>3, Committed, CommitInserts
<1>4. CASE session[s] # None /\ s \in DOMAIN tx[w].writes
  <2>1. /\ session'[s].epoch = epoch[tx[w].account] + 1 /\ session'[s].account = tx[w].account
        /\ tx[w].ends
    BY <1>4, CommitUpdates
  <2> QED
    BY <2>1, Committed
<1>5. CASE session[s] # None /\ s \notin DOMAIN tx[w].writes
  <2>1. session'[s] = session[s] /\ session[s] \in Row
    BY <1>1, <1>5, Committed DEF IInv
  <2>2. session[s].epoch = epoch[session[s].account] /\ session[s].account \in Accounts
    BY <1>1, <1>5, <2>1 DEF IInv, RevocationReachesEverySession, Issued, Row
  <2>3. ~(tx[w].ends /\ session[s].account = tx[w].account)
    <3> SUFFICES ASSUME tx[w].ends, session[s].account = tx[w].account PROVE FALSE
      OBVIOUS
    <3>1. View(tx[w])[s] = session[s]
      BY <1>1, <1>2, <1>5, ViewReads
    <3>2. Remaining(tx[w]) = {}
      BY <1>2 DEF Remaining
    <3>3. tx[w].kind = "PASSWORD" /\ s = tx[w].on
      BY <1>1, <1>2, <1>5, <2>1, <3>1, <3>2 DEF RequestOK, Sweeps
    <3> QED
      BY <1>2, <1>5, <3>3 DEF RequestOK, Stage
  <2> QED
    BY <2>1, <2>2, <2>3, Committed
<1> QED
  BY <1>3, <1>4, <1>5

\* The rows another request presented and wrote are not those of a commit, nor
\* is the account it holds.
LEMMA CommitSpares ==
    ASSUME IInv, NEW w \in Workers, Commit(w),
           NEW v \in Workers \ {w}, NEW u \in Request, u = tx[v], RequestOK(v, u)
    PROVE  /\ \A s \in DOMAIN u.writes : s \in Sessions /\ session'[s] = session[s]
           /\ u.on # None => /\ session'[u.on] # None
                             /\ session'[u.on].account = session[u.on].account
           /\ u.on # None /\ u.pc # "session" => session'[u.on] = session[u.on]
           /\ \A x \in Lockable : lock[x] = v => lock'[x] = v
           /\ lock[u.account] = v => epoch'[u.account] = epoch[u.account]
           /\ lock[u.account] = v /\ (tx[w].ends \/ Inserts(tx[w])) => tx[w].account # u.account
<1>1. tx[w] \in Request /\ RequestOK(w, tx[w]) /\ tx[w].pc = "commit" /\ u # Idle /\ tx[w] # Idle
  BY Committed DEF Request, Idle, Steps, Early
<1>2. ASSUME NEW s \in DOMAIN u.writes PROVE s \in Sessions /\ session'[s] = session[s]
  <2>1. s \in Sessions /\ s \notin DOMAIN tx[w].writes
    BY <1>1, WritesAreRows DEF IInv, WritesDisjoint
  <2> QED
    BY <2>1, Committed
<1>3. ASSUME u.on # None
      PROVE  /\ session'[u.on] # None
             /\ session'[u.on].account = session[u.on].account
             /\ u.pc # "session" => session'[u.on] = session[u.on]
  <2>1. u.on \in Sessions /\ session[u.on] # None
    BY <1>3 DEF RequestOK, Presented, Request
  <2>2. CASE u.on \notin DOMAIN tx[w].writes
    BY <2>1, <2>2, Committed
  <2>3. CASE u.on \in DOMAIN tx[w].writes
    <3>1. lock[u.on] = w /\ session'[u.on].account = session[u.on].account /\ session'[u.on] # None
      BY <2>1, <2>3, Committed, CommitUpdates
    <3>2. u.pc # "session" => lock[u.on] = v
      BY <1>3 DEF RequestOK, Locked
    <3> QED
      BY <3>1, <3>2
  <2> QED
    BY <2>2, <2>3
<1>4. \A x \in Lockable : lock[x] = v => lock'[x] = v
  BY Committed
<1>5. (tx[w].ends \/ Inserts(tx[w])) => lock[tx[w].account] = w
  BY <1>1, EndsHolds, CommitInserts DEF Inserts
<1>6. u.account \in Accounts
  BY DEF Request
<1>7. lock[u.account] = v => epoch'[u.account] = epoch[u.account]
  BY <1>5, <1>6, Committed
<1> QED
  BY <1>2, <1>3, <1>4, <1>5, <1>7

\* A commit disturbs no other request.
LEMMA CommitOthers ==
    ASSUME IInv, NEW w \in Workers, Commit(w),
           NEW v \in Workers \ {w}, NEW u \in Request, u = tx[v], RequestOK(v, u)
    PROVE  RequestOK(v, u)'
<1>1. /\ \A s \in DOMAIN u.writes : s \in Sessions /\ session'[s] = session[s]
      /\ u.on # None => /\ session'[u.on] # None
                        /\ session'[u.on].account = session[u.on].account
      /\ u.on # None /\ u.pc # "session" => session'[u.on] = session[u.on]
      /\ \A x \in Lockable : lock[x] = v => lock'[x] = v
      /\ lock[u.account] = v => epoch'[u.account] = epoch[u.account]
      /\ lock[u.account] = v /\ (tx[w].ends \/ Inserts(tx[w])) => tx[w].account # u.account
  BY CommitSpares
<1>2. Inserts(u)' <=> Inserts(u)
  BY <1>1 DEF Inserts
<1>3. Presented(u)'
  BY <1>1 DEF RequestOK, Presented
<1>4. u.plan # <<>> \/ DOMAIN u.writes # {} \/ u.ends => u.pc \notin Early
  BY DEF RequestOK, Stage
<1>5. u.kind \in SessionKinds => u.on # None
  BY DEF RequestOK, Presented
<1>6. Stage(u)'
  <2>1. u.plan # <<>> /\ ~u.ends => u.on # None /\ u.pc # "session"
    BY <1>4, <1>5 DEF RequestOK, Stage, SessionKinds, RefreshKinds, Early
  <2>2. u.plan # <<>> /\ ~u.ends => session'[u.on] = session[u.on]
    BY <1>1, <2>1
  <2> QED
    BY <2>2 DEF RequestOK, Stage
<1>7. Locked(v, u)'
  <2>1. u.account \in Lockable /\ (u.on # None => u.on \in Lockable) /\ DOMAIN u.writes \subseteq Lockable
    BY <1>1 DEF Request, Lockable
  <2>2. Locked(v, u)
    BY DEF RequestOK
  <2> QED
    BY <1>1, <2>1, <2>2 DEF Locked
<1>8. Live(u)'
  <2>1. \/ u.kind \in BearerKinds /\ u.pc \notin {"session", "rollback"}
        \/ u.kind = "REFRESH" /\ (u.pc = "account" \/ Inserts(u))
        => u.on # None /\ u.pc # "session"
    BY <1>4, <1>5 DEF Inserts, SessionKinds, RefreshKinds, Early
  <2> QED
    BY <1>1, <1>2, <2>1 DEF RequestOK, Live
<1>9. (\A s \in DOMAIN u.writes : WriteOK(u, s))'
  <2> SUFFICES ASSUME NEW s \in DOMAIN u.writes PROVE WriteOK(u, s)'
    OBVIOUS
  <2>1. session'[s] = session[s] /\ WriteOK(u, s)
    BY <1>1 DEF RequestOK
  <2>2. CASE session[s] = None
    <3>1. InsertOK(u, s) /\ lock[u.account] = v
      BY <2>1, <2>2 DEF WriteOK, RequestOK, Locked
    <3>2. u.kind = "REFRESH" => session'[u.on] = session[u.on]
      BY <1>1, <1>5, <3>1 DEF InsertOK, SessionKinds, RefreshKinds
    <3>3. epoch'[u.account] = epoch[u.account]
      BY <1>1, <3>1
    <3>4. InsertOK(u, s)'
      BY <3>1, <3>2, <3>3 DEF InsertOK
    <3> QED
      BY <2>1, <2>2, <3>4 DEF WriteOK
  <2>3. CASE session[s] # None
    <3>1. UpdateOK(u, s)
      BY <2>1, <2>3 DEF WriteOK
    <3>2. u.ends => epoch'[u.account] = epoch[u.account]
      BY <1>1, EndsHolds
    <3>3. UpdateOK(u, s)'
      BY <1>2, <2>1, <3>1, <3>2 DEF UpdateOK
    <3> QED
      BY <2>1, <2>3, <3>3 DEF WriteOK
  <2> QED
    BY <2>2, <2>3
<1>10. Sweeps(u)'
  <2>1. ASSUME u.ends, NEW s \in Sessions, s \notin DOMAIN u.writes,
               session'[s] # None, session'[s].account = u.account, session'[s].status = "ACTIVE"
        PROVE  session'[s] = session[s]
    <3>1. lock[u.account] = v
      BY <2>1, EndsHolds
    <3>2. CASE s \notin DOMAIN tx[w].writes
      BY <3>2, Committed
    <3>3. CASE s \in DOMAIN tx[w].writes /\ session[s] = None
      <4>1. Inserts(tx[w]) /\ session'[s].account = tx[w].account
        BY <3>3, CommitInserts DEF Inserts
      <4> QED
        BY <1>1, <2>1, <3>1, <4>1
    <3>4. CASE s \in DOMAIN tx[w].writes /\ session[s] # None
      <4>1. tx[w].ends /\ session[s].account = tx[w].account /\ session'[s].account = session[s].account
        BY <2>1, <3>4, CommitUpdates
      <4> QED
        BY <1>1, <2>1, <3>1, <4>1
    <3> QED
      BY <3>2, <3>3, <3>4
  <2>2. \A s \in Sessions :
           /\ View(u)[s] = IF s \in DOMAIN u.writes THEN u.writes[s] ELSE session[s]
           /\ View(u)'[s] = IF s \in DOMAIN u.writes THEN u.writes[s] ELSE session'[s]
    BY DEF View
  <2>3. u.kind \in {"LOGOUT", "LOGOUT_ALL"} => u.on # None /\ u.on \in Sessions
    BY <1>5 DEF SessionKinds, RefreshKinds, Request
  <2>4. u.kind \in {"LOGOUT", "LOGOUT_ALL"} /\ u.pc # "session" => View(u)'[u.on] = View(u)[u.on]
    BY <1>1, <2>2, <2>3
  <2>5. Sweeps(u)
    BY DEF RequestOK
  <2>6. ASSUME u.pc \in {"row", "commit"}, u.ends, NEW s \in Sessions,
               View(u)'[s] # None, View(u)'[s].account = u.account, View(u)'[s].status = "ACTIVE"
        PROVE  s \in Remaining(u) \/ (u.kind = "PASSWORD" /\ s = u.on)
    <3>1. View(u)[s] = View(u)'[s]
      BY <2>1, <2>2, <2>6
    <3> QED
      BY <2>5, <2>6, <3>1 DEF Sweeps
  <2>7. ASSUME u.pc \in {"row", "commit"}, u.plan # <<>>, u.kind \in {"LOGOUT", "LOGOUT_ALL"},
               View(u)'[u.on].status = "ACTIVE"
        PROVE  u.on \in Remaining(u)
    BY <2>4, <2>5, <2>7 DEF Sweeps
  <2> QED
    BY <2>6, <2>7 DEF Sweeps, Remaining
<1> QED
  BY <1>3, <1>6, <1>7, <1>8, <1>9, <1>10 DEF RequestOK

\* A commit keeps the invariant.
LEMMA CommitKeeps ==
    ASSUME IInv, NEW w \in Workers, Commit(w)
    PROVE  IInv'
<1>1. /\ tx' = [tx EXCEPT ![w] = Idle] /\ tx \in [Workers -> {Idle} \cup Request]
      /\ session' \in [Sessions -> Row \cup {None}] /\ epoch' \in [Accounts -> Nat]
      /\ lock' \in [Lockable -> Workers \cup {None}]
      /\ \A x \in Lockable : lock'[x] = IF lock[x] = w THEN None ELSE lock[x]
  BY Committed DEF IInv
<1>2. /\ tx' \in [Workers -> {Idle} \cup Request] /\ tx'[w] = Idle
      /\ \A v \in Workers \ {w} : tx'[v] = tx[v]
  BY <1>1
<1>3. \A x \in Lockable : lock'[x] # None => tx'[lock'[x]] # Idle
  BY <1>1, <1>2, SessionsAssumption DEF IInv
<1>4. RequestsOK'
  <2> SUFFICES ASSUME NEW v \in Workers, tx'[v] # Idle
               PROVE  RequestOK(v, tx[v])'
    BY DEF RequestsOK, Idle
  <2>1. v \in Workers \ {w} /\ tx'[v] = tx[v] /\ RequestOK(v, tx[v]) /\ tx[v] \in Request
    BY <1>2 DEF IInv, RequestsOK, RequestOK
  <2>2. PICK u \in Request : u = tx[v]
    BY <2>1
  <2>3. RequestOK(v, u)'
    BY <2>1, <2>2, CommitOthers
  <2> QED
    BY <2>1, <2>2, <2>3
<1>5. WritesDisjoint'
  BY <1>2 DEF IInv, WritesDisjoint
<1> QED
  BY <1>1, <1>2, <1>3, <1>4, <1>5, CommitRoots, CommitChains, CommitRevokes DEF IInv

-----------------------------------------------------------------------------
(* The invariant and what it implies.                                      *)

LEMMA InitHolds ==
    ASSUME Init
    PROVE  IInv
<1>1. Issued = {}
  BY DEF Init, Issued
<1>2. session \in [Sessions -> Row \cup {None}] /\ lock \in [Lockable -> Workers \cup {None}]
      /\ epoch \in [Accounts -> Nat] /\ tx \in [Workers -> {Idle} \cup Request]
  BY DEF Init
<1>3. (\A w \in Workers : tx[w] = Idle) /\ (\A x \in Lockable : lock[x] = None)
  BY DEF Init
<1>4. RequestsOK /\ WritesDisjoint
  BY <1>3 DEF RequestsOK, WritesDisjoint
<1>5. Rooted /\ FamiliesAreChains /\ RevocationReachesEverySession
  BY <1>1 DEF Rooted, FamiliesAreChains, RevocationReachesEverySession
<1> QED
  BY <1>2, <1>3, <1>4, <1>5 DEF IInv

\* Every step of every request keeps the invariant.
LEMMA StepKeeps ==
    ASSUME IInv, [Next]_vars
    PROVE  IInv'
<1>1. CASE UNCHANGED vars
  <2>1. UNCHANGED <<session, epoch, lock, tx>>
    BY <1>1 DEF vars
  <2>2. CASE Workers = {}
    BY <2>1, <2>2 DEF IInv, RequestsOK, WritesDisjoint, Rooted, FamiliesAreChains,
        RevocationReachesEverySession, Issued
  <2>3. CASE Workers # {}
    <3>1. PICK w \in Workers : TRUE
      BY <2>3
    <3>2. PICK u \in {Idle} \cup Request : u = tx[w]
      BY <3>1 DEF IInv
    <3>3. tx' = [tx EXCEPT ![w] = u] /\ lock' \in [Lockable -> Workers \cup {None}]
      BY <2>1, <3>1, <3>2 DEF IInv
    <3>4. u = Idle => \A x \in Lockable : lock'[x] # w
      BY <2>1, <3>2, SessionsAssumption DEF IInv
    <3>5. u # Idle => RequestOK(w, u)'
      <4> HAVE u # Idle
      <4>1. RequestOK(w, u)
        BY <3>1, <3>2 DEF IInv, RequestsOK
      <4> QED
        BY <2>1, <4>1 DEF RequestOK, Presented, Stage, Locked, Live, Inserts, WriteOK, InsertOK, UpdateOK,
            Sweeps, View, Remaining
    <3>6. u # Idle => \A v \in Workers \ {w} : tx[v] # Idle =>
                          DOMAIN u.writes \cap DOMAIN tx[v].writes = {}
      BY <3>1, <3>2 DEF IInv, WritesDisjoint
    <3> QED
      BY <2>1, <3>1, <3>3, <3>4, <3>5, <3>6, OwnStep
  <2> QED
    BY <2>2, <2>3
<1>2. ASSUME NEW w \in Workers, Begin(w) \/ Serve(w) \/ Crash(w) \/ BreakDeadlock(w)
      PROVE  IInv'
  <2>1. CASE Begin(w)
    BY <2>1, BeginKeeps
  <2>2. CASE LockSession(w)
    BY <2>2, LockSessionKeeps
  <2>3. CASE LockAccount(w)
    BY <2>3, LockAccountKeeps
  <2>4. CASE Snapshot(w)
    BY <2>4, SnapshotKeeps
  <2>5. CASE UpdateRow(w)
    BY <2>5, UpdateRowKeeps
  <2>6. CASE Commit(w)
    BY <2>6, CommitKeeps
  <2>7. CASE Rollback(w) \/ Crash(w) \/ BreakDeadlock(w)
    <3>1. Close(w) /\ UNCHANGED <<session, epoch>>
      BY <2>7 DEF Rollback, Crash, BreakDeadlock
    <3> QED
      BY <3>1, CloseKeeps
  <2> QED
    BY <1>2, <2>1, <2>2, <2>3, <2>4, <2>5, <2>6, <2>7 DEF Serve
<1> QED
  BY <1>1, <1>2 DEF Next

\* What every open request knows, holds and has written, and what is left of
\* the statement it runs, is consistent with the committed rows, whatever the
\* other requests do.
THEOREM SessionsInvariant == Spec => []IInv
<1>1. Init => IInv
  BY InitHolds
<1>2. IInv /\ [Next]_vars => IInv'
  BY StepKeeps
<1> QED
  BY <1>1, <1>2, PTL DEF Spec

\* Rows, eras and locks keep their types, and only open requests hold locks.
THEOREM SessionsTypeCorrect == Spec => []TypeOK
<1>1. IInv => TypeOK
  <2> SUFFICES ASSUME IInv PROVE TypeOK
    OBVIOUS
  <2>1. ASSUME NEW w \in Workers
        PROVE  /\ tx[w].pc \in {"idle", "session", "account", "snapshot", "row", "commit", "rollback"}
               /\ tx[w] # Idle => tx[w].pc # "idle"
    <3>1. CASE tx[w] = Idle
      BY <3>1 DEF Idle
    <3>2. CASE tx[w] \in Request
      BY <3>2 DEF Request, Steps, Early
    <3> QED
      BY <3>1, <3>2 DEF IInv
  <2>2. \A x \in Lockable : lock[x] # None => lock[x] \in Workers /\ tx[lock[x]] # Idle
    BY DEF IInv
  <2> QED
    BY <2>1, <2>2 DEF IInv, TypeOK
<1> QED
  BY <1>1, SessionsInvariant, PTL

\* The generations of a family form one chain with at most one that can be
\* used, however refreshes, replays, logouts and revocations interleave.
THEOREM FamiliesStayChains == Spec => []FamiliesAreChains
<1>1. IInv => FamiliesAreChains
  BY DEF IInv
<1> QED
  BY <1>1, SessionsInvariant, PTL

\* Password change, recovery and membership revocation reach the sessions that
\* are being opened or exchanged while they run: no session of an earlier era
\* of its account is ACTIVE.
THEOREM RevocationsReachAll == Spec => []RevocationReachesEverySession
<1>1. IInv => RevocationReachesEverySession
  BY DEF IInv
<1> QED
  BY <1>1, SessionsInvariant, PTL

\* A request that acts for a session holds it from its authentication to its
\* commit: no revocation is committed in between.
THEOREM LiveSessionsAct == Spec => []OnlyLiveSessionsAct
<1>1. IInv => OnlyLiveSessionsAct
  <2> SUFFICES ASSUME IInv, NEW w \in Workers, Acts(tx[w])
               PROVE  session[tx[w].on].status = "ACTIVE"
    BY DEF OnlyLiveSessionsAct
  <2>1. tx[w].pc = "commit"
    BY DEF Acts
  <2>2. Live(tx[w])
    BY <2>1 DEF IInv, RequestsOK, RequestOK, Idle
  <2> QED
    BY <2>1, <2>2 DEF Live, Acts, Inserts
<1> QED
  BY <1>1, SessionsInvariant, PTL

\* A logout that is carried out leaves no usable generation of its family: the
\* one ACTIVE generation is the session it holds, and its statements reach it.
THEOREM LogoutsEndTheFamily == Spec => []LogoutEndsTheFamily
<1>1. IInv => LogoutEndsTheFamily
  <2> SUFFICES ASSUME IInv, NEW w \in Workers,
                      tx[w].pc = "commit", tx[w].kind \in {"LOGOUT", "LOGOUT_ALL"}, tx[w].chosen # {},
                      session[tx[w].on].status = "ACTIVE",
                      NEW s \in Family(tx[w].on), View(tx[w])[s].status = "ACTIVE"
               PROVE  FALSE
    BY DEF LogoutEndsTheFamily
  <2>1. tx[w] \in Request /\ RequestOK(w, tx[w])
    BY DEF IInv, RequestsOK, RequestOK, Idle
  <2>2. tx[w].plan # <<>>
    BY <2>1 DEF RequestOK, Stage
  <2>3. /\ s \in Sessions /\ session[s] # None
        /\ session[s].family = session[tx[w].on].family
    BY DEF Family, Issued
  <2>4. tx[w].on \in Sessions /\ session[tx[w].on] # None
    BY <2>1 DEF RequestOK, Presented, Request, SessionKinds, RefreshKinds
  <2>5. s \notin DOMAIN tx[w].writes
    <3> SUFFICES ASSUME s \in DOMAIN tx[w].writes PROVE FALSE
      OBVIOUS
    <3>1. UpdateOK(tx[w], s)
      BY <2>1, <2>3 DEF RequestOK, WriteOK
    <3>2. tx[w].writes[s].status = "ACTIVE"
      BY <2>1, <2>3, ViewReads
    <3> QED
      BY <3>1, <3>2 DEF UpdateOK
  <2>6. session[s].status = "ACTIVE"
    BY <2>1, <2>3, <2>5, ViewReads
  <2>7. s = tx[w].on
    BY <2>3, <2>4, <2>6 DEF IInv, FamiliesAreChains, Issued
  <2>8. tx[w].on \in Remaining(tx[w])
    BY <2>1, <2>2, <2>7 DEF RequestOK, Sweeps
  <2> QED
    BY <2>8 DEF Remaining
<1> QED
  BY <1>1, SessionsInvariant, PTL

\* A session that has ended never comes back: the only later change of its row
\* is that reuse detection marks an exchanged generation.
THEOREM EndedStayEnded == Spec => EndedSessionsStayEnded
<1>1. IInv /\ [Next]_vars => [EndedStep]_vars
  <2> SUFFICES ASSUME IInv, [Next]_vars, NEW s \in Issued,
                      session'[s] # session[s], session[s].status # "ACTIVE"
               PROVE  session[s].status = "ROTATED" /\ session'[s].status = "REUSE_DETECTED"
    BY DEF EndedStep
  <2>1. session' # session
    OBVIOUS
  <2>2. PICK w \in Workers : Commit(w)
    BY <2>1 DEF Next, Serve, vars, Begin, LockSession, LockAccount, Snapshot, UpdateRow,
        Rollback, Crash, BreakDeadlock
  <2>3. s \in Sessions /\ session[s] # None
    BY DEF Issued
  <2>4. s \in DOMAIN tx[w].writes
    BY <2>2, <2>3, Committed
  <2> QED
    BY <2>2, <2>3, <2>4, CommitUpdates
<1> QED
  BY <1>1, SessionsInvariant, PTL DEF Spec, EndedSessionsStayEnded

=============================================================================
