--------------------------- MODULE SessionFamilies ---------------------------
(***************************************************************************)
(* Refresh-session families and everything that ends them.  Each request   *)
(* is one READ COMMITTED transaction of PostgreSQL: SELECT ... FOR UPDATE  *)
(* waits for a row and reads its latest committed version, while an UPDATE *)
(* ... WHERE takes its rows from a snapshot, waits for each in turn, and   *)
(* only looks at those rows again: a row another transaction inserted      *)
(* meanwhile is missed.                                                    *)
(*                                                                         *)
(* No code makes an account that has sessions inactive, so account status  *)
(* is not modelled; nor are the CSRF value, the password and the clock,    *)
(* whose verdicts are free choices (the clock is read before the request   *)
(* waits for its first lock, so two requests may disagree about it).       *)
(***************************************************************************)
EXTENDS Integers, Sequences

CONSTANTS
    Accounts, Sessions, Workers,   \* Workers: the transactions that may be open at once
    Kinds,          \* the requests that may be sent
    MaxEpoch,       \* bound: account-wide revocations requested per account
    None

VARIABLES
    session,   \* auth_sessions: row or None
    epoch,     \* history: committed account-wide revocations of each account
    lock,      \* row locks: account or session -> worker or None
    tx         \* the transaction each worker runs

vars == <<session, epoch, lock, tx>>

Statuses     == {"ACTIVE", "ROTATED", "REVOKED", "EXPIRED", "REUSE_DETECTED"}
BearerKinds  == {"USE", "PASSWORD"}                    \* present an access credential
RefreshKinds == {"REFRESH", "LOGOUT", "LOGOUT_ALL"}    \* present a refresh credential
SessionKinds == BearerKinds \cup RefreshKinds
EndingKinds  == {"RECOVERY", "MEMBERSHIP"}             \* end every session of an account
Revocations  == EndingKinds \cup {"PASSWORD"}

Row == [account : Accounts, parent : Sessions \cup {None}, family : Sessions,
        status : Statuses, epoch : Nat]

ASSUME SessionsAssumption ==
    /\ Kinds \subseteq SessionKinds \cup EndingKinds \cup {"LOGIN"}
    /\ MaxEpoch \in Nat
    /\ None \notin Accounts \cup Sessions \cup Workers
    /\ Accounts \cap Sessions = {}
    /\ None \notin Row

Lockable == Accounts \cup Sessions
Issued   == {s \in Sessions : session[s] # None}

Idle == [pc |-> "idle"]

Init ==
    /\ session = [s \in Sessions |-> None]
    /\ epoch = [a \in Accounts |-> 0]
    /\ lock = [x \in Lockable |-> None]
    /\ tx = [w \in Workers |-> Idle]

-----------------------------------------------------------------------------
(* What a transaction reads: committed rows under its own writes.          *)

View(t) == [s \in Sessions |-> IF s \in DOMAIN t.writes THEN t.writes[s] ELSE session[s]]

Free(w, x) == lock[x] \in {None, w}

Drawn == UNION {DOMAIN tx[w].writes : w \in {v \in Workers : tx[v].pc # "idle"}}
Unused == {s \in Sessions : session[s] = None /\ s \notin Drawn}

\* uuid4: identifiers are interchangeable; none is left at the bound.
FreshIds == IF Unused = {} THEN {} ELSE {CHOOSE s \in Unused : TRUE}

\* Bug: the row is inserted without its family.
NewSessionWithoutFamily(account, parent, family, era) ==
    [account |-> account, parent |-> parent, family |-> None,
     status |-> "ACTIVE", epoch |-> era]

\* The row create_session and complete_rotation insert.
NewSession(account, parent, family, era) ==
    [account |-> account, parent |-> parent, family |-> family,
     status |-> "ACTIVE", epoch |-> era]

\* The UPDATE statements that end sessions.
Statement(scope, from, to) == [scope |-> scope, from |-> from, to |-> to]
\* Bug: the status filter names the exchanged generations.
RevokeRotatedFamily == <<Statement("FAMILY", "ROTATED", "REVOKED")>>

RevokeActiveFamily  == <<Statement("FAMILY", "ACTIVE", "REVOKED")>>
RevokeActiveAccount == <<Statement("ACCOUNT", "ACTIVE", "REVOKED")>>
RevokeOthers        == <<Statement("OTHERS", "ACTIVE", "REVOKED")>>

\* Bug: the second statement looks for what the first one wrote.
RecordReuseOnRevoked ==
    RevokeActiveFamily \o <<Statement("FAMILY", "REVOKED", "REUSE_DETECTED")>>

RecordReuse == RevokeActiveFamily \o <<Statement("FAMILY", "ROTATED", "REUSE_DETECTED")>>

\* The WHERE clause of the statement t runs, for row s as t now reads it.
Matches(t, s) ==
    LET row == View(t)[s]
        q   == Head(t.plan) IN
    /\ row # None
    /\ row.status = q.from
    /\ q.scope = "FAMILY" => row.family = View(t)[t.on].family
    /\ q.scope \in {"ACCOUNT", "OTHERS"} => row.account = t.account
    /\ q.scope = "OTHERS" => s # t.on

Run(t, plan)   == [t EXCEPT !.pc = "snapshot", !.plan = plan]
Respond(t)     == [t EXCEPT !.pc = "commit"]
Raise(t)       == [t EXCEPT !.pc = "rollback"]
Write(t, s, row) ==
    [t EXCEPT !.writes = [r \in {s} \cup DOMAIN t.writes |->
                               IF r = s THEN row ELSE t.writes[r]]]

-----------------------------------------------------------------------------
(* The steps of a request, each ending where it may have to wait.          *)

\* A client presents the credential of any generation it was ever issued.
Begin(w) ==
    /\ tx[w].pc = "idle"
    /\ \E kind \in Kinds : \E on \in Issued \cup {None} : \E account \in Accounts :
          /\ on # None <=> kind \in SessionKinds
          /\ on # None => session[on].account = account
          /\ kind \in Revocations => epoch[account] < MaxEpoch
          /\ tx' = [tx EXCEPT ![w] =
                [pc      |-> IF on = None THEN "account" ELSE "session",
                 kind    |-> kind, on |-> on, account |-> account,
                 plan    |-> <<>>, row |-> None, rest |-> {}, chosen |-> {},
                 writes  |-> <<>>, ends |-> FALSE]]
    /\ UNCHANGED <<session, epoch, lock>>

\* What a request does once it holds the session it presented: a refresh or
\* logout may find that its CSRF value does not match; bearer authentication
\* raises, which rolls back, where the session endpoints answer and commit.
AfterSession(t) ==
    LET status == session[t.on].status IN
    CASE t.kind \in BearerKinds /\ status # "ACTIVE" -> {Raise(t)}
      [] t.kind \in BearerKinds /\ status = "ACTIVE" -> {[t EXCEPT !.pc = "account"]}
      [] t.kind \in RefreshKinds /\ status = "ROTATED" -> {Respond(t), Run(t, RecordReuse)}
      [] t.kind = "REFRESH" /\ status = "ACTIVE" -> {Respond(t), [t EXCEPT !.pc = "account"]}
      [] t.kind = "LOGOUT" /\ status = "ACTIVE" -> {Respond(t), Run(t, RevokeActiveFamily)}
      [] t.kind = "LOGOUT_ALL" /\ status = "ACTIVE" -> {Respond(t), Run(t, RevokeActiveAccount)}
      [] OTHER -> {Respond(t)}

\* Bug: the child opens a family of its own.
RotationOpensFamily(t, new) ==
    LET parent == View(t)[t.on] IN
    Respond(Write(Write(t, t.on, [parent EXCEPT !.status = "ROTATED"]),
                  new, NewSession(t.account, t.on, new, parent.epoch)))

\* The parent becomes ROTATED and one ACTIVE child joins its family;
\* uq_session_single_rotation_child refuses a second child.
Rotation(t, new) ==
    LET parent == View(t)[t.on] IN
    IF \E s \in Issued : session[s].parent = t.on
    THEN Raise(t)
    ELSE Respond(Write(Write(t, t.on, [parent EXCEPT !.status = "ROTATED"]),
                       new, NewSession(t.account, t.on, parent.family, parent.epoch)))

Expiry(t) == Respond(Write(t, t.on, [View(t)[t.on] EXCEPT !.status = "EXPIRED"]))

Login(t, new) == Respond(Write(t, new, NewSession(t.account, None, new, epoch[t.account])))

\* The session that changes the password is kept, in the new epoch.
ChangePassword(t) ==
    [Run(Write(t, t.on, [View(t)[t.on] EXCEPT !.epoch = epoch[t.account] + 1]), RevokeOthers)
        EXCEPT !.ends = TRUE]

EndAccount(t) == [Run(t, RevokeActiveAccount) EXCEPT !.ends = TRUE]

\* What a request does once it holds the account: rotate, unless the session
\* has expired or its family refreshes too often; log in, unless the password
\* is wrong; act, unless the access credential has expired.
AfterAccount(t) ==
    CASE t.kind = "REFRESH"       -> {Expiry(t), Respond(t)} \cup {Rotation(t, s) : s \in FreshIds}
      [] t.kind = "LOGIN"         -> {Respond(t)} \cup {Login(t, s) : s \in FreshIds}
      [] t.kind = "USE"           -> {Raise(t), Respond(t)}
      [] t.kind = "PASSWORD"      -> {Raise(t), Respond(t), ChangePassword(t)}
      [] t.kind \in EndingKinds   -> {Respond(t), EndAccount(t)}

\* Bug: SELECT without FOR UPDATE.
ReadSession(w) ==
    /\ tx[w].pc = "session"
    /\ \E t \in AfterSession(tx[w]) : tx' = [tx EXCEPT ![w] = t]
    /\ UNCHANGED <<session, epoch, lock>>

LockSession(w) ==
    /\ tx[w].pc = "session"
    /\ Free(w, tx[w].on)
    /\ lock' = [lock EXCEPT ![tx[w].on] = w]
    /\ \E t \in AfterSession(tx[w]) : tx' = [tx EXCEPT ![w] = t]
    /\ UNCHANGED <<session, epoch>>

\* Bug: SELECT without FOR UPDATE.
ReadAccount(w) ==
    /\ tx[w].pc = "account"
    /\ \E t \in AfterAccount(tx[w]) : tx' = [tx EXCEPT ![w] = t]
    /\ UNCHANGED <<session, epoch, lock>>

LockAccount(w) ==
    /\ tx[w].pc = "account"
    /\ Free(w, tx[w].account)
    /\ lock' = [lock EXCEPT ![tx[w].account] = w]
    /\ \E t \in AfterAccount(tx[w]) : tx' = [tx EXCEPT ![w] = t]
    /\ UNCHANGED <<session, epoch>>

\* Go on to the next selected row, the next statement, or the response.
Advance(t, rest) ==
    IF rest # {} THEN {[t EXCEPT !.pc = "row", !.row = s, !.rest = rest \ {s}] : s \in rest}
    ELSE IF Len(t.plan) > 1 THEN {[t EXCEPT !.pc = "snapshot", !.plan = Tail(t.plan), !.row = None]}
    ELSE {[t EXCEPT !.pc = "commit", !.row = None]}

\* An UPDATE starts: it selects the rows that match in its snapshot.
Snapshot(w) ==
    /\ tx[w].pc = "snapshot"
    /\ LET matching == {s \in Sessions : Matches(tx[w], s)} IN
       \E t \in Advance([tx[w] EXCEPT !.chosen = matching], matching) :
          tx' = [tx EXCEPT ![w] = t]
    /\ UNCHANGED <<session, epoch, lock>>

\* The UPDATE reaches a selected row, waits for it, and writes it if its
\* latest version still matches.
UpdateRow(w) ==
    /\ tx[w].pc = "row"
    /\ Free(w, tx[w].row)
    /\ LET t   == tx[w]
           new == [View(t)[t.row] EXCEPT !.status = Head(t.plan).to] IN
       /\ lock' = IF Matches(t, t.row) THEN [lock EXCEPT ![t.row] = w] ELSE lock
       /\ \E u \in Advance(IF Matches(t, t.row) THEN Write(t, t.row, new) ELSE t, t.rest) :
             tx' = [tx EXCEPT ![w] = u]
    /\ UNCHANGED <<session, epoch>>

Close(w) ==
    /\ tx' = [tx EXCEPT ![w] = Idle]
    /\ lock' = [x \in Lockable |-> IF lock[x] = w THEN None ELSE lock[x]]

Commit(w) ==
    /\ tx[w].pc = "commit"
    /\ session' = View(tx[w])
    /\ epoch' = IF tx[w].ends THEN [epoch EXCEPT ![tx[w].account] = @ + 1] ELSE epoch
    /\ Close(w)

Rollback(w) == tx[w].pc = "rollback" /\ Close(w) /\ UNCHANGED <<session, epoch>>

\* The server or its connection dies: PostgreSQL rolls back.
Crash(w) ==
    /\ tx[w].pc \notin {"idle", "rollback"}
    /\ Close(w)
    /\ UNCHANGED <<session, epoch>>

Wanted(t) ==
    CASE t.pc = "session" -> {t.on}
      [] t.pc = "account" -> {t.account}
      [] t.pc = "row"     -> {t.row}
      [] OTHER            -> {}

Holders(w) == {lock[x] : x \in {y \in Wanted(tx[w]) : ~Free(w, y)}}

\* PostgreSQL aborts a transaction of a cycle of lock waits.
BreakDeadlock(w) ==
    /\ \E cycle \in SUBSET Workers : w \in cycle /\ UNION {Holders(v) : v \in cycle} = cycle
    /\ Close(w)
    /\ UNCHANGED <<session, epoch>>

Serve(w) ==
    LockSession(w) \/ LockAccount(w) \/ Snapshot(w) \/ UpdateRow(w) \/ Commit(w) \/ Rollback(w)

Next == \E w \in Workers : Begin(w) \/ Serve(w) \/ Crash(w) \/ BreakDeadlock(w)

Spec == Init /\ [][Next]_vars

-----------------------------------------------------------------------------
(* Safety.                                                                 *)

TypeOK ==
    /\ session \in [Sessions -> Row \cup {None}]
    /\ epoch \in [Accounts -> Nat]
    /\ lock \in [Lockable -> Workers \cup {None}]
    /\ \A w \in Workers :
          tx[w].pc \in {"idle", "session", "account", "snapshot", "row", "commit", "rollback"}
    /\ \A x \in Lockable : lock[x] # None => tx[lock[x]].pc # "idle"

Family(s) == {r \in Issued : session[r].family = session[s].family}

\* However refreshes, replays and logouts interleave, the generations of a
\* family form one chain: exactly those that were exchanged have a child, it
\* is the only one, and one generation at most can be used ("one rotation
\* winner", docs/12_Workspace_Identity_Design.md:228).
FamiliesAreChains ==
    /\ \A r, s \in Issued :
          (session[r].family = session[s].family /\ session[r].status = "ACTIVE"
              /\ session[s].status = "ACTIVE") => r = s
    /\ \A s \in Issued :
          LET children == {c \in Issued : session[c].parent = s} IN
          /\ session[s].status \in {"ROTATED", "REUSE_DETECTED"} <=> children # {}
          /\ \A c, d \in children : c = d
          /\ \A c \in children : session[c].family = session[s].family

\* Password change, recovery and membership revocation reach every session
\* of the account, those being rotated or created meanwhile included: what is
\* ACTIVE was opened, or kept, after the last of them.
RevocationReachesEverySession ==
    \A s \in Issued :
        session[s].status = "ACTIVE" => session[s].epoch = epoch[session[s].account]

\* A request that acts for a session commits while that session is ACTIVE: no
\* revocation is committed between its authentication and its commit.
Acts(t) ==
    /\ t.pc = "commit"
    /\ \/ t.kind \in BearerKinds
       \/ t.kind = "REFRESH" /\ \E s \in DOMAIN t.writes : session[s] = None
OnlyLiveSessionsAct ==
    \A w \in Workers : Acts(tx[w]) => session[tx[w].on].status = "ACTIVE"

\* A logout that is carried out leaves no usable generation of its family,
\* whatever refreshes of it are in flight.
LogoutEndsTheFamily ==
    \A w \in Workers :
        (tx[w].pc = "commit" /\ tx[w].kind \in {"LOGOUT", "LOGOUT_ALL"} /\ tx[w].chosen # {}
            /\ session[tx[w].on].status = "ACTIVE") =>
            \A s \in Family(tx[w].on) : View(tx[w])[s].status # "ACTIVE"

\* An ended session never comes back, and only reuse detection rewrites one.
EndedStep ==
    \A s \in Issued : session'[s] # session[s] /\ session[s].status # "ACTIVE" =>
        session[s].status = "ROTATED" /\ session'[s].status = "REUSE_DETECTED"
EndedSessionsStayEnded == [][EndedStep]_vars

-----------------------------------------------------------------------------
(* What the documents promise and the code does not keep.                  *)

\* "Reusing any Rotated refresh value marks historical Rotated generations
\* Reuse Detected and revokes the family's current Active generation"
\* (docs/12_Workspace_Identity_Design.md:226-228).
ReuseRevokesTheFamily ==
    \A s \in Issued : session[s].status = "REUSE_DETECTED" =>
        \A r \in Family(s) : session[r].status # "ACTIVE"
=============================================================================
