--------------------------- MODULE ReceiptsProofs ---------------------------
(***************************************************************************)
(* Theorems about Receipts, for every set of members and of files.         *)
(***************************************************************************)
EXTENDS Receipts, TLAPS

-----------------------------------------------------------------------------
(* The inductive invariant.                                                *)

Uploading == {"body", "stored", "scan"}
CleanedUp == {"PENDING", "QUARANTINED", "FAILED", "EXPIRED"}

\* What a request is about, at each of its steps.
Control ==
    \A m \in Members :
        /\ tx[m].pc = "idle" <=> tx[m].kind = None
        /\ tx[m].pc = "idle" <=> tx[m].receipt = None
        /\ tx[m].kind = "RESERVE" => tx[m].pc = "event"
        /\ tx[m].pc \in Uploading => tx[m].kind = "UPLOAD"

\* The locks an upload has taken so far.
LocksHeld ==
    \A m \in Members :
        /\ tx[m].kind = "UPLOAD" /\ tx[m].pc # "file" => lock[tx[m].receipt] = m
        /\ tx[m].pc \in Uploading => lock["EVENT"] = m

\* An identifier that is being reserved has no row and no other request.
ReservationsAreFresh ==
    \A m \in Members : tx[m].kind = "RESERVE" =>
        /\ file[tx[m].receipt] = None
        /\ \A n \in Members : tx[n].receipt = tx[m].receipt => n = m

\* What an upload checked when it had its locks holds until it ends.
UploadsStayAllowed ==
    \A m \in Members : tx[m].pc \in Uploading =>
        /\ Linked(tx[m].receipt)
        /\ file[tx[m].receipt].state = "PENDING"
        /\ Role[m] = "CONTRIBUTOR" => Creator = m /\ event = "PENDING"
        /\ tx[m].pc # "body" => object[tx[m].receipt] = "WHOLE"

\* What the cleanup selected stays due, and what it deleted stays deleted.
BatchStaysDue ==
    /\ batch.left \subseteq batch.rows
    /\ \A r \in batch.rows :
          /\ file[r] # None
          /\ file[r].state \in CleanedUp
          /\ r \notin batch.left => object[r] = None

\* Bytes without a row, or with a row that is DELETED, do not exist.
BytesHaveRows ==
    \A r \in Receipts : object[r] # None => file[r] # None /\ file[r].state # "DELETED"

IInv ==
    /\ TypeOK
    /\ Control
    /\ LocksHeld
    /\ ReservationsAreFresh
    /\ UploadsStayAllowed
    /\ BatchStaysDue
    /\ BytesHaveRows
    /\ AvailableIsStored

-----------------------------------------------------------------------------
(* The end of a request.                                                   *)

\* Closing a request releases its locks and no others.
LEMMA CloseReleases ==
    ASSUME IInv, NEW m \in Members, Close(m)
    PROVE  /\ tx' \in [Members -> [pc : {"idle", "event", "file", "body", "stored", "scan"},
                                   kind : {None, "RESERVE", "REMOVE", "UPLOAD"},
                                   receipt : Receipts \cup {None}]]
           /\ lock' \in [Rows -> Members \cup {Worker, None}]
           /\ tx'[m] = Idle
           /\ \A n \in Members \ {m} : tx'[n] = tx[n]
           /\ \A x \in Rows : lock'[x] = IF lock[x] = m THEN None ELSE lock[x]
           /\ \A x \in Rows, n \in Members : lock'[x] = n <=> lock[x] = n /\ n # m
           /\ \A x \in Rows : lock'[x] = Worker <=> lock[x] = Worker
BY ReceiptsAssumption DEF Close, Released, Idle, IInv, TypeOK

\* A request that ends without a change of rows or bytes keeps the invariant.
LEMMA EndKeeps ==
    ASSUME IInv, NEW m \in Members, Close(m), UNCHANGED <<file, event, enabled, object, age, batch>>
    PROVE  IInv'
<1>1. TypeOK'
  BY CloseReleases DEF IInv, TypeOK, Rows, Idle
<1>2. Control'
  BY CloseReleases, ReceiptsAssumption DEF IInv, TypeOK, Control, Uploading, Idle
<1>3. LocksHeld'
  BY CloseReleases, ReceiptsAssumption DEF IInv, TypeOK, LocksHeld, Control, Uploading, Rows, Idle
<1>4. ReservationsAreFresh'
  <2> SUFFICES ASSUME NEW n \in Members, tx'[n].kind = "RESERVE"
               PROVE  /\ file[tx'[n].receipt] = None
                      /\ \A o \in Members : tx'[o].receipt = tx'[n].receipt => o = n
    BY DEF ReservationsAreFresh
  <2>1. n # m /\ tx'[n] = tx[n] /\ tx'[m].receipt = None
    BY CloseReleases, ReceiptsAssumption DEF Idle
  <2>2. tx[n].receipt # None
    BY <2>1, ReceiptsAssumption DEF IInv, Control
  <2> QED
    BY <2>1, <2>2, CloseReleases DEF IInv, ReservationsAreFresh
<1>5. UploadsStayAllowed'
  BY CloseReleases DEF IInv, UploadsStayAllowed, Uploading, Linked, Idle
<1>6. BatchStaysDue' /\ BytesHaveRows' /\ AvailableIsStored'
  BY DEF IInv, BatchStaysDue, BytesHaveRows, AvailableIsStored
<1> QED
  BY <1>1, <1>2, <1>3, <1>4, <1>5, <1>6 DEF IInv

\* A request may change a row and its bytes when it ends, if nobody else
\* counts on them and the row agrees with the bytes.
LEMMA OutcomeKeeps ==
    ASSUME IInv, NEW m \in Members, NEW r \in Receipts, NEW row \in FileRow,
           NEW bytes \in {None, "PARTIAL", "WHOLE"},
           Close(m), UNCHANGED <<event, enabled, age, batch>>,
           file' = [file EXCEPT ![r] = row], object' = [object EXCEPT ![r] = bytes],
           lock[r] # Worker,
           \A n \in Members \ {m} : tx[n].receipt = r =>
               tx[n].kind # "RESERVE" /\ tx[n].pc \notin Uploading,
           row.state = "AVAILABLE" => bytes = "WHOLE",
           bytes # None => row.state # "DELETED"
    PROVE  IInv'
<1>1. /\ file' \in [Receipts -> FileRow \cup {None}]
      /\ object' \in [Receipts -> {None, "PARTIAL", "WHOLE"}]
      /\ file'[r] = row /\ file'[r] # None /\ object'[r] = bytes
      /\ \A s \in Receipts \ {r} : file'[s] = file[s] /\ object'[s] = object[s]
  BY ReceiptsAssumption DEF IInv, TypeOK
<1>2. r \notin batch.rows
  BY DEF IInv, TypeOK
<1>3. TypeOK'
  BY <1>1, CloseReleases DEF IInv, TypeOK, Rows, Idle
<1>4. Control'
  BY CloseReleases, ReceiptsAssumption DEF IInv, TypeOK, Control, Uploading, Idle
<1>5. LocksHeld'
  BY CloseReleases, ReceiptsAssumption DEF IInv, TypeOK, LocksHeld, Control, Uploading, Rows, Idle
<1>6. ReservationsAreFresh'
  <2> SUFFICES ASSUME NEW n \in Members, tx'[n].kind = "RESERVE"
               PROVE  /\ file'[tx'[n].receipt] = None
                      /\ \A o \in Members : tx'[o].receipt = tx'[n].receipt => o = n
    BY DEF ReservationsAreFresh
  <2>1. n # m /\ tx'[n] = tx[n] /\ tx'[m].receipt = None
    BY CloseReleases, ReceiptsAssumption DEF Idle
  <2>2. tx[n].receipt \in Receipts \ {r}
    BY <2>1, ReceiptsAssumption DEF IInv, TypeOK, Control
  <2> QED
    BY <1>1, <2>1, <2>2, CloseReleases, ReceiptsAssumption DEF IInv, ReservationsAreFresh
<1>7. UploadsStayAllowed'
  BY <1>1, CloseReleases, ReceiptsAssumption
     DEF IInv, TypeOK, UploadsStayAllowed, Control, Uploading, Linked, Idle
<1>8. BatchStaysDue'
  BY <1>1, <1>2 DEF IInv, TypeOK, BatchStaysDue
<1>9. BytesHaveRows' /\ AvailableIsStored'
  BY <1>1 DEF IInv, BytesHaveRows, AvailableIsStored
<1> QED
  BY <1>3, <1>4, <1>5, <1>6, <1>7, <1>8, <1>9 DEF IInv

-----------------------------------------------------------------------------
(* The steps of a request.                                                 *)

\* A request that takes a free lock and goes on keeps the invariant, if an
\* upload that gets all its locks finds what it checks.
LEMMA ContinueKeeps ==
    ASSUME IInv, NEW m \in Members, NEW x \in Rows, NEW pc \in {"event", "file", "body"},
           Continue(m, x, pc), UNCHANGED <<event, enabled, object, age, batch>>,
           Free(x), tx[m].pc \in {"event", "file"}, tx[m].kind # "RESERVE",
           tx[m].kind = "UPLOAD" =>
               pc # "file" /\ (x = tx[m].receipt \/ lock[tx[m].receipt] = m),
           pc = "body" =>
               /\ tx[m].kind = "UPLOAD" /\ x = "EVENT"
               /\ Linked(tx[m].receipt) /\ file[tx[m].receipt].state = "PENDING"
               /\ Role[m] = "CONTRIBUTOR" => Creator = m /\ event = "PENDING"
    PROVE  IInv'
<1>1. /\ tx' \in [Members -> [pc : {"idle", "event", "file", "body", "stored", "scan"},
                              kind : {None, "RESERVE", "REMOVE", "UPLOAD"},
                              receipt : Receipts \cup {None}]]
      /\ tx'[m].pc = pc /\ tx'[m].kind = tx[m].kind /\ tx'[m].receipt = tx[m].receipt
      /\ \A n \in Members \ {m} : tx'[n] = tx[n]
  BY DEF IInv, TypeOK, Continue
<1>2. /\ lock' \in [Rows -> Members \cup {Worker, None}]
      /\ lock'[x] = m
      /\ \A y \in Rows \ {x} : lock'[y] = lock[y]
      /\ lock[x] = None
      /\ file' = file
  BY DEF IInv, TypeOK, Continue, Free
<1>3. tx[m].receipt \in Receipts /\ Receipts \subseteq Rows /\ "EVENT" \in Rows
  BY ReceiptsAssumption DEF IInv, TypeOK, Control, Rows
<1>4. TypeOK'
  <2>1. \A y \in Rows, n \in Members : lock'[y] = n => tx'[n].pc # "idle"
    BY <1>1, <1>2 DEF IInv, TypeOK
  <2>2. \A s \in Receipts : lock'[s] = Worker <=> s \in batch.rows
    BY <1>2, <1>3, ReceiptsAssumption DEF IInv, TypeOK
  <2> QED
    BY <1>1, <1>2, <2>1, <2>2 DEF IInv, TypeOK
<1>5. Control'
  BY <1>1, <1>3, ReceiptsAssumption DEF IInv, Control, Uploading
<1>6. LocksHeld'
  <2> SUFFICES ASSUME NEW n \in Members
               PROVE  /\ tx'[n].kind = "UPLOAD" /\ tx'[n].pc # "file" => lock'[tx'[n].receipt] = n
                      /\ tx'[n].pc \in Uploading => lock'["EVENT"] = n
    BY DEF LocksHeld
  <2>1. CASE n = m
    BY <1>1, <1>2, <1>3, <2>1 DEF Uploading
  <2>2. CASE n # m
    <3>1. tx'[n] = tx[n]
      BY <1>1, <2>2
    <3>2. /\ tx[n].kind = "UPLOAD" /\ tx[n].pc # "file" =>
                tx[n].receipt \in Rows /\ lock[tx[n].receipt] = n
          /\ tx[n].pc \in Uploading => lock["EVENT"] = n
      BY <1>3, ReceiptsAssumption DEF IInv, TypeOK, Control, LocksHeld
    <3> QED
      BY <1>2, <1>3, <3>1, <3>2, ReceiptsAssumption
  <2> QED
    BY <2>1, <2>2
<1>7. ReservationsAreFresh'
  BY <1>1, <1>2 DEF IInv, ReservationsAreFresh
<1>8. UploadsStayAllowed'
  BY <1>1, <1>2 DEF IInv, UploadsStayAllowed, Uploading, Linked
<1>9. BatchStaysDue' /\ BytesHaveRows' /\ AvailableIsStored'
  BY <1>2 DEF IInv, BatchStaysDue, BytesHaveRows, AvailableIsStored
<1> QED
  BY <1>4, <1>5, <1>6, <1>7, <1>8, <1>9 DEF IInv

\* What follows when a request has a receipt in hand.
LEMMA InHand ==
    ASSUME IInv, NEW m \in Members, tx[m].pc # "idle"
    PROVE  /\ tx[m].receipt \in Receipts
           /\ tx[m].receipt \in Rows
           /\ "EVENT" \in Rows
           /\ tx[m].kind \in {"RESERVE", "REMOVE", "UPLOAD"}
           /\ object[tx[m].receipt] \in {None, "PARTIAL", "WHOLE"}
           /\ object = [object EXCEPT ![tx[m].receipt] = object[tx[m].receipt]]
BY ReceiptsAssumption DEF IInv, TypeOK, Control, Rows

\* A new request keeps the invariant.
LEMMA BeginKeeps ==
    ASSUME IInv, NEW m \in Members, Begin(m)
    PROVE  IInv'
<1>1. PICK r \in Receipts :
         \/ ParentOpen(m) /\ Unused(r)  /\ Await(m, "RESERVE", r, "event")
         \/ ParentOpen(m) /\ Linked(r)  /\ Await(m, "REMOVE", r, "event")
         \/ Writable(m, r) /\ file[r].state = "PENDING" /\ Await(m, "UPLOAD", r, "file")
  BY DEF Begin
<1>2. tx[m].pc = "idle" /\ UNCHANGED <<file, event, enabled, object, age, lock, batch>>
  BY DEF Begin
<1>3. /\ tx' \in [Members -> [pc : {"idle", "event", "file", "body", "stored", "scan"},
                              kind : {None, "RESERVE", "REMOVE", "UPLOAD"},
                              receipt : Receipts \cup {None}]]
      /\ tx'[m].receipt = r
      /\ \/ tx'[m].kind \in {"RESERVE", "REMOVE"} /\ tx'[m].pc = "event"
         \/ tx'[m].kind = "UPLOAD" /\ tx'[m].pc = "file"
      /\ tx'[m].kind = "RESERVE" => Unused(r)
      /\ tx'[m].kind # "RESERVE" => file[r] # None
      /\ \A n \in Members \ {m} : tx'[n] = tx[n]
  BY <1>1 DEF IInv, TypeOK, Await, Linked, Writable
<1>4. TypeOK'
  BY <1>2, <1>3 DEF IInv, TypeOK
<1>5. Control'
  BY <1>3, ReceiptsAssumption DEF IInv, Control, Uploading
<1>6. LocksHeld'
  BY <1>2, <1>3 DEF IInv, LocksHeld, Uploading
<1>7. ReservationsAreFresh'
  <2> SUFFICES ASSUME NEW n \in Members, tx'[n].kind = "RESERVE"
               PROVE  /\ file[tx'[n].receipt] = None
                      /\ \A o \in Members : tx'[o].receipt = tx'[n].receipt => o = n
    BY <1>2 DEF ReservationsAreFresh
  <2>1. CASE n = m
    BY <1>3, <2>1 DEF Unused
  <2>2. CASE n # m
    <3>1. /\ tx'[n] = tx[n]
          /\ file[tx[n].receipt] = None
          /\ \A o \in Members : tx[o].receipt = tx[n].receipt => o = n
      BY <1>3, <2>2 DEF IInv, ReservationsAreFresh
    <3>2. tx'[m].receipt # tx[n].receipt
      BY <1>3, <2>2, <3>1 DEF Unused
    <3> QED
      BY <1>3, <3>1, <3>2
  <2> QED
    BY <2>1, <2>2
<1>8. UploadsStayAllowed'
  BY <1>2, <1>3 DEF IInv, UploadsStayAllowed, Uploading, Linked
<1>9. BatchStaysDue' /\ BytesHaveRows' /\ AvailableIsStored'
  BY <1>2 DEF IInv, BatchStaysDue, BytesHaveRows, AvailableIsStored
<1> QED
  BY <1>4, <1>5, <1>6, <1>7, <1>8, <1>9 DEF IInv

\* A request that marks the file of an upload it carries out, and ends.
LEMMA MarkKeeps ==
    ASSUME IInv, NEW m \in Members, NEW state \in States \ {"DELETED"},
           tx[m].pc # "idle", tx[m].kind = "UPLOAD", tx[m].pc # "file",
           Linked(tx[m].receipt), Mark(m, tx[m].receipt, state),
           UNCHANGED <<event, enabled, object, age, batch>>,
           state = "AVAILABLE" => object[tx[m].receipt] = "WHOLE"
    PROVE  IInv'
<1> DEFINE r   == tx[m].receipt
           row == [file[r] EXCEPT !.state = state]
<1>1. r \in Receipts /\ object[r] \in {None, "PARTIAL", "WHOLE"}
      /\ object = [object EXCEPT ![r] = object[r]]
  BY InHand
<1>2. row \in FileRow /\ row.state = state
  BY <1>1 DEF IInv, TypeOK, Linked, FileRow, States
<1>3. Close(m) /\ file' = [file EXCEPT ![r] = row] /\ object' = [object EXCEPT ![r] = object[r]]
  BY <1>1 DEF Mark, Write
<1>4. lock[r] = m /\ m # Worker
  BY ReceiptsAssumption DEF IInv, LocksHeld
<1>5. ASSUME NEW n \in Members \ {m}, tx[n].receipt = r
      PROVE  tx[n].kind # "RESERVE" /\ tx[n].pc \notin Uploading
  <2>1. tx[n].kind # "RESERVE"
    BY <1>5 DEF IInv, ReservationsAreFresh, Linked
  <2>2. tx[n].pc \in Uploading => lock[r] = n
    BY <1>5 DEF IInv, Control, LocksHeld, Uploading
  <2> QED
    BY <1>4, <2>1, <2>2
<1>6. lock[r] # Worker /\ (row.state = "AVAILABLE" => object[r] = "WHOLE") /\ row.state # "DELETED"
  BY <1>2, <1>4
<1>7. UNCHANGED <<event, enabled, age, batch>>
  OBVIOUS
<1> HIDE DEF row, r
<1> QED
  BY <1>1, <1>2, <1>3, <1>5, <1>6, <1>7, OutcomeKeeps

\* A request that writes the row it locked or reserved, without a new state of
\* the file: the reservation and the removal.
LEMMA WriteKeeps ==
    ASSUME IInv, NEW m \in Members, NEW row \in FileRow,
           tx[m].pc # "idle", Write(m, tx[m].receipt, row),
           UNCHANGED <<event, enabled, object, age, batch>>,
           lock[tx[m].receipt] # Worker,
           \A n \in Members \ {m} : tx[n].receipt = tx[m].receipt =>
               tx[n].kind # "RESERVE" /\ tx[n].pc \notin Uploading,
           row.state = "AVAILABLE" => object[tx[m].receipt] = "WHOLE",
           object[tx[m].receipt] # None => row.state # "DELETED"
    PROVE  IInv'
<1> DEFINE r == tx[m].receipt
<1>1. r \in Receipts /\ object[r] \in {None, "PARTIAL", "WHOLE"}
      /\ object = [object EXCEPT ![r] = object[r]]
  BY InHand
<1>2. Close(m) /\ file' = [file EXCEPT ![r] = row] /\ object' = [object EXCEPT ![r] = object[r]]
  BY <1>1 DEF Write
<1>3. /\ lock[r] # Worker /\ UNCHANGED <<event, enabled, age, batch>>
      /\ \A n \in Members \ {m} : tx[n].receipt = r =>
             tx[n].kind # "RESERVE" /\ tx[n].pc \notin Uploading
      /\ row.state = "AVAILABLE" => object[r] = "WHOLE"
      /\ object[r] # None => row.state # "DELETED"
  OBVIOUS
<1> HIDE DEF r
<1> QED
  BY <1>1, <1>2, <1>3, OutcomeKeeps

\* Locking the expense keeps the invariant.
LEMMA LockEventKeeps ==
    ASSUME IInv, NEW m \in Members, LockEvent(m)
    PROVE  IInv'
<1> DEFINE r == tx[m].receipt
<1>1. tx[m].pc = "event" /\ Free("EVENT") /\ UNCHANGED <<event, enabled, object, age, batch>>
  BY DEF LockEvent
<1>2. r \in Receipts /\ r \in Rows /\ "EVENT" \in Rows
  BY <1>1, InHand
<1>3. ASSUME Refuse(m) PROVE IInv'
  BY <1>1, <1>3, EndKeeps DEF Refuse
<1>4. CASE tx[m].kind = "RESERVE" /\ Reserve(m, r)
  <2>1. CASE Refuse(m)
    BY <1>3, <2>1
  <2>2. CASE Write(m, r, [state |-> "PENDING", owner |-> m, removed |-> FALSE])
    <3>1. [state |-> "PENDING", owner |-> m, removed |-> FALSE] \in FileRow
      BY DEF FileRow, States
    <3>2. file[r] = None /\ \A n \in Members : tx[n].receipt = r => n = m
      BY <1>4 DEF IInv, ReservationsAreFresh
    <3>3. lock[r] # Worker
      BY <1>2, <3>2 DEF IInv, TypeOK, BatchStaysDue
    <3> QED
      BY <1>1, <2>2, <3>1, <3>2, <3>3, WriteKeeps
  <2> QED
    BY <1>4, <2>1, <2>2 DEF Reserve
<1>5. CASE tx[m].kind = "REMOVE" /\ FindRemovable(m, r)
  <2>1. CASE Continue(m, "EVENT", "file")
    BY <1>1, <1>2, <1>5, <2>1, ContinueKeeps
  <2> QED
    BY <1>3, <1>5, <2>1 DEF FindRemovable
<1>6. CASE tx[m].kind = "UPLOAD" /\ Authorize(m, r)
  <2>1. CASE Writable(m, r) /\ file[r].state = "PENDING" /\ Mark(m, r, "EXPIRED")
    BY <1>1, <1>6, <2>1, MarkKeeps DEF Writable, States
  <2>2. CASE Writable(m, r) /\ file[r].state = "PENDING" /\ Continue(m, "EVENT", "body")
    <3>1. Linked(r) /\ (Role[m] = "CONTRIBUTOR" => Creator = m /\ event = "PENDING")
      BY <2>2 DEF Writable
    <3>2. lock[r] = m
      BY <1>1, <1>6 DEF IInv, LocksHeld
    <3> QED
      BY <1>1, <1>2, <1>6, <2>2, <3>1, <3>2, ContinueKeeps
  <2> QED
    BY <1>3, <1>6, <2>1, <2>2 DEF Authorize
<1> QED
  BY <1>4, <1>5, <1>6 DEF LockEvent

\* Locking a file keeps the invariant.
LEMMA LockFileKeeps ==
    ASSUME IInv, NEW m \in Members, LockFile(m)
    PROVE  IInv'
<1> DEFINE r == tx[m].receipt
<1>1. tx[m].pc = "file" /\ Free(r) /\ UNCHANGED <<event, enabled, object, age, batch>>
  BY DEF LockFile
<1>2. r \in Receipts /\ r \in Rows
  BY <1>1, InHand
<1>3. CASE tx[m].kind = "REMOVE" /\ Remove(m, r)
  <2>1. CASE Refuse(m)
    BY <1>1, <2>1, EndKeeps DEF Refuse
  <2>2. CASE Linked(r) /\ Write(m, r, [file[r] EXCEPT !.removed = TRUE])
    <3>1. file[r] \in FileRow
      BY <1>2, <2>2 DEF IInv, TypeOK, Linked
    <3>2. [file[r] EXCEPT !.removed = TRUE] \in FileRow
          /\ [file[r] EXCEPT !.removed = TRUE].state = file[r].state
      BY <3>1 DEF FileRow
    <3>3. lock[r] = None /\ None # Worker /\ \A n \in Members : None # n
      BY <1>1, ReceiptsAssumption DEF Free
    <3>4. ASSUME NEW n \in Members \ {m}, tx[n].receipt = r
          PROVE  tx[n].kind # "RESERVE" /\ tx[n].pc \notin Uploading
      BY <2>2, <3>3, <3>4 DEF IInv, Control, LocksHeld, ReservationsAreFresh, Linked, Uploading
    <3>5. /\ file[r].state = "AVAILABLE" => object[r] = "WHOLE"
          /\ object[r] # None => file[r].state # "DELETED"
      BY <1>2, <2>2 DEF IInv, AvailableIsStored, BytesHaveRows, Linked
    <3> QED
      BY <1>1, <2>2, <3>2, <3>3, <3>4, <3>5, WriteKeeps
  <2> QED
    BY <1>3, <2>1, <2>2 DEF Remove
<1>4. CASE tx[m].kind = "UPLOAD" /\ Continue(m, r, "event")
  BY <1>1, <1>2, <1>4, ContinueKeeps
<1> QED
  BY <1>3, <1>4 DEF LockFile

\* The arrival of the body keeps the invariant.
LEMMA ReceiveKeeps ==
    ASSUME IInv, NEW m \in Members, Receive(m)
    PROVE  IInv'
<1> DEFINE r == tx[m].receipt
<1>1. tx[m].pc = "body" /\ UNCHANGED <<event, enabled, age, batch>>
  BY DEF Receive
<1>2. r \in Receipts /\ r \in Rows /\ tx[m].kind = "UPLOAD"
  BY <1>1, InHand DEF IInv, Control, Uploading
<1>3. /\ Linked(r) /\ file[r] \in FileRow /\ file[r].state = "PENDING"
      /\ Role[m] = "CONTRIBUTOR" => Creator = m /\ event = "PENDING"
      /\ lock[r] = m /\ m # Worker
  BY <1>1, <1>2, ReceiptsAssumption DEF IInv, TypeOK, LocksHeld, UploadsStayAllowed, Uploading, Linked
<1>4. ASSUME NEW n \in Members \ {m}, tx[n].receipt = r
      PROVE  tx[n].kind # "RESERVE" /\ tx[n].pc \notin Uploading
  BY <1>3, <1>4 DEF IInv, Control, LocksHeld, ReservationsAreFresh, Linked, Uploading
<1>5. ASSUME Refuse(m), UNCHANGED object PROVE IInv'
  BY <1>1, <1>5, EndKeeps DEF Refuse
<1>6. ASSUME UNCHANGED object, NEW state \in {"EXPIRED", "FAILED"}, Mark(m, r, state)
      PROVE  IInv'
  BY <1>1, <1>2, <1>3, <1>6, MarkKeeps DEF States
<1>7. CASE /\ object[r] = None
           /\ object' = [object EXCEPT ![r] = "WHOLE"]
           /\ tx' = [tx EXCEPT ![m].pc = "stored"]
           /\ UNCHANGED <<file, lock>>
  <2>1. /\ tx' \in [Members -> [pc : {"idle", "event", "file", "body", "stored", "scan"},
                                kind : {None, "RESERVE", "REMOVE", "UPLOAD"},
                                receipt : Receipts \cup {None}]]
        /\ tx'[m].pc = "stored" /\ tx'[m].kind = "UPLOAD" /\ tx'[m].receipt = r
        /\ \A n \in Members \ {m} : tx'[n] = tx[n]
    BY <1>2, <1>7 DEF IInv, TypeOK
  <2>2. /\ object' \in [Receipts -> {None, "PARTIAL", "WHOLE"}]
        /\ object'[r] = "WHOLE"
        /\ \A s \in Receipts \ {r} : object'[s] = object[s]
    BY <1>2, <1>7 DEF IInv, TypeOK
  <2>3. TypeOK'
    BY <1>1, <1>7, <2>1, <2>2 DEF IInv, TypeOK
  <2>4. Control'
    BY <2>1, <1>2, ReceiptsAssumption DEF IInv, Control, Uploading
  <2>5. LocksHeld'
    BY <1>1, <1>2, <1>3, <1>7, <2>1 DEF IInv, LocksHeld, Uploading
  <2>6. ReservationsAreFresh'
    BY <1>2, <1>7, <2>1 DEF IInv, ReservationsAreFresh
  <2>7. UploadsStayAllowed'
    <3> SUFFICES ASSUME NEW n \in Members, tx'[n].pc \in Uploading
                 PROVE  /\ Linked(tx'[n].receipt)
                        /\ file[tx'[n].receipt].state = "PENDING"
                        /\ Role[n] = "CONTRIBUTOR" => Creator = n /\ event = "PENDING"
                        /\ tx'[n].pc # "body" => object'[tx'[n].receipt] = "WHOLE"
      BY <1>1, <1>7 DEF UploadsStayAllowed, Linked
    <3>1. CASE n = m
      BY <1>3, <2>1, <2>2, <3>1
    <3>2. CASE n # m
      <4>1. tx'[n] = tx[n] /\ tx[n].receipt # r
        BY <1>4, <2>1, <3>2
      <4>2. tx[n].receipt \in Receipts
        BY <4>1, InHand DEF Uploading
      <4> QED
        BY <2>2, <4>1, <4>2 DEF IInv, UploadsStayAllowed
    <3> QED
      BY <3>1, <3>2
  <2>8. r \notin batch.rows
    BY <1>2, <1>3 DEF IInv, TypeOK
  <2>9. BatchStaysDue'
    BY <1>1, <1>7, <2>2, <2>8 DEF IInv, TypeOK, BatchStaysDue
  <2>10. BytesHaveRows' /\ AvailableIsStored'
    BY <1>3, <1>7, <2>2 DEF IInv, BytesHaveRows, AvailableIsStored, Linked
  <2> QED
    BY <2>3, <2>4, <2>5, <2>6, <2>7, <2>9, <2>10 DEF IInv
<1>8. CASE object' = [object EXCEPT ![r] = "PARTIAL"] /\ Refuse(m)
  <2>1. file' = [file EXCEPT ![r] = file[r]] /\ Close(m)
    BY <1>2, <1>8 DEF IInv, TypeOK, Refuse
  <2>2. file[r].state # "AVAILABLE" /\ file[r].state # "DELETED" /\ lock[r] # Worker
    BY <1>3
  <2> HIDE DEF r
  <2> QED
    BY <1>1, <1>2, <1>3, <1>4, <1>8, <2>1, <2>2, OutcomeKeeps
<1> QED
  BY <1>5, <1>6, <1>7, <1>8 DEF Receive

\* Quarantining the stored bytes, or giving them up, keeps the invariant.
LEMMA QuarantineKeeps ==
    ASSUME IInv, NEW m \in Members, Quarantine(m)
    PROVE  IInv'
<1> DEFINE r == tx[m].receipt
<1>1. tx[m].pc = "stored" /\ UNCHANGED <<event, enabled, age, batch>>
  BY DEF Quarantine
<1>2. r \in Receipts /\ r \in Rows /\ tx[m].kind = "UPLOAD"
  BY <1>1, InHand DEF IInv, Control, Uploading
<1>3. /\ Linked(r) /\ file[r] \in FileRow /\ file[r].state = "PENDING"
      /\ lock[r] = m /\ m # Worker
  BY <1>1, <1>2, ReceiptsAssumption DEF IInv, TypeOK, LocksHeld, UploadsStayAllowed, Uploading, Linked
<1>4. ASSUME NEW n \in Members \ {m}, tx[n].receipt = r
      PROVE  tx[n].kind # "RESERVE" /\ tx[n].pc \notin Uploading
  BY <1>3, <1>4 DEF IInv, Control, LocksHeld, ReservationsAreFresh, Linked, Uploading
<1>5. CASE tx' = [tx EXCEPT ![m].pc = "scan"] /\ UNCHANGED <<file, lock, object>>
  <2>1. /\ tx' \in [Members -> [pc : {"idle", "event", "file", "body", "stored", "scan"},
                                kind : {None, "RESERVE", "REMOVE", "UPLOAD"},
                                receipt : Receipts \cup {None}]]
        /\ tx'[m].pc = "scan" /\ tx'[m].kind = "UPLOAD" /\ tx'[m].receipt = r
        /\ \A n \in Members \ {m} : tx'[n] = tx[n]
    BY <1>2, <1>5 DEF IInv, TypeOK
  <2>2. TypeOK'
    BY <1>1, <1>5, <2>1 DEF IInv, TypeOK
  <2>3. Control'
    BY <1>2, <2>1, ReceiptsAssumption DEF IInv, Control, Uploading
  <2>4. LocksHeld'
    BY <1>1, <1>2, <1>5, <2>1 DEF IInv, LocksHeld, Uploading
  <2>5. ReservationsAreFresh'
    BY <1>2, <1>5, <2>1 DEF IInv, ReservationsAreFresh
  <2>6. UploadsStayAllowed'
    BY <1>1, <1>5, <2>1 DEF IInv, UploadsStayAllowed, Uploading, Linked
  <2>7. BatchStaysDue' /\ BytesHaveRows' /\ AvailableIsStored'
    BY <1>1, <1>5 DEF IInv, BatchStaysDue, BytesHaveRows, AvailableIsStored
  <2> QED
    BY <2>2, <2>3, <2>4, <2>5, <2>6, <2>7 DEF IInv
<1>6. CASE object' = [object EXCEPT ![r] = None] /\ Refuse(m)
  <2>1. file' = [file EXCEPT ![r] = file[r]] /\ Close(m)
    BY <1>2, <1>6 DEF IInv, TypeOK, Refuse
  <2>2. file[r].state # "AVAILABLE" /\ file[r].state # "DELETED" /\ lock[r] # Worker
    BY <1>3
  <2> HIDE DEF r
  <2> QED
    BY <1>1, <1>2, <1>3, <1>4, <1>6, <2>1, <2>2, OutcomeKeeps
<1> QED
  BY <1>5, <1>6 DEF Quarantine

\* The verdict of the scanner keeps the invariant.
LEMMA ScanKeeps ==
    ASSUME IInv, NEW m \in Members, Scan(m)
    PROVE  IInv'
<1>1. tx[m].pc = "scan" /\ UNCHANGED <<event, enabled, object, age, batch>>
  BY DEF Scan
<1>2. PICK state \in {"AVAILABLE", "FAILED", "QUARANTINED"} : Mark(m, tx[m].receipt, state)
  BY DEF Scan
<1>3. /\ Linked(tx[m].receipt) /\ object[tx[m].receipt] = "WHOLE" /\ tx[m].kind = "UPLOAD"
  BY <1>1 DEF IInv, Control, UploadsStayAllowed, Uploading
<1> QED
  BY <1>1, <1>2, <1>3, MarkKeeps DEF States

-----------------------------------------------------------------------------
(* The steps of the cleanup, and those around the receipts.                *)

\* Selecting what is due keeps the invariant: nobody holds it.
LEMMA SelectKeeps ==
    ASSUME IInv, DueForCleanup
    PROVE  IInv'
<1>1. /\ batch = NoBatch /\ batch' = [rows |-> Selected, left |-> Selected]
      /\ UNCHANGED <<file, event, enabled, object, age, tx>>
  BY DEF DueForCleanup
<1>2. Selected \subseteq Receipts /\ Receipts \subseteq Rows /\ "EVENT" \notin Selected
  BY ReceiptsAssumption DEF Selected, Rows
<1>3. /\ lock' \in [Rows -> Members \cup {Worker, None}]
      /\ \A x \in Rows : lock'[x] = IF x \in Selected THEN Worker ELSE lock[x]
  BY DEF DueForCleanup, IInv, TypeOK
<1>4. /\ \A r \in Receipts : lock[r] # Worker
      /\ batch'.rows = Selected /\ batch'.left = Selected
  BY <1>1 DEF IInv, TypeOK, NoBatch
<1>5. TypeOK'
  BY <1>1, <1>2, <1>3, <1>4, ReceiptsAssumption DEF IInv, TypeOK
<1>6. LocksHeld'
  <2>1. ASSUME NEW m \in Members, NEW x \in Rows, lock[x] = m PROVE lock'[x] = m
    BY <1>3, <2>1, ReceiptsAssumption DEF Selected, Free
  <2> QED
    BY <1>1, <1>2, <2>1, ReceiptsAssumption DEF IInv, TypeOK, LocksHeld, Control, Uploading, Rows
<1>7. BatchStaysDue'
  BY <1>1, <1>4 DEF BatchStaysDue, Selected, Due, CleanedUp
<1>8. Control' /\ ReservationsAreFresh' /\ UploadsStayAllowed' /\ BytesHaveRows' /\ AvailableIsStored'
  BY <1>1 DEF IInv, Control, ReservationsAreFresh, UploadsStayAllowed, Linked, BytesHaveRows,
              AvailableIsStored
<1> QED
  BY <1>5, <1>6, <1>7, <1>8 DEF IInv

\* What the cleanup holds, no upload has in hand.
LEMMA CleanupHoldsItsRows ==
    ASSUME IInv, NEW r \in batch.rows, NEW m \in Members, tx[m].pc \in Uploading
    PROVE  tx[m].receipt # r
BY ReceiptsAssumption DEF IInv, TypeOK, Control, LocksHeld, Uploading

\* Deleting the bytes of a selected row keeps the invariant.
LEMMA DeleteKeeps ==
    ASSUME IInv, NEW r \in Receipts, DeleteObject(r)
    PROVE  IInv'
<1>1. /\ r \in batch.left /\ UNCHANGED <<file, event, enabled, age, lock, tx>>
      /\ batch'.rows = batch.rows /\ batch'.left = batch.left \ {r}
      /\ batch' \in [rows : SUBSET Receipts, left : SUBSET Receipts]
  BY DEF DeleteObject, IInv, TypeOK
<1>2. /\ object' \in [Receipts -> {None, "PARTIAL", "WHOLE"}]
      /\ object'[r] = None
      /\ \A s \in Receipts \ {r} : object'[s] = object[s]
  BY DEF DeleteObject, IInv, TypeOK
<1>3. r \in batch.rows /\ file[r] # None /\ file[r].state \in CleanedUp
  BY <1>1 DEF IInv, BatchStaysDue
<1>4. TypeOK'
  BY <1>1, <1>2 DEF IInv, TypeOK
<1>5. UploadsStayAllowed'
  <2> SUFFICES ASSUME NEW m \in Members, tx[m].pc \in Uploading
               PROVE  object'[tx[m].receipt] = object[tx[m].receipt]
    BY <1>1 DEF IInv, UploadsStayAllowed, Linked
  <2>1. tx[m].receipt # r /\ tx[m].receipt \in Receipts
    BY <1>3, CleanupHoldsItsRows, InHand DEF Uploading
  <2> QED
    BY <1>2, <2>1
<1>6. BatchStaysDue'
  BY <1>1, <1>2 DEF IInv, TypeOK, BatchStaysDue
<1>7. BytesHaveRows' /\ AvailableIsStored'
  BY <1>1, <1>2, <1>3 DEF IInv, BytesHaveRows, AvailableIsStored, CleanedUp
<1>8. Control' /\ LocksHeld' /\ ReservationsAreFresh'
  BY <1>1 DEF IInv, Control, LocksHeld, ReservationsAreFresh
<1> QED
  BY <1>4, <1>5, <1>6, <1>7, <1>8 DEF IInv

\* The locks of the cleanup are released, and no others.
LEMMA WorkerReleases ==
    ASSUME IInv, lock' = Released(Worker)
    PROVE  /\ lock' \in [Rows -> Members \cup {Worker, None}]
           /\ \A x \in Rows : lock'[x] # Worker
           /\ \A x \in Rows, m \in Members : lock'[x] = m <=> lock[x] = m
BY ReceiptsAssumption DEF IInv, TypeOK, Released

\* The commit of the cleanup keeps the invariant: it deleted all the bytes.
LEMMA FinishKeeps ==
    ASSUME IInv, FinishCleanup
    PROVE  IInv'
<1>1. /\ batch.left = {} /\ batch' = NoBatch /\ lock' = Released(Worker)
      /\ UNCHANGED <<event, enabled, object, age, tx>>
  BY DEF FinishCleanup
<1>2. /\ batch'.rows = {} /\ batch'.left = {}
      /\ batch' \in [rows : SUBSET Receipts, left : SUBSET Receipts]
  BY <1>1 DEF NoBatch
<1>3. \A r \in batch.rows : r \in Receipts /\ file[r] # None /\ file[r] \in FileRow /\ object[r] = None
  BY <1>1 DEF IInv, TypeOK, BatchStaysDue
<1>4. \A r \in batch.rows : [file[r] EXCEPT !.state = "DELETED"] \in FileRow
                            /\ [file[r] EXCEPT !.state = "DELETED"].state = "DELETED"
  BY <1>3 DEF FileRow, States
<1>5. /\ file' \in [Receipts -> FileRow \cup {None}]
      /\ \A r \in Receipts \ batch.rows : file'[r] = file[r]
      /\ \A r \in batch.rows : file'[r] \in FileRow /\ file'[r].state = "DELETED"
  BY <1>3, <1>4 DEF FinishCleanup, IInv, TypeOK
<1>6. TypeOK'
  BY <1>1, <1>2, <1>5, WorkerReleases DEF IInv, TypeOK, Rows
<1>7. LocksHeld'
  BY <1>1, WorkerReleases, ReceiptsAssumption DEF IInv, TypeOK, LocksHeld, Control, Uploading, Rows
<1>8. ReservationsAreFresh'
  <2>1. ASSUME NEW m \in Members, tx[m].kind = "RESERVE"
        PROVE  tx[m].receipt \in Receipts \ batch.rows
    BY <1>3, <2>1, ReceiptsAssumption DEF IInv, TypeOK, Control, ReservationsAreFresh
  <2> QED
    BY <1>1, <1>5, <2>1 DEF IInv, ReservationsAreFresh
<1>9. UploadsStayAllowed'
  <2> SUFFICES ASSUME NEW m \in Members, tx[m].pc \in Uploading
               PROVE  file'[tx[m].receipt] = file[tx[m].receipt]
    BY <1>1 DEF IInv, UploadsStayAllowed, Linked
  <2>1. tx[m].receipt \in Receipts \ batch.rows
    BY CleanupHoldsItsRows, InHand DEF Uploading
  <2> QED
    BY <1>5, <2>1
<1>10. BatchStaysDue'
  BY <1>2 DEF BatchStaysDue
<1>11. BytesHaveRows' /\ AvailableIsStored'
  BY <1>1, <1>3, <1>5 DEF IInv, BytesHaveRows, AvailableIsStored
<1>12. Control'
  BY <1>1 DEF IInv, Control
<1> QED
  BY <1>6, <1>7, <1>8, <1>9, <1>10, <1>11, <1>12 DEF IInv

\* A cleanup that crashes keeps the invariant, whatever it deleted.
LEMMA CrashCleanupKeeps ==
    ASSUME IInv, CrashCleanup
    PROVE  IInv'
<1>1. batch' = NoBatch /\ lock' = Released(Worker) /\ UNCHANGED <<file, event, enabled, object, age, tx>>
  BY DEF CrashCleanup
<1>2. /\ batch'.rows = {} /\ batch'.left = {}
      /\ batch' \in [rows : SUBSET Receipts, left : SUBSET Receipts]
  BY <1>1 DEF NoBatch
<1>3. TypeOK'
  BY <1>1, <1>2, WorkerReleases DEF IInv, TypeOK, Rows
<1>4. LocksHeld'
  BY <1>1, WorkerReleases, ReceiptsAssumption DEF IInv, TypeOK, LocksHeld, Control, Uploading, Rows
<1>5. BatchStaysDue'
  BY <1>2 DEF BatchStaysDue
<1>6. Control' /\ ReservationsAreFresh' /\ UploadsStayAllowed' /\ BytesHaveRows' /\ AvailableIsStored'
  BY <1>1 DEF IInv, Control, ReservationsAreFresh, UploadsStayAllowed, Linked, BytesHaveRows,
              AvailableIsStored
<1> QED
  BY <1>3, <1>4, <1>5, <1>6 DEF IInv

\* Time and the module switch keep the invariant: uploads look at both again.
LEMMA SurroundingsKeep ==
    ASSUME IInv, (\E r \in Receipts : TimePasses(r)) \/ ToggleModule
    PROVE  IInv'
<1>1. UNCHANGED <<file, event, object, lock, tx, batch>>
  BY DEF TimePasses, ToggleModule
<1>2. age' \in [Receipts -> 0..2] /\ enabled' \in BOOLEAN
  <2>1. CASE ToggleModule
    BY <2>1 DEF ToggleModule, IInv, TypeOK
  <2>2. ASSUME NEW r \in Receipts, TimePasses(r)
        PROVE  age' \in [Receipts -> 0..2] /\ enabled' \in BOOLEAN
    <3>1. age[r] + 1 \in 0..2
      BY <2>2 DEF TimePasses
    <3> QED
      BY <2>2, <3>1 DEF TimePasses, IInv, TypeOK
  <2> QED
    BY <2>1, <2>2
<1>3. TypeOK'
  BY <1>1, <1>2 DEF IInv, TypeOK
<1> QED
  BY <1>1, <1>3 DEF IInv, Control, LocksHeld, ReservationsAreFresh, UploadsStayAllowed, Linked,
                    BatchStaysDue, BytesHaveRows, AvailableIsStored

\* A decision keeps the invariant: it waits for the uploads that checked the
\* expense.
LEMMA DecisionKeeps ==
    ASSUME IInv, DecideOrArchive
    PROVE  IInv'
<1>1. /\ Free("EVENT") /\ UNCHANGED <<file, enabled, object, age, lock, tx, batch>>
      /\ event' \in {"PENDING", "APPROVED", "CLOSED"}
  BY DEF DecideOrArchive
<1>2. \A m \in Members : tx[m].pc \notin Uploading
  BY <1>1, ReceiptsAssumption DEF Free, IInv, LocksHeld
<1>3. TypeOK'
  BY <1>1 DEF IInv, TypeOK
<1>4. UploadsStayAllowed'
  BY <1>1, <1>2 DEF UploadsStayAllowed
<1> QED
  BY <1>1, <1>3, <1>4 DEF IInv, Control, LocksHeld, ReservationsAreFresh, BatchStaysDue, BytesHaveRows,
                          AvailableIsStored

-----------------------------------------------------------------------------
(* The theorems.                                                           *)

\* The initial state satisfies the invariant.
LEMMA InitHolds == Init => IInv
<1> SUFFICES ASSUME Init PROVE IInv
  OBVIOUS
<1>1. TypeOK
  BY ReceiptsAssumption DEF Init, TypeOK, Idle, NoBatch, Rows
<1> QED
  BY <1>1, ReceiptsAssumption
     DEF Init, IInv, Control, LocksHeld, ReservationsAreFresh, UploadsStayAllowed, BatchStaysDue,
         BytesHaveRows, AvailableIsStored, Idle, NoBatch, Uploading

\* Every step keeps the invariant.
LEMMA StepKeeps == IInv /\ [Next]_vars => IInv'
<1> SUFFICES ASSUME IInv, [Next]_vars PROVE IInv'
  OBVIOUS
<1>1. ASSUME NEW m \in Members, Serve(m) PROVE IInv'
  BY <1>1, BeginKeeps, LockEventKeeps, LockFileKeeps, ReceiveKeeps, QuarantineKeeps, ScanKeeps DEF Serve
<1>2. ASSUME NEW m \in Members, Crash(m) PROVE IInv'
  BY <1>2, EndKeeps DEF Crash
<1>3. CASE Cleanup
  BY <1>3, SelectKeeps, DeleteKeeps, FinishKeeps, CrashCleanupKeeps DEF Cleanup
<1>4. CASE (\E r \in Receipts : TimePasses(r)) \/ ToggleModule
  BY <1>4, SurroundingsKeep
<1>5. CASE DecideOrArchive
  BY <1>5, DecisionKeeps
<1>6. CASE UNCHANGED vars
  BY <1>6 DEF vars, IInv, TypeOK, Control, LocksHeld, ReservationsAreFresh, UploadsStayAllowed, Linked,
              BatchStaysDue, BytesHaveRows, AvailableIsStored
<1> QED
  BY <1>1, <1>2, <1>3, <1>4, <1>5, <1>6 DEF Next

\* Requests hold the locks they need, uploads stay allowed and the cleanup
\* works on what is due, in every reachable state.
THEOREM ReceiptsInvariant == Spec => []IInv
<1> QED
  BY InitHolds, StepKeeps, PTL DEF Spec

\* The variables keep their types, and locks their holders.
THEOREM ReceiptsTypeCorrect == Spec => []TypeOK
<1>1. IInv => TypeOK
  BY DEF IInv
<1> QED
  BY <1>1, ReceiptsInvariant, PTL

\* A receipt offered for download has all its bytes in the store.
THEOREM AvailableAlwaysStored == Spec => []AvailableIsStored
<1>1. IInv => AvailableIsStored
  BY DEF IInv
<1> QED
  BY <1>1, ReceiptsInvariant, PTL

\* Bytes have a row, and one that the cleanup selects when it should.
THEOREM NoBytesAreStray == Spec => []NoStrayBytes
<1>1. ASSUME IInv PROVE NoStrayBytes
  <2> SUFFICES ASSUME NEW r \in Receipts, object[r] # None
               PROVE  /\ file[r] # None /\ file[r].state # "DELETED"
                      /\ file[r].state # "AVAILABLE" /\ age[r] = 2 => Due(r)
    BY DEF NoStrayBytes
  <2>1. file[r] # None /\ file[r].state # "DELETED"
    BY <1>1 DEF IInv, BytesHaveRows
  <2>2. file[r].state \in States
    BY <1>1, <2>1 DEF IInv, TypeOK, FileRow
  <2> QED
    BY <2>1, <2>2 DEF States, Due
<1> QED
  BY <1>1, ReceiptsInvariant, PTL

-----------------------------------------------------------------------------
(* What a step may do to a receipt.                                        *)

\* The row of a file is the same, lost its link, was marked by the upload that
\* holds it, or was cleaned up.
RowMoves(r) ==
    \/ file'[r] = file[r]
    \/ file'[r].state = file[r].state
    \/ \E m \in Members :
          /\ tx[m].receipt = r /\ tx[m].kind = "UPLOAD"
          /\ file[r].state = "PENDING"
          /\ file'[r].state = "AVAILABLE" => tx[m].pc = "scan"
    \/ r \in batch.rows /\ file'[r].state = "DELETED"

\* The bytes of a file are the same, or those of an upload or of the cleanup.
BytesMove(r) ==
    \/ object'[r] = object[r]
    \/ \E m \in Members : tx[m].receipt = r /\ tx[m].pc \in Uploading
    \/ r \in batch.rows

\* A mark moves the state of the row that it names.
LEMMA MarkMoves ==
    ASSUME IInv, NEW m \in Members, NEW r \in Receipts, NEW s \in Receipts, NEW state \in States,
           Linked(s), Mark(m, s, state)
    PROVE  IF r = s THEN file'[r].state = state ELSE file'[r] = file[r]
<1>1. file[s] \in FileRow
  BY DEF IInv, TypeOK, Linked
<1> QED
  BY <1>1 DEF Mark, Write, IInv, TypeOK, FileRow

\* The rows that a request may move.
LEMMA ServeMovesRows ==
    ASSUME IInv, NEW m \in Members, Serve(m), NEW r \in Receipts, file[r] # None
    PROVE  RowMoves(r)
<1> DEFINE s == tx[m].receipt
<1>1. CASE UNCHANGED file
  BY <1>1 DEF RowMoves
<1>2. CASE LockEvent(m)
  <2>1. tx[m].pc = "event" /\ s \in Receipts
    BY <1>2, InHand DEF LockEvent
  <2>2. CASE tx[m].kind = "RESERVE" /\ Reserve(m, s)
    <3>1. file[s] = None
      BY <2>2 DEF IInv, ReservationsAreFresh
    <3> QED
      BY <2>1, <2>2, <3>1 DEF Reserve, Write, Refuse, RowMoves, IInv, TypeOK
  <2>3. CASE tx[m].kind = "REMOVE" /\ FindRemovable(m, s)
    BY <2>3 DEF FindRemovable, Continue, Refuse, RowMoves
  <2>4. CASE tx[m].kind = "UPLOAD" /\ Authorize(m, s)
    <3>1. CASE Writable(m, s) /\ file[s].state = "PENDING" /\ Mark(m, s, "EXPIRED")
      BY <2>1, <2>4, <3>1, MarkMoves DEF RowMoves, Writable, States
    <3> QED
      BY <2>4, <3>1 DEF Authorize, Continue, Refuse, RowMoves
  <2> QED
    BY <1>2, <2>2, <2>3, <2>4 DEF LockEvent
<1>3. CASE LockFile(m)
  <2>1. s \in Receipts
    BY <1>3, InHand DEF LockFile
  <2>2. CASE Linked(s) /\ Write(m, s, [file[s] EXCEPT !.removed = TRUE])
    <3>1. file[s] \in FileRow
      BY <2>1, <2>2 DEF IInv, TypeOK, Linked
    <3> QED
      BY <2>1, <2>2, <3>1 DEF Write, RowMoves, IInv, TypeOK, FileRow
  <2> QED
    BY <1>3, <2>2 DEF LockFile, Remove, Continue, Refuse, RowMoves
<1>4. CASE Receive(m) \/ Scan(m)
  <2>1. /\ tx[m].pc \in {"body", "scan"} /\ tx[m].kind = "UPLOAD" /\ s \in Receipts
        /\ Linked(s) /\ file[s].state = "PENDING"
    BY <1>4, InHand DEF Receive, Scan, IInv, Control, UploadsStayAllowed, Uploading
  <2>2. ASSUME NEW state \in States, Mark(m, s, state), state = "AVAILABLE" => tx[m].pc = "scan"
        PROVE  RowMoves(r)
    BY <2>1, <2>2, MarkMoves DEF RowMoves
  <2>3. \/ UNCHANGED file
        \/ \E state \in {"EXPIRED", "FAILED"} : Mark(m, s, state)
        \/ tx[m].pc = "scan" /\ \E state \in {"AVAILABLE", "FAILED", "QUARANTINED"} : Mark(m, s, state)
    BY <1>4 DEF Receive, Scan, Refuse
  <2> QED
    BY <1>1, <2>2, <2>3 DEF States
<1> QED
  BY <1>1, <1>2, <1>3, <1>4 DEF Serve, Begin, Quarantine, Refuse

\* The rows that any step may move.
LEMMA StepMovesRows ==
    ASSUME IInv, Next, NEW r \in Receipts, file[r] # None
    PROVE  RowMoves(r)
<1>1. CASE UNCHANGED file
  BY <1>1 DEF RowMoves
<1>2. CASE FinishCleanup
  <2>1. r \in batch.rows => [file[r] EXCEPT !.state = "DELETED"].state = "DELETED"
    BY DEF IInv, TypeOK, FileRow
  <2> QED
    BY <1>2, <2>1 DEF FinishCleanup, RowMoves
<1> QED
  BY <1>1, <1>2, ServeMovesRows
     DEF Next, Crash, Cleanup, DueForCleanup, DeleteObject, CrashCleanup, TimePasses,
         DecideOrArchive, ToggleModule

\* The bytes that any step may move.
LEMMA StepMovesBytes ==
    ASSUME IInv, Next, NEW r \in Receipts
    PROVE  BytesMove(r)
<1>1. CASE UNCHANGED object
  BY <1>1 DEF BytesMove
<1>2. ASSUME NEW m \in Members, Receive(m) \/ Quarantine(m)
      PROVE  BytesMove(r)
  <2>1. tx[m].pc \in Uploading
    BY <1>2 DEF Receive, Quarantine, Uploading
  <2> QED
    BY <1>2, <2>1 DEF Receive, Quarantine, BytesMove, IInv, TypeOK
<1>3. ASSUME NEW s \in Receipts, DeleteObject(s)
      PROVE  BytesMove(r)
  BY <1>3 DEF DeleteObject, BytesMove, IInv, TypeOK, BatchStaysDue
<1> QED
  BY <1>1, <1>2, <1>3
     DEF Next, Serve, Begin, LockEvent, LockFile, Scan, Crash, Cleanup, DueForCleanup, FinishCleanup,
         CrashCleanup, TimePasses, DecideOrArchive, ToggleModule

\* A receipt becomes available only while its uploader may attach it.
THEOREM ReceiptsAttachWhileAllowed == Spec => AttachedWhileAllowed
<1> DEFINE Allowed ==
        \A r \in Receipts :
            file[r] # None /\ file[r].state # "AVAILABLE" /\ file'[r].state = "AVAILABLE" =>
               /\ ~file[r].removed
               /\ \E m \in Members :
                     /\ lock[r] = m
                     /\ Role[m] = "CONTRIBUTOR" => Creator = m /\ event = "PENDING"
<1>1. ASSUME IInv, [Next]_vars PROVE [Allowed]_vars
  <2> SUFFICES ASSUME Next, NEW r \in Receipts,
                      file[r] # None, file[r].state # "AVAILABLE", file'[r].state = "AVAILABLE"
               PROVE  /\ ~file[r].removed
                      /\ \E m \in Members :
                            /\ lock[r] = m
                            /\ Role[m] = "CONTRIBUTOR" => Creator = m /\ event = "PENDING"
    BY <1>1
  <2>1. PICK m \in Members : tx[m].receipt = r /\ tx[m].kind = "UPLOAD" /\ tx[m].pc = "scan"
    BY <1>1, StepMovesRows DEF RowMoves
  <2> QED
    BY <1>1, <2>1 DEF IInv, LocksHeld, UploadsStayAllowed, Linked, Uploading
<1> QED
  BY <1>1, ReceiptsInvariant, PTL DEF Spec, AttachedWhileAllowed

\* An available receipt and its bytes stay, also when its link is removed.
THEOREM ReceiptsAvailableStays == Spec => AvailableStays
<1> DEFINE Stays ==
        \A r \in Receipts :
            file[r] # None /\ file[r].state = "AVAILABLE" =>
               file'[r].state = "AVAILABLE" /\ object'[r] = object[r]
<1>1. ASSUME IInv, [Next]_vars PROVE [Stays]_vars
  <2> SUFFICES ASSUME Next, NEW r \in Receipts, file[r] # None, file[r].state = "AVAILABLE"
               PROVE  file'[r].state = "AVAILABLE" /\ object'[r] = object[r]
    BY <1>1
  <2>1. r \notin batch.rows
    BY <1>1 DEF IInv, BatchStaysDue, CleanedUp
  <2>2. \A m \in Members : tx[m].receipt = r => tx[m].pc \notin Uploading
    BY <1>1 DEF IInv, UploadsStayAllowed
  <2>3. file'[r].state = "AVAILABLE"
    BY <1>1, <2>1, StepMovesRows DEF RowMoves
  <2>4. object'[r] = object[r]
    BY <1>1, <2>1, <2>2, StepMovesBytes DEF BytesMove
  <2> QED
    BY <2>3, <2>4
<1> QED
  BY <1>1, ReceiptsInvariant, PTL DEF Spec, AvailableStays
=============================================================================
