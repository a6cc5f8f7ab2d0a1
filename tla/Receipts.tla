------------------------------ MODULE Receipts ------------------------------
(***************************************************************************)
(* The protected receipts of one expense: a row in the database, bytes in  *)
(* a store outside of it.  A request is one READ COMMITTED transaction     *)
(* whose steps end where it waits for a row lock, for the client, for the  *)
(* store or for the scanner.  Only the store keeps what an unfinished      *)
(* transaction did.  Each member has one request in flight: authentication *)
(* holds its account row.                                                  *)
(*                                                                         *)
(* Requests that are answered without a change of state (replays, status,  *)
(* list, download, invalid metadata) are left out.  Claims are those of    *)
(* FinanceCommands: here each reservation and removal is a new operation.  *)
(* The row of a file and its link are always locked together and are one.  *)
(* The store is FilesystemReceiptStorage, which every environment but TEST *)
(* uses: it outlives the process, and creates a file only if it is new.    *)
(* The verdict of the scanner is a free choice.  Nothing in the repository *)
(* calls the cleanup; it may run whenever something is due.                *)
(***************************************************************************)
EXTENDS Naturals

CONSTANTS
    Members,      \* those who send requests
    Role,         \* Role[m]: "ADMIN" or "CONTRIBUTOR"
    Creator,      \* the member who submitted the expense
    Receipts,     \* identifiers of files and of their objects in the store
    Worker,       \* the cleanup
    None

VARIABLES
    file,      \* committed rows: file[r] is None or a FileRow
    event,     \* the expense: "CLOSED" if it was rejected or archived
    enabled,   \* the HOUSEHOLD_FINANCE module switch
    object,    \* the store: object[r] is None, "PARTIAL" or "WHOLE"
    age,       \* 0: reservation open; 1: over; 2: a day after the last upload or failure
    lock,      \* row locks: the holder, or None
    tx,        \* the request each member has in flight
    batch      \* the rows the cleanup has locked, and those it has not deleted yet

vars == <<file, event, enabled, object, age, lock, tx, batch>>

States == {"PENDING", "QUARANTINED", "AVAILABLE", "FAILED", "EXPIRED", "DELETED"}

FileRow == [state : States, owner : Members, removed : BOOLEAN]

ASSUME ReceiptsAssumption ==
    /\ Role \in [Members -> {"ADMIN", "CONTRIBUTOR"}]
    /\ Creator \in Members
    /\ None \notin Members \cup Receipts \cup {Worker}
    /\ None \notin FileRow \cup {"RESERVE", "REMOVE", "UPLOAD", "PARTIAL", "WHOLE"}
    /\ Worker \notin Members
    /\ "EVENT" \notin Receipts

Rows    == Receipts \cup {"EVENT"}
Idle    == [pc |-> "idle", kind |-> None, receipt |-> None]
NoBatch == [rows |-> {}, left |-> {}]

Init ==
    /\ file = [r \in Receipts |-> None]
    /\ event = "PENDING"
    /\ enabled = TRUE
    /\ object = [r \in Receipts |-> None]
    /\ age = [r \in Receipts |-> 0]
    /\ lock = [x \in Rows |-> None]
    /\ tx = [m \in Members |-> Idle]
    /\ batch = NoBatch

-----------------------------------------------------------------------------
(* What the queries select *)

\* The expense as a parent that may be attached to or detached from.
ParentOpen(m) ==
    /\ event # "CLOSED"
    /\ Role[m] = "CONTRIBUTOR" => Creator = m /\ event = "PENDING"

\* A receipt that no request is reserving; its id is new.
Unused(r) == file[r] = None /\ \A m \in Members : tx[m].receipt # r

Linked(r) == file[r] # None /\ ~file[r].removed

\* The file with its link and expense, for an upload.
Writable(m, r) ==
    /\ Linked(r)
    /\ Role[m] = "CONTRIBUTOR" =>
          file[r].owner = m /\ Creator = m /\ event = "PENDING"

-----------------------------------------------------------------------------
(* Locks, and the end of a transaction *)

Free(x) == lock[x] = None

\* Bug: only the locks of files are released.
ReleasedFiles(holder) ==
    [x \in Rows |-> IF lock[x] = holder /\ x # "EVENT" THEN None ELSE lock[x]]

Released(holder) == [x \in Rows |-> IF lock[x] = holder THEN None ELSE lock[x]]

Close(m) ==
    /\ lock' = Released(m)
    /\ tx' = [tx EXCEPT ![m] = Idle]

Continue(m, x, pc) ==
    /\ lock' = [lock EXCEPT ![x] = m]
    /\ tx' = [tx EXCEPT ![m].pc = pc]
    /\ UNCHANGED file

Refuse(m) == Close(m) /\ UNCHANGED file

\* The request commits the row it wrote.
Write(m, r, row) ==
    /\ file' = [file EXCEPT ![r] = row]
    /\ Close(m)

Mark(m, r, state) == Write(m, r, [file[r] EXCEPT !.state = state])

\* Connection lost, unhandled exception, victim of a deadlock: only what the
\* store has taken remains.
Crash(m) ==
    /\ tx[m].pc # "idle"
    /\ Close(m)
    /\ UNCHANGED <<file, event, enabled, object, age, batch>>

-----------------------------------------------------------------------------
(* Requests up to the locks they need *)

Await(m, kind, r, pc) ==
    tx' = [tx EXCEPT ![m] = [pc |-> pc, kind |-> kind, receipt |-> r]]

\* The module is checked before the query that waits for the locks, and not by
\* it.  Requests that would be refused as things stand are left out.
Begin(m) ==
    /\ tx[m].pc = "idle"
    /\ enabled
    /\ \E r \in Receipts :
       \/ ParentOpen(m) /\ Unused(r)  /\ Await(m, "RESERVE", r, "event")
       \/ ParentOpen(m) /\ Linked(r)  /\ Await(m, "REMOVE", r, "event")
       \/ /\ Writable(m, r) /\ file[r].state = "PENDING"
          /\ Await(m, "UPLOAD", r, "file")
    /\ UNCHANGED <<file, event, enabled, object, age, lock, batch>>

\* Whether a row that was waited for still qualifies is checked once it is
\* locked; the module may have been disabled meanwhile.
Reserve(m, r) ==
    IF ParentOpen(m)
    THEN Write(m, r, [state |-> "PENDING", owner |-> m, removed |-> FALSE])
    ELSE Refuse(m)

FindRemovable(m, r) ==
    IF ParentOpen(m) /\ Linked(r) THEN Continue(m, "EVENT", "file") ELSE Refuse(m)

\* Bug: the upload does not lock the expense.
AuthorizeFileOnly(m, r) ==
    IF ~Writable(m, r) \/ file[r].state # "PENDING" THEN Refuse(m)
    ELSE IF age[r] = 0 THEN Continue(m, r, "body")
    ELSE IF enabled THEN Mark(m, r, "EXPIRED") ELSE Refuse(m)

\* Marking a reservation that ran out checks the module again.
Authorize(m, r) ==
    IF ~Writable(m, r) \/ file[r].state # "PENDING" THEN Refuse(m)
    ELSE IF age[r] = 0 THEN Continue(m, "EVENT", "body")
    ELSE IF enabled THEN Mark(m, r, "EXPIRED") ELSE Refuse(m)

LockEvent(m) ==
    /\ tx[m].pc = "event"
    /\ Free("EVENT")
    /\ \/ tx[m].kind = "RESERVE" /\ Reserve(m, tx[m].receipt)
       \/ tx[m].kind = "REMOVE"  /\ FindRemovable(m, tx[m].receipt)
       \/ tx[m].kind = "UPLOAD"  /\ Authorize(m, tx[m].receipt)
    /\ UNCHANGED <<event, enabled, object, age, batch>>

Remove(m, r) ==
    IF Linked(r) THEN Write(m, r, [file[r] EXCEPT !.removed = TRUE]) ELSE Refuse(m)

LockFile(m) ==
    /\ tx[m].pc = "file"
    /\ Free(tx[m].receipt)
    /\ \/ tx[m].kind = "REMOVE" /\ Remove(m, tx[m].receipt)
       \/ tx[m].kind = "UPLOAD" /\ Continue(m, tx[m].receipt, "event")
    /\ UNCHANGED <<event, enabled, object, age, batch>>

-----------------------------------------------------------------------------
(* The upload, once its rows are locked *)

\* The body arrived; the reservation may have run out while it did.  The
\* store refuses a key it has, and may fail half-way; then the failure that
\* was marked is rolled back.
Receive(m) ==
    /\ tx[m].pc = "body"
    /\ LET r == tx[m].receipt IN
       \/ /\ \/ ~enabled /\ Refuse(m)
             \/ enabled /\ age[r] > 0 /\ Mark(m, r, "EXPIRED")
             \/ enabled /\ age[r] = 0 /\ Mark(m, r, "FAILED")   \* other content than reserved
          /\ UNCHANGED object
       \/ /\ enabled /\ age[r] = 0
          /\ \/ /\ object[r] = None
                /\ object' = [object EXCEPT ![r] = "WHOLE"]
                /\ tx' = [tx EXCEPT ![m].pc = "stored"]
                /\ UNCHANGED <<file, lock>>
             \/ /\ object[r] = None
                /\ object' = [object EXCEPT ![r] = "PARTIAL"]
                /\ Refuse(m)
             \/ Refuse(m) /\ UNCHANGED object
    /\ UNCHANGED <<event, enabled, age, batch>>

\* Authority is checked again before each mark.
Quarantine(m) ==
    /\ tx[m].pc = "stored"
    /\ IF enabled
       THEN /\ tx' = [tx EXCEPT ![m].pc = "scan"]
            /\ UNCHANGED <<file, lock, object>>
       ELSE /\ object' = [object EXCEPT ![tx[m].receipt] = None]
            /\ Refuse(m)
    /\ UNCHANGED <<event, enabled, age, batch>>

\* Unsafe content and an unavailable scanner fail the file.  A mark that is
\* refused commits what was marked before it.
Scan(m) ==
    /\ tx[m].pc = "scan"
    /\ \E state \in IF enabled THEN {"AVAILABLE", "FAILED"} ELSE {"QUARANTINED"} :
          Mark(m, tx[m].receipt, state)
    /\ UNCHANGED <<event, enabled, object, age, batch>>

-----------------------------------------------------------------------------
(* Cleanup: one transaction for all rows that are due and not locked *)

\* Bug: uploads whose scan was never recorded are forgotten.
DueUnlessQuarantined(r) ==
    /\ file[r] # None
    /\ \/ file[r].state = "EXPIRED"
       \/ file[r].state = "PENDING" /\ age[r] > 0
       \/ file[r].state = "FAILED" /\ age[r] = 2

\* Bug: removed receipts are cleaned up too.
DueWhenRemoved(r) ==
    file[r] # None /\ (file[r].removed \/ (file[r].state = "PENDING" /\ age[r] > 0))

Due(r) ==
    /\ file[r] # None
    /\ \/ file[r].state = "EXPIRED"
       \/ file[r].state = "PENDING" /\ age[r] > 0
       \/ file[r].state \in {"QUARANTINED", "FAILED"} /\ age[r] = 2

\* Bug: rows that uploads hold are selected too.
SelectedRegardless == {r \in Receipts : Due(r)}

Selected == {r \in Receipts : Due(r) /\ Free(r)}

DueForCleanup ==
    /\ batch = NoBatch
    /\ Selected # {}
    /\ batch' = [rows |-> Selected, left |-> Selected]
    /\ lock' = [x \in Rows |-> IF x \in Selected THEN Worker ELSE lock[x]]
    /\ UNCHANGED <<file, event, enabled, object, age, tx>>

\* The row is marked too, which nobody sees before the commit.
DeleteObject(r) ==
    /\ r \in batch.left
    /\ object' = [object EXCEPT ![r] = None]
    /\ batch' = [batch EXCEPT !.left = @ \ {r}]
    /\ UNCHANGED <<file, event, enabled, age, lock, tx>>

FinishCleanup ==
    /\ batch.rows # {} /\ batch.left = {}
    /\ file' = [r \in Receipts |->
                  IF r \in batch.rows THEN [file[r] EXCEPT !.state = "DELETED"] ELSE file[r]]
    /\ lock' = Released(Worker)
    /\ batch' = NoBatch
    /\ UNCHANGED <<event, enabled, object, age, tx>>

CrashCleanup ==
    /\ batch # NoBatch
    /\ lock' = Released(Worker)
    /\ batch' = NoBatch
    /\ UNCHANGED <<file, event, enabled, object, age, tx>>

Cleanup == DueForCleanup \/ (\E r \in Receipts : DeleteObject(r)) \/ FinishCleanup \/ CrashCleanup

-----------------------------------------------------------------------------
(* Around the receipts *)

\* The Admin approves or rejects a pending expense, and archives a decided one.
DecideOrArchive ==
    /\ enabled
    /\ Free("EVENT")
    /\ \/ event = "PENDING" /\ event' \in {"APPROVED", "CLOSED"}
       \/ event = "APPROVED" /\ event' = "CLOSED"
    /\ UNCHANGED <<file, enabled, object, age, lock, tx, batch>>

ToggleModule ==
    /\ enabled' = ~enabled
    /\ UNCHANGED <<file, event, object, age, lock, tx, batch>>

\* Requests may outlast a reservation, but not a day.  Nothing depends on the
\* age of a file that is available or deleted.
TimePasses(r) ==
    /\ file[r] # None /\ file[r].state \notin {"AVAILABLE", "DELETED"}
    /\ age[r] = 0 \/ (age[r] = 1 /\ Free(r))
    /\ age' = [age EXCEPT ![r] = @ + 1]
    /\ UNCHANGED <<file, event, enabled, object, lock, tx, batch>>

Serve(m) ==
    Begin(m) \/ LockEvent(m) \/ LockFile(m) \/ Receive(m) \/ Quarantine(m) \/ Scan(m)

Next ==
    \/ \E m \in Members : Serve(m) \/ Crash(m)
    \/ Cleanup
    \/ \E r \in Receipts : TimePasses(r)
    \/ DecideOrArchive \/ ToggleModule

Spec == Init /\ [][Next]_vars

-----------------------------------------------------------------------------
(* Properties *)

\* Every variable has its type, and a lock is held by a request or the cleanup
\* that is under way.
TypeOK ==
    /\ file \in [Receipts -> FileRow \cup {None}]
    /\ event \in {"PENDING", "APPROVED", "CLOSED"}
    /\ enabled \in BOOLEAN
    /\ object \in [Receipts -> {None, "PARTIAL", "WHOLE"}]
    /\ age \in [Receipts -> 0..2]
    /\ tx \in [Members -> [pc : {"idle", "event", "file", "body", "stored", "scan"},
                           kind : {None, "RESERVE", "REMOVE", "UPLOAD"},
                           receipt : Receipts \cup {None}]]
    /\ batch \in [rows : SUBSET Receipts, left : SUBSET Receipts]
    /\ lock \in [Rows -> Members \cup {Worker, None}]
    /\ \A x \in Rows, m \in Members : lock[x] = m => tx[m].pc # "idle"
    /\ \A r \in Receipts : lock[r] = Worker <=> r \in batch.rows

\* What is offered for download has all its bytes in the store, whatever the
\* cleanup and earlier uploads of it did.
AvailableIsStored ==
    \A r \in Receipts :
        file[r] # None /\ file[r].state = "AVAILABLE" => object[r] = "WHOLE"

\* Bytes belong to a row that is not DELETED, and those of a receipt that did
\* not become available are due for deletion a day later: nothing a crash or a
\* disabled module leaves in the store stays there unnoticed.
NoStrayBytes ==
    \A r \in Receipts :
        object[r] # None =>
            /\ file[r] # None /\ file[r].state # "DELETED"
            /\ file[r].state # "AVAILABLE" /\ age[r] = 2 => Due(r)

\* A receipt becomes available only while it is linked and its uploader may
\* attach to the expense: for a Contributor, while the expense is pending.
AttachedWhileAllowed ==
    [][\A r \in Receipts :
          file[r] # None /\ file[r].state # "AVAILABLE" /\ file'[r].state = "AVAILABLE" =>
             /\ ~file[r].removed
             /\ \E m \in Members :
                   /\ lock[r] = m
                   /\ Role[m] = "CONTRIBUTOR" => Creator = m /\ event = "PENDING"]_vars

\* An available receipt and its bytes stay, also when its link is removed: a
\* download, which locks nothing, finds the bytes of the row it has read.
AvailableStays ==
    [][\A r \in Receipts :
          file[r] # None /\ file[r].state = "AVAILABLE" =>
             file'[r].state = "AVAILABLE" /\ object'[r] = object[r]]_vars
=============================================================================
