---------------------------- MODULE SyncReceiver ----------------------------
(***************************************************************************)
(* The upload of a sealed session from the phone (net/SyncClient.kt) into  *)
(* the central database (sync-receiver, internal/sync/receiver.go):        *)
(* init, one chunk after the other, complete.                              *)
(*                                                                         *)
(* An attempt is one call of SyncClient.upload; it has an upload id of its *)
(* own, and attempts of the same session may overlap, since close() and    *)
(* syncPending start them independently.  SyncClient sends one request at  *)
(* a time, in order; the receiver must also stand other clients of its     *)
(* API, which send any request of their upload at any time (InOrder).  A   *)
(* request may reach the server more than once (the HTTP engine sends it   *)
(* again when the connection fails before the answer), its handler may     *)
(* fail between any two of its statements, and the answer may be lost.     *)
(* Every statement of writeAttendanceLogs commits on its own: there is no  *)
(* enclosing transaction.                                                  *)
(*                                                                         *)
(* The module is about the uploads of one session.  Rows of different      *)
(* sessions share no key.                                                  *)
(***************************************************************************)
EXTENDS Integers, Sequences, FiniteSets

CONSTANTS
    Uploads,        \* upload ids, one for each attempt
    Handlers,       \* requests the server can be serving at a time
    TotalChunks,    \* chunks of a package
    MaxRows,        \* rows of the phone's ledger
    Resolved,       \* rows whose student hash is in the hash index
    InOrder,        \* do clients send their requests in SyncClient's order
    None,
    MaxFaults       \* lost answers, failed statements, resends, lost chunks, bad keys

ASSUME ReceiverAssumption ==
    /\ TotalChunks \in Nat \ {0}
    /\ MaxRows \in Nat
    /\ MaxFaults \in Nat
    /\ InOrder \in BOOLEAN
    /\ Resolved \subseteq 1 .. MaxRows
    /\ None \notin Uploads

VARIABLES
    client,         \* client[u]: the phone's side of attempt u
    package,        \* package[u]: what it seals
    status,         \* sync_uploads.status ("none": no such row)
    received,       \* sync_uploads.received_chunks
    redis,          \* redis[u]: the chunks found under sync:chunk:u:*
    handler,        \* handler[h]: the request being served
    sessionRow,     \* does the session exist centrally
    lecturerLogs,   \* how many lecturer_attendance_logs rows it has
    central,        \* its attendance_logs rows, by sequence number
    faults

phone == <<client, package>>
uploads == <<status, received, redis>>
tables == <<sessionRow, lecturerLogs, central>>
vars == <<phone, uploads, handler, tables, faults>>

Chunk == 0 .. TotalChunks - 1

\* A request is the index of a chunk, or TotalChunks for complete.
Request == 0 .. TotalChunks

\* The package has the first `rows' rows of the append-only ledger.  It is
\* `sound' if its checksum and HMAC verify under the device key the server
\* holds for the coordinator.
Package == [rows : 0 .. MaxRows, proof : BOOLEAN, sound : BOOLEAN]
NoPackage == [rows |-> 0, proof |-> FALSE, sound |-> FALSE]

Client == [pc : {"new", "sending", "acked", "failed"}, next : Request, sent : BOOLEAN]
NewClient == [pc |-> "new", next |-> 0, sent |-> FALSE]

\* Where a handler is: in Chunk, in Complete before anything is written, and
\* in writeAttendanceLogs and after.
Receiving == {"store", "mark"}
Checking == {"count", "assemble"}
Writing == {"session", "seed?", "seed", "rows", "finish"}

Handler == [pc : {"idle"} \cup Receiving \cup Checking \cup Writing,
            upload : Uploads \cup {None}, request : Request, row : 1 .. MaxRows + 1]
IdleHandler == [pc |-> "idle", upload |-> None, request |-> 0, row |-> 1]

Elements(s) == {s[i] : i \in 1 .. Len(s)}

TypeOK ==
    /\ client \in [Uploads -> Client]
    /\ package \in [Uploads -> Package]
    /\ status \in [Uploads -> {"none", "PENDING", "UPLOADING", "SYNCED"}]
    /\ received \in [Uploads -> Seq(Chunk)]
    /\ redis \in [Uploads -> SUBSET Chunk]
    /\ handler \in [Handlers -> Handler]
    /\ sessionRow \in BOOLEAN
    /\ lecturerLogs \in Nat
    /\ central \subseteq 1 .. MaxRows
    /\ faults \in 0 .. MaxFaults

Init ==
    /\ client = [u \in Uploads |-> NewClient]
    /\ package = [u \in Uploads |-> NoPackage]
    /\ status = [u \in Uploads |-> "none"]
    /\ received = [u \in Uploads |-> <<>>]
    /\ redis = [u \in Uploads |-> {}]
    /\ handler = [h \in Handlers |-> IdleHandler]
    /\ sessionRow = FALSE
    /\ lecturerLogs = 0
    /\ central = {}
    /\ faults = 0

Fault == faults < MaxFaults /\ faults' = faults + 1

-----------------------------------------------------------------------------
(* The client, SyncClient.upload.                                          *)

\* POST /init is answered with a fresh upload id, or its answer is lost.  A
\* package that does not verify was sealed under a key that has since been
\* replaced.
InitUpload(u, p) ==
    /\ client[u].pc = "new"
    /\ package' = [package EXCEPT ![u] = p]
    /\ status' = [status EXCEPT ![u] = "PENDING"]
    /\ \/ /\ p.sound
          /\ client' = [client EXCEPT ![u].pc = "sending"]
          /\ UNCHANGED faults
       \/ /\ Fault
          /\ client' = [client EXCEPT ![u].pc = IF p.sound THEN "failed" ELSE "sending"]
    /\ UNCHANGED <<received, redis, handler, tables>>

\* Does handler h serve the request that the client of its upload waits for?
Serves(h, u) ==
    /\ handler[h].pc # "idle"
    /\ handler[h].upload = u
    /\ client[u].pc = "sending"
    /\ client[u].sent
    /\ handler[h].request = client[u].next

\* Request q arrives; it is a fault if the answer to the one before is still
\* out (a resend, or a client that does not wait).  The checks on tenant and
\* index read columns that never change, so they are part of the arrival.
Arrive(h, u, q) ==
    /\ handler[h].pc = "idle"
    /\ client[u].pc = "sending"
    /\ InOrder => q = client[u].next
    /\ IF client[u].sent THEN Fault ELSE UNCHANGED faults
    /\ client' = [client EXCEPT ![u].next = q, ![u].sent = TRUE]
    /\ handler' = [handler EXCEPT ![h] =
                     [pc |-> IF q < TotalChunks THEN "store" ELSE "count",
                      upload |-> u, request |-> q, row |-> 1]]
    /\ UNCHANGED <<package, uploads, tables>>

\* The client of an attempt that has been answered: on to the next request,
\* or upload() returns.
Answered(c, ok) ==
    IF ~ok THEN [c EXCEPT !.pc = "failed"]
    ELSE IF c.next < TotalChunks THEN [c EXCEPT !.next = c.next + 1, !.sent = FALSE]
    ELSE [c EXCEPT !.pc = "acked"]

\* The handler writes its answer.  The client may get it if it still waits
\* for it; a lost answer is a fault.
Reply(h, ok) ==
    LET u == handler[h].upload
    IN  /\ handler' = [handler EXCEPT ![h] = IdleHandler]
        /\ \/ /\ Serves(h, u)
              /\ client' = [client EXCEPT ![u] = Answered(client[u], ok)]
              /\ UNCHANGED faults
           \/ /\ IF Serves(h, u) THEN Fault ELSE UNCHANGED faults
              /\ UNCHANGED client
        /\ UNCHANGED package

\* The request times out, upload() throws and the attempt has failed.  It is
\* a fault if the server was still at work on it.
Timeout(u) ==
    /\ client[u].pc = "sending"
    /\ client[u].sent
    /\ IF \E h \in Handlers : Serves(h, u) THEN Fault ELSE UNCHANGED faults
    /\ client' = [client EXCEPT ![u].pc = "failed"]
    /\ UNCHANGED <<package, uploads, handler, tables>>

-----------------------------------------------------------------------------
(* Chunk.                                                                  *)

\* rdb.Set, whose error is ignored.
ChunkStore(h) ==
    LET u == handler[h].upload
    IN  /\ handler[h].pc = "store"
        /\ \/ /\ redis' = [redis EXCEPT ![u] = @ \cup {handler[h].request}]
              /\ UNCHANGED faults
           \/ /\ Fault
              /\ UNCHANGED redis
        /\ handler' = [handler EXCEPT ![h].pc = "mark"]
        /\ UNCHANGED <<phone, status, received, tables>>

\* received_chunks after the UPDATE: array_append unless it is there already.
Marked(s, i) == IF i \in Elements(s) THEN s ELSE Append(s, i)

ChunkMark(h) ==
    LET u == handler[h].upload
    IN  /\ handler[h].pc = "mark"
        /\ received' = [received EXCEPT ![u] = Marked(@, handler[h].request)]
        /\ status' = [status EXCEPT ![u] = "UPLOADING"]
        /\ Reply(h, TRUE)
        /\ UNCHANGED <<redis, tables>>

\* A chunk expires, or Redis loses it.
ChunkExpire(u) ==
    /\ redis[u] # {}
    /\ Fault
    /\ \E i \in redis[u] : redis' = [redis EXCEPT ![u] = @ \ {i}]
    /\ UNCHANGED <<phone, status, received, handler, tables>>

-----------------------------------------------------------------------------
(* Complete.                                                               *)

\* The number of received chunks decides between UPLOAD_INCOMPLETE and going on.
CompleteCount(h) ==
    /\ handler[h].pc = "count"
    /\ \/ /\ Len(received[handler[h].upload]) < TotalChunks
          /\ Reply(h, FALSE)
       \/ /\ Len(received[handler[h].upload]) >= TotalChunks
          /\ handler' = [handler EXCEPT ![h].pc = "assemble"]
          /\ UNCHANGED <<phone, faults>>
    /\ UNCHANGED <<uploads, tables>>

\* A faulty variant of CompleteAssemble, which trusts a package that is all there.
CompleteAssembleUnsealed(h) ==
    LET u == handler[h].upload
        verified == redis[u] = Chunk
    IN  /\ handler[h].pc = "assemble"
        /\ \/ /\ ~verified
              /\ Reply(h, FALSE)
           \/ /\ verified
              /\ handler' = [handler EXCEPT ![h].pc = "session"]
              /\ UNCHANGED <<phone, faults>>
        /\ UNCHANGED <<uploads, tables>>

\* The chunks are read back (CHUNK_MISSING), the checksum is compared and the
\* package is authenticated and decrypted.
CompleteAssemble(h) ==
    LET u == handler[h].upload
        verified == redis[u] = Chunk /\ package[u].sound
    IN  /\ handler[h].pc = "assemble"
        /\ \/ /\ ~verified
              /\ Reply(h, FALSE)
           \/ /\ verified
              /\ handler' = [handler EXCEPT ![h].pc = "session"]
              /\ UNCHANGED <<phone, faults>>
        /\ UNCHANGED <<uploads, tables>>

\* A faulty variant of WriteSession: a retry starts afresh.
WriteSessionAfresh(h) ==
    /\ handler[h].pc = "session"
    /\ sessionRow' = TRUE
    /\ central' = {}
    /\ handler' = [handler EXCEPT ![h].pc = IF package[handler[h].upload].proof
                                            THEN "seed?" ELSE "rows"]
    /\ UNCHANGED <<phone, uploads, lecturerLogs, faults>>

\* writeAttendanceLogs: the session row, unless it is there.
WriteSession(h) ==
    /\ handler[h].pc = "session"
    /\ sessionRow' = TRUE
    /\ handler' = [handler EXCEPT ![h].pc = IF package[handler[h].upload].proof
                                            THEN "seed?" ELSE "rows"]
    /\ UNCHANGED <<phone, uploads, lecturerLogs, central, faults>>

\* INSERT ... WHERE NOT EXISTS: the sub-select sees what was committed when
\* the statement started, and no unique index stands behind it, so that the
\* insertion is a step of its own.
SeedCheck(h) ==
    /\ handler[h].pc = "seed?"
    /\ handler' = [handler EXCEPT ![h].pc = IF lecturerLogs = 0 THEN "seed" ELSE "rows"]
    /\ UNCHANGED <<phone, uploads, tables, faults>>

SeedLecturer(h) ==
    /\ handler[h].pc = "seed"
    /\ lecturerLogs' = lecturerLogs + 1
    /\ handler' = [handler EXCEPT ![h].pc = "rows"]
    /\ UNCHANGED <<phone, uploads, sessionRow, central, faults>>

\* A faulty variant of WriteRow, whose loop stops one record early.
WriteRowShort(h) ==
    LET i == handler[h].row
        n == package[handler[h].upload].rows
    IN  /\ handler[h].pc = "rows"
        /\ \/ /\ i < n
              /\ central' = central \cup ({i} \cap Resolved)
              /\ handler' = [handler EXCEPT ![h].row = i + 1]
           \/ /\ i >= n
              /\ handler' = [handler EXCEPT ![h].pc = "finish"]
              /\ UNCHANGED central
        /\ UNCHANGED <<phone, uploads, sessionRow, lecturerLogs, faults>>

\* A faulty variant of WriteRow, without ON CONFLICT: a row that is there
\* already fails the batch.
WriteRowStrict(h) ==
    LET i == handler[h].row
        n == package[handler[h].upload].rows
    IN  /\ handler[h].pc = "rows"
        /\ \/ /\ i <= n
              /\ i \in central
              /\ Reply(h, FALSE)
              /\ UNCHANGED central
           \/ /\ i <= n
              /\ i \notin central
              /\ central' = central \cup ({i} \cap Resolved)
              /\ handler' = [handler EXCEPT ![h].row = i + 1]
              /\ UNCHANGED <<phone, faults>>
           \/ /\ i > n
              /\ handler' = [handler EXCEPT ![h].pc = "finish"]
              /\ UNCHANGED <<phone, faults, central>>
        /\ UNCHANGED <<uploads, sessionRow, lecturerLogs>>

\* The loop over the records: the next row is inserted, or its vector clock
\* is there already (ON CONFLICT DO NOTHING), or its hash is not resolved.
WriteRow(h) ==
    LET i == handler[h].row
        n == package[handler[h].upload].rows
    IN  /\ handler[h].pc = "rows"
        /\ \/ /\ i <= n
              /\ central' = central \cup ({i} \cap Resolved)
              /\ handler' = [handler EXCEPT ![h].row = i + 1]
           \/ /\ i > n
              /\ handler' = [handler EXCEPT ![h].pc = "finish"]
              /\ UNCHANGED central
        /\ UNCHANGED <<phone, uploads, sessionRow, lecturerLogs, faults>>

\* The upload is marked SYNCED (an error is ignored) and 200 is answered.
Finish(h) ==
    LET u == handler[h].upload
    IN  /\ handler[h].pc = "finish"
        /\ \/ status' = [status EXCEPT ![u] = "SYNCED"]
           \/ faults < MaxFaults /\ UNCHANGED status
        /\ Reply(h, TRUE)
        /\ UNCHANGED <<received, redis, tables>>

\* A statement fails or the request's context is cancelled: the handler
\* returns an error, and what it has written stays.
Fail(h) ==
    LET u == handler[h].upload
    IN  /\ handler[h].pc \notin {"idle", "finish"}
        /\ Fault
        /\ handler' = [handler EXCEPT ![h] = IdleHandler]
        /\ client' = IF Serves(h, u)
                     THEN [client EXCEPT ![u] = Answered(client[u], FALSE)] ELSE client
        /\ UNCHANGED <<package, uploads, tables>>

Serve(h) ==
    \/ ChunkStore(h) \/ ChunkMark(h)
    \/ CompleteCount(h) \/ CompleteAssemble(h)
    \/ WriteSession(h) \/ SeedCheck(h) \/ SeedLecturer(h) \/ WriteRow(h) \/ Finish(h)

Next ==
    \/ \E u \in Uploads : \/ \E p \in Package : InitUpload(u, p)
                          \/ \E h \in Handlers, q \in Request : Arrive(h, u, q)
                          \/ Timeout(u)
                          \/ ChunkExpire(u)
    \/ \E h \in Handlers : Serve(h) \/ Fail(h)

Spec == Init /\ [][Next]_vars

\* The phone starts another attempt as long as none was acknowledged
\* (syncPending, each time the app is opened), sends its requests and gives
\* up waiting; handlers run.
Fairness ==
    /\ WF_vars(\E u \in Uploads, p \in Package :
                  /\ \A v \in Uploads : client[v].pc \notin {"sending", "acked"}
                  /\ InitUpload(u, p))
    /\ \A u \in Uploads : /\ WF_vars(\E h \in Handlers :
                                      ~client[u].sent /\ Arrive(h, u, client[u].next))
                          /\ WF_vars(Timeout(u))
    /\ \A h \in Handlers : WF_vars(Serve(h))

FairSpec == Spec /\ Fairness

-----------------------------------------------------------------------------
(* Properties.                                                             *)

\* "Resending a chunk cannot inflate received_chunks past total_chunks and
\* fake completeness": nothing is written for an upload of which a chunk was
\* never recorded, or whose package does not verify, however late a resent
\* chunk is handled.
CompletenessIsReal ==
    \A h \in Handlers :
        handler[h].pc \in Writing => /\ Elements(received[handler[h].upload]) = Chunk
                                     /\ package[handler[h].upload].sound

\* What the phone takes as "uploaded", and what the server shows as SYNCED,
\* is centrally there: every row of the package whose student is known, and
\* the lecturer's log.
AckedIsCentral ==
    \A u \in Uploads :
        client[u].pc = "acked" \/ status[u] = "SYNCED" =>
            /\ (1 .. package[u].rows) \cap Resolved \subseteq central
            /\ package[u].proof => lecturerLogs > 0

\* What the receiver owes a phone: it writes only what arrived whole, and it
\* acknowledges only what is written.
UploadsAreSound == CompletenessIsReal /\ AckedIsCentral

\* What a package brings to the central database: the rows whose student is
\* known, and the lecturer's log, which counts as row 0.
LecturerLog == 0
Carried(p) == ((1 .. p.rows) \cap Resolved) \cup (IF p.proof THEN {LecturerLog} ELSE {})

\* The central copy as module CentralCopy promises it.  Overlapping attempts,
\* failed statements, resends and late chunks add nothing that no package had,
\* take nothing back, and acknowledge no attempt whose rows are not all there
\* (receiver.go, writeAttendanceLogs).
Copy == INSTANCE CentralCopy WITH
            Attempts <- Uploads,
            Row <- 0 .. MaxRows,
            sent <- [u \in Uploads |-> Carried(package[u])],
            copy <- central \cup (IF lecturerLogs > 0 THEN {LecturerLog} ELSE {}),
            told <- {u \in Uploads : client[u].pc = "acked"}
CopyPromise == Copy!CopySpec

\* "Retried until acknowledged": after failed batches, lost answers, lost
\* chunks and resends, some attempt is acknowledged, and what an earlier one
\* left behind does not stand in its way.
Acknowledged == <>(\E u \in Uploads : client[u].pc = "acked")

=============================================================================
