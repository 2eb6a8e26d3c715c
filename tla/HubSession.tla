----------------------------- MODULE HubSession -----------------------------
(***************************************************************************)
(* The life of a session on the coordinator phone: session/                *)
(* SessionController.kt, with the parts of server/InRoomServer.kt,         *)
(* engine/LecturerGate.kt, service/SessionService.kt and                   *)
(* sync/SyncManager.kt that read or write the same state.                  *)
(*                                                                         *)
(* open() and close() are coroutines on Dispatchers.IO over unsynchronised *)
(* fields of a singleton, request handlers run on Ktor's threads and read  *)
(* the same fields through the lambdas of InRoomServer.Live, and the       *)
(* process may be killed at any moment, after which only Room's tables     *)
(* remain.  A step is what a coroutine or a handler does between two       *)
(* points at which another one can be seen to interfere.                   *)
(*                                                                         *)
(* The chain behind POST /checkin is one step here (module Checkin has its *)
(* inside), and so is the central server's answer to an upload (module     *)
(* SyncReceiver has its inside).                                           *)
(***************************************************************************)
EXTENDS Integers, FiniteSets

CONSTANTS
    Students,       \* the cohort; every one is on every roster
    Sessions,       \* session ids that open() can draw (UUIDs)
    Openers,        \* concurrent open() coroutines: taps on "Start taking attendance"
    Closers,        \* concurrent close() coroutines
    Threads,        \* Ktor threads serving POST /checkin
    None,           \* null
    MaxCrashes

ASSUME HubAssumption ==
    /\ MaxCrashes \in Nat
    /\ None \notin Sessions

VARIABLES
    server,         \* SessionService.server: "up" or "none"
    ready,          \* AppState.serverReady, which enables the start button
    stopping,       \* stopService was called, onDestroy has not run
    live,           \* InRoomServer.live
    current,        \* SessionController.current
    app,            \* AppState.currentSessionId
    gate,           \* gateState
    scan,           \* lecturerStartAt/Fp and lecturerEndAt/Fp
    code,           \* is sessionCode non-blank (a combined class)
    startedHere,    \* AppState.lecturerStartedHere
    armed,          \* the ticker runs with a deadline set
    opener, closer, thread, gatePost, syncer,   \* the coroutines and handlers
    crashes

VARIABLES
    db,             \* Room: sessions.status
    ledger,         \* Room: attendance_logs, the students of a session
    central,        \* the central database: students of a session
    centralScan     \* the central database: sessions with a lecturer log

VARIABLES
    atClose,        \* history: the ledger when the session was first marked CLOSED
    started         \* history: sessions whose own lecturer passed the gate

controller == <<current, app, gate, scan, code, startedHere, armed>>
service == <<server, ready, stopping, live>>
procs == <<opener, closer, thread, gatePost, syncer>>
cloud == <<central, centralScan>>
history == <<atClose, started>>
vars == <<service, controller, procs, crashes, db, ledger, cloud, history>>

\* The lecturer's proof of presence.  "late": lecturerStartAt was written
\* when lecturerEndAt was already set, so the lecture ends before it starts.
NoScan == [start |-> "none", end |-> FALSE, late |-> FALSE]
Scan == [start : {"none", "gate", "code"}, end : BOOLEAN, late : BOOLEAN]

Status == {"none", "OPEN", "CLOSED", "SYNCED", "PENDING_SYNC"}

Idle == [pc |-> "idle", session |-> None]
OpenerState == [pc : {"idle", "reset", "publish", "golive"}, session : Sessions \cup {None}]
CloserState == [pc : {"idle", "teardown", "mark", "snapshot", "upload"},
                session : Sessions \cup {None}, scan : Scan, rows : SUBSET Students]
ThreadState == [pc : {"idle", "received", "record"}, session : Sessions \cup {None},
                student : Students \cup {None}]
GateState == [pc : {"idle", "START", "END"}, session : Sessions \cup {None}]
SyncState == [pc : {"idle", "upload"}, session : Sessions \cup {None}, rows : SUBSET Students]

IdleCloser == [pc |-> "idle", session |-> None, scan |-> NoScan, rows |-> {}]
IdleThread == [pc |-> "idle", session |-> None, student |-> None]
IdleSync == [pc |-> "idle", session |-> None, rows |-> {}]

TypeOK ==
    /\ server \in {"up", "none"}
    /\ {ready, stopping, code, startedHere, armed} \subseteq BOOLEAN
    /\ {live, current, app} \subseteq Sessions \cup {None}
    /\ gate \in {"NOT_STARTED", "STARTED", "ENDED"}
    /\ scan \in Scan
    /\ opener \in [Openers -> OpenerState]
    /\ closer \in [Closers -> CloserState]
    /\ thread \in [Threads -> ThreadState]
    /\ gatePost \in GateState
    /\ syncer \in SyncState
    /\ crashes \in 0 .. MaxCrashes
    /\ db \in [Sessions -> Status]
    /\ {ledger, central, atClose} \subseteq [Sessions -> SUBSET Students]
    /\ centralScan \subseteq Sessions
    /\ started \subseteq Sessions

\* Everything the process holds in memory, as a fresh process has it.
FreshProcess ==
    /\ server' = "none"
    /\ ready' = FALSE
    /\ stopping' = FALSE
    /\ live' = None
    /\ current' = None
    /\ app' = None
    /\ gate' = "NOT_STARTED"
    /\ scan' = NoScan
    /\ code' = FALSE
    /\ startedHere' = FALSE
    /\ armed' = FALSE
    /\ opener' = [o \in Openers |-> Idle]
    /\ closer' = [c \in Closers |-> IdleCloser]
    /\ thread' = [t \in Threads |-> IdleThread]
    /\ gatePost' = Idle
    /\ syncer' = IdleSync

Init ==
    /\ server = "none" /\ ready = FALSE /\ stopping = FALSE /\ live = None
    /\ current = None /\ app = None
    /\ gate = "NOT_STARTED" /\ scan = NoScan /\ code = FALSE
    /\ startedHere = FALSE /\ armed = FALSE
    /\ opener = [o \in Openers |-> Idle]
    /\ closer = [c \in Closers |-> IdleCloser]
    /\ thread = [t \in Threads |-> IdleThread]
    /\ gatePost = Idle
    /\ syncer = IdleSync
    /\ crashes = 0
    /\ db = [s \in Sessions |-> "none"]
    /\ ledger = [s \in Sessions |-> {}]
    /\ central = [s \in Sessions |-> {}]
    /\ centralScan = {}
    /\ atClose = [s \in Sessions |-> {}]
    /\ started = {}

-----------------------------------------------------------------------------
(* The foreground service.                                                 *)

\* The straight-line code of a handler past its last suspension point, or of
\* close() before its teardown, is done within the seconds that it takes to
\* start the service again by hand and bind the port.
Quiet ==
    /\ gatePost.pc = "idle"
    /\ \A t \in Threads : thread[t].pc # "record"
    /\ \A c \in Closers : closer[c].pc # "teardown"

\* startHub: a new InRoomServer, bound and listening.
ServiceStart ==
    /\ server = "none"
    /\ ~stopping
    /\ Quiet
    /\ server' = "up"
    /\ ready' = TRUE
    /\ live' = None
    /\ UNCHANGED <<stopping, controller, procs, crashes, db, ledger, cloud, history>>

\* onDestroy stops Ktor.  A handler suspended on its request body is
\* cancelled; one that is already past it has no suspension point left
\* before the store and runs on.
ServiceDestroy ==
    /\ stopping
    /\ server' = "none"
    /\ ready' = FALSE
    /\ stopping' = FALSE
    /\ live' = None
    /\ thread' = [t \in Threads |-> IF thread[t].pc = "received" THEN IdleThread ELSE thread[t]]
    /\ UNCHANGED <<controller, opener, closer, gatePost, syncer, crashes, db, ledger, cloud, history>>

-----------------------------------------------------------------------------
(* open().                                                                 *)

\* The start button is enabled; the coroutine finds no live session, and
\* draws a fresh session id.
OpenCheck(o, s) ==
    /\ opener[o].pc = "idle"
    /\ ready
    /\ server = "up"
    /\ current = None
    /\ app = None
    /\ db[s] = "none"
    /\ \A p \in Openers : opener[p].session # s
    /\ opener' = [opener EXCEPT ![o] = [pc |-> "reset", session |-> s]]
    /\ UNCHANGED <<service, controller, closer, thread, gatePost, syncer,
                   crashes, db, ledger, cloud, history>>

\* A faulty variant of OpenReset: the gate keeps the last session's state.
OpenGateKept(o) ==
    /\ opener[o].pc = "reset"
    /\ scan' = NoScan
    /\ code' \in BOOLEAN
    /\ startedHere' = FALSE
    /\ opener' = [opener EXCEPT ![o].pc = "publish"]
    /\ UNCHANGED <<service, current, app, gate, armed, closer, thread, gatePost, syncer,
                   crashes, db, ledger, cloud, history>>

\* The gate and the lecturer's proof are reset, and the combined-class code
\* is derived when today's slot is shared.
OpenReset(o) ==
    /\ opener[o].pc = "reset"
    /\ gate' = "NOT_STARTED"
    /\ scan' = NoScan
    /\ code' \in BOOLEAN
    /\ startedHere' = FALSE
    /\ opener' = [opener EXCEPT ![o].pc = "publish"]
    /\ UNCHANGED <<service, current, app, armed, closer, thread, gatePost, syncer,
                   crashes, db, ledger, cloud, history>>

OpenPublish(o) ==
    /\ opener[o].pc = "publish"
    /\ current' = opener[o].session
    /\ db' = [db EXCEPT ![opener[o].session] = "OPEN"]
    /\ opener' = [opener EXCEPT ![o].pc = "golive"]
    /\ UNCHANGED <<service, app, gate, scan, code, startedHere, armed, closer, thread,
                   gatePost, syncer, crashes, ledger, cloud, history>>

\* A faulty variant of OpenLive: the ticker is not started.
OpenUntimed(o) ==
    /\ opener[o].pc = "golive"
    /\ live' = IF server = "up" THEN opener[o].session ELSE live
    /\ app' = opener[o].session
    /\ opener' = [opener EXCEPT ![o] = Idle]
    /\ UNCHANGED <<server, ready, stopping, current, gate, scan, code, startedHere, armed,
                   closer, thread, gatePost, syncer, crashes, db, ledger, cloud, history>>

\* setLive on the server that open() found, the session id shown by the UI,
\* and the ticker.
OpenLive(o) ==
    /\ opener[o].pc = "golive"
    /\ live' = IF server = "up" THEN opener[o].session ELSE live
    /\ app' = opener[o].session
    /\ armed' = TRUE
    /\ opener' = [opener EXCEPT ![o] = Idle]
    /\ UNCHANGED <<server, ready, stopping, current, gate, scan, code, startedHere, closer,
                   thread, gatePost, syncer, crashes, db, ledger, cloud, history>>

-----------------------------------------------------------------------------
(* The lecturer.                                                           *)

\* Quorum of LecturerGate.evaluate, with the ratio 0.5 that open() fixes:
\* max(1, ceil(enrolled / 2)).
Required == LET half == (Cardinality(Students) + 1) \div 2
            IN  IF half < 1 THEN 1 ELSE half

\* POST /gate by the assigned lecturer with a valid room code: what evaluate
\* decides in the state it reads.  A rejection changes nothing.
GateEvaluate ==
    /\ gatePost.pc = "idle"
    /\ server = "up"
    /\ live # None
    /\ \/ /\ gate = "NOT_STARTED"
          /\ gatePost' = [pc |-> "START", session |-> live]
       \/ /\ gate = "STARTED"
          /\ Cardinality(ledger[live]) >= Required
          /\ gatePost' = [pc |-> "END", session |-> live]
    /\ UNCHANGED <<service, controller, opener, closer, thread, syncer, crashes, db,
                   ledger, cloud, history>>

\* onGate: the fields are the controller's, whichever session the handler
\* captured.
GateApply ==
    /\ \/ /\ gatePost.pc = "START"
          /\ gate' = "STARTED"
          /\ scan' = [scan EXCEPT !.start = "gate", !.late = scan.end]
          /\ startedHere' = TRUE
          /\ started' = started \cup {gatePost.session}
       \/ /\ gatePost.pc = "END"
          /\ gate' = "ENDED"
          /\ scan' = [scan EXCEPT !.end = TRUE]
          /\ UNCHANGED <<startedHere, started>>
    /\ gatePost' = Idle
    /\ UNCHANGED <<service, current, app, code, armed, opener, closer, thread, syncer,
                   crashes, db, ledger, cloud, atClose>>

\* A faulty variant of StartLecturerByCode: the field stays on the screen.
StartAgainByCode ==
    /\ app # None
    /\ code
    /\ gate # "STARTED"
    /\ gate' = "STARTED"
    /\ scan' = [scan EXCEPT !.start = "code", !.late = scan.end]
    /\ startedHere' = TRUE
    /\ started' = started \cup {app}
    /\ UNCHANGED <<service, current, app, code, armed, procs, crashes, db, ledger, cloud,
                   atClose>>

\* startLecturerByCode: the coordinator types the code read out in another
\* room.  The field is on screen only while the lecturer has not started here.
StartLecturerByCode ==
    /\ app # None
    /\ code
    /\ ~startedHere
    /\ gate # "STARTED"
    /\ gate' = "STARTED"
    /\ scan' = [scan EXCEPT !.start = "code", !.late = scan.end]
    /\ startedHere' = TRUE
    /\ started' = started \cup {app}
    /\ UNCHANGED <<service, current, app, code, armed, procs, crashes, db, ledger, cloud,
                   atClose>>

-----------------------------------------------------------------------------
(* POST /checkin.                                                          *)

\* The handler takes the live session, and then waits for the request body.
Receive(t, st) ==
    /\ thread[t].pc = "idle"
    /\ server = "up"
    /\ live # None
    /\ thread' = [thread EXCEPT ![t] = [pc |-> "received", session |-> live, student |-> st]]
    /\ UNCHANGED <<service, controller, opener, closer, gatePost, syncer, crashes, db,
                   ledger, cloud, history>>

\* lecturerStarted() reads the controller's gate, not the captured session's.
LecturerStarted(t) ==
    /\ thread[t].pc = "received"
    /\ thread' = [thread EXCEPT ![t] = IF gate = "STARTED" THEN [@ EXCEPT !.pc = "record"]
                                                           ELSE IdleThread]
    /\ UNCHANGED <<service, controller, opener, closer, gatePost, syncer, crashes, db,
                   ledger, cloud, history>>

\* validateReg: the row is appended, or is there already.
RecordRow(t) ==
    /\ thread[t].pc = "record"
    /\ ledger' = [ledger EXCEPT ![thread[t].session] = @ \cup {thread[t].student}]
    /\ thread' = [thread EXCEPT ![t] = IdleThread]
    /\ UNCHANGED <<service, controller, opener, closer, gatePost, syncer, crashes, db,
                   cloud, history>>

-----------------------------------------------------------------------------
(* close().                                                                *)

\* The ticker is cancelled, the session taken, the lecturer's proof copied.
CloseTake(c) ==
    /\ closer[c].pc = "idle"
    /\ current # None
    /\ armed' = FALSE
    /\ closer' = [closer EXCEPT ![c] = [pc |-> "teardown", session |-> current,
                                        scan |-> scan, rows |-> {}]]
    /\ UNCHANGED <<service, current, app, gate, scan, code, startedHere, opener, thread,
                   gatePost, syncer, crashes, db, ledger, cloud, history>>

\* "End session + sync", on the screen of a live session.
ManualClose(c) == app # None /\ CloseTake(c)

\* The ticker finds the deadline passed.
AutoClose(c) == armed /\ CloseTake(c)

\* The room is torn down before any network.  gateState is not reset.
CloseTeardown(c) ==
    /\ closer[c].pc = "teardown"
    /\ live' = None
    /\ current' = None
    /\ app' = None
    /\ code' = FALSE
    /\ startedHere' = FALSE
    /\ ready' = FALSE
    /\ stopping' = (server = "up")      \* stopService
    /\ closer' = [closer EXCEPT ![c].pc = "mark"]
    /\ UNCHANGED <<server, gate, scan, armed, opener, thread, gatePost, syncer, crashes,
                   db, ledger, cloud, history>>

CloseMark(c) ==
    /\ closer[c].pc = "mark"
    /\ db' = [db EXCEPT ![closer[c].session] = "CLOSED"]
    /\ atClose' = IF db[closer[c].session] = "OPEN"
                  THEN [atClose EXCEPT ![closer[c].session] = ledger[closer[c].session]]
                  ELSE atClose
    /\ closer' = [closer EXCEPT ![c].pc = "snapshot"]
    /\ UNCHANGED <<service, controller, opener, thread, gatePost, syncer, crashes, ledger,
                   cloud, started>>

\* rosterForSession: the rows that go into the package.
CloseSnapshot(c) ==
    /\ closer[c].pc = "snapshot"
    /\ closer' = [closer EXCEPT ![c].pc = "upload", ![c].rows = ledger[closer[c].session]]
    /\ UNCHANGED <<service, controller, opener, thread, gatePost, syncer, crashes, db,
                   ledger, cloud, history>>

-----------------------------------------------------------------------------
(* Uploads.  A package of which the phone hears no acknowledgement may have *)
(* been applied, in part or as a whole (module SyncReceiver).              *)

Outcome == {"ack", "failed"}

\* The central database takes up rows of session s, and the lecturer's log
\* if `seeded'.
Applied(s, rows, seeded) ==
    /\ central' = [central EXCEPT ![s] = @ \cup rows]
    /\ centralScan' = IF seeded THEN centralScan \cup {s} ELSE centralScan

\* A faulty variant of Upload: SYNCED whatever the answer.
UploadUnchecked(s, rows, proof, outcome) ==
    /\ \/ outcome = "ack" /\ Applied(s, rows, proof.start # "none")
       \/ outcome = "failed" /\ UNCHANGED cloud
    /\ db' = [db EXCEPT ![s] = "SYNCED"]

Upload(s, rows, proof, outcome) ==
    \/ /\ outcome = "ack"
       /\ Applied(s, rows, proof.start # "none")
       /\ db' = [db EXCEPT ![s] = "SYNCED"]
    \/ /\ outcome = "failed"
       /\ \E part \in SUBSET rows, seeded \in {FALSE, proof.start # "none"} :
             Applied(s, part, seeded)
       /\ db' = [db EXCEPT ![s] = "PENDING_SYNC"]

CloseUpload(c, outcome) ==
    /\ closer[c].pc = "upload"
    /\ Upload(closer[c].session, closer[c].rows, closer[c].scan, outcome)
    /\ closer' = [closer EXCEPT ![c] = IdleCloser]
    /\ UNCHANGED <<service, controller, opener, thread, gatePost, syncer, crashes, ledger,
                   history>>

\* A faulty variant of SyncRead: only PENDING_SYNC is queried.
SyncReadPendingOnly(s) ==
    /\ syncer.pc = "idle"
    /\ db[s] = "PENDING_SYNC"
    /\ \/ /\ ledger[s] = {}
          /\ db' = [db EXCEPT ![s] = "SYNCED"]
          /\ UNCHANGED syncer
       \/ /\ ledger[s] # {}
          /\ syncer' = [pc |-> "upload", session |-> s, rows |-> ledger[s]]
          /\ UNCHANGED db
    /\ UNCHANGED <<service, controller, opener, closer, thread, gatePost, crashes, ledger,
                   cloud, history>>

\* A faulty variant of SyncRead: whatever is not SYNCED is queried.
SyncReadUnsynced(s) ==
    /\ syncer.pc = "idle"
    /\ db[s] \notin {"none", "SYNCED"}
    /\ \/ /\ ledger[s] = {}
          /\ db' = [db EXCEPT ![s] = "SYNCED"]
          /\ UNCHANGED syncer
       \/ /\ ledger[s] # {}
          /\ syncer' = [pc |-> "upload", session |-> s, rows |-> ledger[s]]
          /\ UNCHANGED db
    /\ UNCHANGED <<service, controller, opener, closer, thread, gatePost, crashes, ledger,
                   cloud, history>>

\* syncPending, for one of the sessions that pendingSyncSessions returns: a
\* session without rows is marked at once.
SyncRead(s) ==
    /\ syncer.pc = "idle"
    /\ db[s] \in {"PENDING_SYNC", "CLOSED"}
    /\ \/ /\ ledger[s] = {}
          /\ db' = [db EXCEPT ![s] = "SYNCED"]
          /\ UNCHANGED syncer
       \/ /\ ledger[s] # {}
          /\ syncer' = [pc |-> "upload", session |-> s, rows |-> ledger[s]]
          /\ UNCHANGED db
    /\ UNCHANGED <<service, controller, opener, closer, thread, gatePost, crashes, ledger,
                   cloud, history>>

\* The package is sealed again from the ledger, without the lecturer's proof.
SyncUpload(s, outcome) ==
    /\ syncer.pc = "upload"
    /\ syncer.session = s
    /\ Upload(s, syncer.rows, NoScan, outcome)
    /\ syncer' = IdleSync
    /\ UNCHANGED <<service, controller, opener, closer, thread, gatePost, crashes, ledger,
                   history>>

-----------------------------------------------------------------------------
\* The process is killed.  onStartCommand does not bring the session back
\* (START_NOT_STICKY), and nothing in the app looks for OPEN sessions.
Crash ==
    /\ crashes < MaxCrashes
    /\ crashes' = crashes + 1
    /\ FreshProcess
    /\ UNCHANGED <<db, ledger, cloud, history>>

OpenStep(o) == OpenReset(o) \/ OpenPublish(o) \/ OpenLive(o)
CloseStep(c) ==
    \/ CloseTeardown(c) \/ CloseMark(c) \/ CloseSnapshot(c)
    \/ \E outcome \in Outcome : CloseUpload(c, outcome)
ThreadStep(t) == LecturerStarted(t) \/ RecordRow(t)
SyncStep(s) == SyncRead(s) \/ \E outcome \in Outcome : SyncUpload(s, outcome)

Next ==
    \/ ServiceStart \/ ServiceDestroy
    \/ \E o \in Openers : (\E s \in Sessions : OpenCheck(o, s)) \/ OpenStep(o)
    \/ GateEvaluate \/ GateApply \/ StartLecturerByCode
    \/ \E t \in Threads : (\E st \in Students : Receive(t, st)) \/ ThreadStep(t)
    \/ \E c \in Closers : ManualClose(c) \/ AutoClose(c) \/ CloseStep(c)
    \/ \E s \in Sessions : SyncStep(s)
    \/ Crash

Spec == Init /\ [][Next]_vars

\* Coroutines and handlers that can run do run; the ticker fires once its
\* deadline has passed; the coordinator keeps opening the app, which calls
\* syncPending over every pending session; and an upload that is tried
\* again and again is acknowledged in the end.
Fairness ==
    /\ WF_vars(ServiceDestroy)
    /\ WF_vars(GateApply)
    /\ \A o \in Openers : WF_vars(OpenStep(o))
    /\ \A t \in Threads : WF_vars(ThreadStep(t))
    /\ \A c \in Closers : WF_vars(CloseStep(c))
    /\ WF_vars(\E c \in Closers : AutoClose(c))
    /\ \A s \in Sessions : /\ SF_vars(SyncRead(s))
                           /\ WF_vars(\E outcome \in Outcome : SyncUpload(s, outcome))
                           /\ SF_vars(SyncUpload(s, "ack"))

FairSpec == Spec /\ Fairness

-----------------------------------------------------------------------------
(* Properties.                                                             *)

\* "Students may only check in once the lecturer has passed the START gate":
\* no row is recorded in a session whose own lecturer never started, though
\* handlers read a gate that outlives the session they captured.
RecordedOnlyIfStarted == \A s \in Sessions : ledger[s] # {} => s \in started

\* The lecturer's proof never ends before it starts: START is not written
\* again, by the gate or by the shared code, once END is.
StartPrecedesEnd == ~scan.late

\* What the gate promises of every session, whichever of its handlers races
\* with an open or a close.
GateIsObeyed == TypeOK /\ RecordedOnlyIfStarted /\ StartPrecedesEnd

\* "Only a confirmed 200 flips it to SYNCED": whatever the races of close(),
\* syncPending, process death and lost answers, a session is SYNCED only if
\* every row it had when it was marked CLOSED is in the central database.
SyncedIsDelivered ==
    \A s \in Sessions : db[s] = "SYNCED" => atClose[s] \subseteq central[s]

\* The way of a session's rows to the central database as SessionDelivery
\* promises it: whatever the races of two ways to close, syncPending, process
\* death and lost answers, nothing is sent of a session that is still open, no
\* row of another session arrives, nothing is taken back, and "only a
\* confirmed 200 flips it to SYNCED" (SessionController.kt, SyncManager.kt).
Delivery == INSTANCE SessionDelivery WITH
                closed <- {s \in Sessions : db[s] \notin {"none", "OPEN"}},
                held <- atClose,
                copy <- central,
                delivered <- {s \in Sessions : db[s] = "SYNCED"}
DeliveryPromise == Delivery!DeliverySpec

\* What a session held when it was marked CLOSED reaches the central
\* database in the end, offline close, lost answers and process death
\* notwithstanding ("retried until acknowledged").
ClosedIsDelivered ==
    \A s \in Sessions, st \in Students : st \in atClose[s] ~> st \in central[s]

\* A session that was opened is closed in the end, by the coordinator or by
\* the ticker, so that the next one can be opened; unless the process dies.
OpenIsClosed ==
    \A s \in Sessions : db[s] = "OPEN" ~> (db[s] # "OPEN" \/ crashes > 0)

\* A student recorded while the session is open is in the central database in
\* the end, if the process lives: no race of the handlers, the two ways to
\* close, the retries and the lost answers drops them.
AliveIsDelivered ==
    \A s \in Sessions, st \in Students :
        (st \in ledger[s] /\ db[s] = "OPEN") ~> (st \in central[s] \/ crashes > 0)

\* A session that the process lives through runs its course: it is closed, and
\* all it recorded arrives.
SessionRunsItsCourse == OpenIsClosed /\ AliveIsDelivered

\* "Nothing is lost": a student recorded while the session is open is in the
\* central database in the end.
RecordedIsDelivered ==
    \A s \in Sessions, st \in Students :
        (st \in ledger[s] /\ db[s] = "OPEN") ~> st \in central[s]

\* "A coordinator runs ONE session at a time": at most one session is OPEN.
OneSessionAtATime ==
    \A s, t \in Sessions : db[s] = "OPEN" /\ db[t] = "OPEN" => s = t

\* "Nothing is lost": no student whom the phone answered PRESENT is missing
\* from the central copy of a SYNCED session.
SyncedIsComplete ==
    \A s \in Sessions : db[s] = "SYNCED" => ledger[s] \subseteq central[s]

\* The lecturer's proof of presence reaches the central database with the
\* attendance it verifies.
ProofIsDelivered ==
    \A s \in Sessions : db[s] = "SYNCED" /\ central[s] # {} /\ s \in started => s \in centralScan

=============================================================================
