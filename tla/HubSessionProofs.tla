-------------------------- MODULE HubSessionProofs --------------------------
(***************************************************************************)
(* Machine-checked proofs about HubSession, for any number of students,    *)
(* sessions, request threads, closing coroutines and process deaths.       *)
(***************************************************************************)
EXTENDS HubSession, TLAPS

\* A coroutine or a handler that is at work has a session; an open() that is
\* not holds none.
BusyInv ==
    /\ \A o \in Openers : IF opener[o].pc = "idle" THEN opener[o].session = None
                                                   ELSE opener[o].session \in Sessions
    /\ \A c \in Closers : closer[c].pc # "idle" => closer[c].session \in Sessions
    /\ \A t \in Threads : thread[t].pc # "idle" => thread[t].session \in Sessions
                                                  /\ thread[t].student \in Students
    /\ gatePost.pc # "idle" => gatePost.session \in Sessions
    /\ syncer.pc # "idle" => syncer.session \in Sessions

\* The parts of the type invariant, by who owns the state.
ControllerOK ==
    /\ {code, startedHere, armed} \subseteq BOOLEAN
    /\ {current, app} \subseteq Sessions \cup {None}
    /\ gate \in {"NOT_STARTED", "STARTED", "ENDED"}
    /\ scan \in Scan

ServiceOK ==
    /\ server \in {"up", "none"}
    /\ {ready, stopping} \subseteq BOOLEAN
    /\ live \in Sessions \cup {None}

StoreOK ==
    /\ db \in [Sessions -> Status]
    /\ {ledger, central, atClose} \subseteq [Sessions -> SUBSET Students]
    /\ centralScan \subseteq Sessions
    /\ started \subseteq Sessions

ProcsOK ==
    /\ opener \in [Openers -> OpenerState]
    /\ closer \in [Closers -> CloserState]
    /\ thread \in [Threads -> ThreadState]
    /\ gatePost \in GateState
    /\ syncer \in SyncState

TInv == /\ ControllerOK /\ ServiceOK /\ StoreOK /\ ProcsOK
        /\ crashes \in 0 .. MaxCrashes
        /\ BusyInv

-----------------------------------------------------------------------------
\* The parts make up the type invariant.
LEMMA TypeParts == TInv => TypeOK
BY DEF TInv, TypeOK, ControllerOK, ServiceOK, StoreOK, ProcsOK

\* An idle coroutine is a well-typed coroutine.
LEMMA IdleTypes == /\ Idle \in OpenerState /\ Idle \in GateState
                   /\ IdleCloser \in CloserState
                   /\ IdleThread \in ThreadState
                   /\ IdleSync \in SyncState
                   /\ NoScan \in Scan
BY DEF Idle, IdleCloser, IdleThread, IdleSync, NoScan, OpenerState, GateState,
       CloserState, ThreadState, SyncState, Scan

\* An upload changes the session's status and the central copy, within type.
LEMMA UploadType ==
    ASSUME StoreOK, NEW s \in Sessions, NEW rows \in SUBSET Students, NEW proof,
           NEW outcome, Upload(s, rows, proof, outcome)
    PROVE  /\ db' \in [Sessions -> Status]
           /\ central' \in [Sessions -> SUBSET Students]
           /\ centralScan' \subseteq Sessions
<1>1. db' \in [Sessions -> Status]
  BY DEF Upload, StoreOK, Status
<1>2. \E part \in SUBSET rows : \E seeded : Applied(s, part, seeded)
  BY Zenon DEF Upload
<1> QED
  BY <1>1, <1>2 DEF Applied, StoreOK

\* Types hold initially.
LEMMA InitTInv == Init => TInv
<1> SUFFICES ASSUME Init PROVE TInv
  OBVIOUS
<1>1. ControllerOK /\ ServiceOK /\ StoreOK
  BY IdleTypes DEF Init, ControllerOK, ServiceOK, StoreOK, Status
<1>2. ProcsOK
  BY IdleTypes DEF Init, ProcsOK
<1>3. crashes \in 0 .. MaxCrashes
  BY HubAssumption DEF Init
<1>4. BusyInv
  BY DEF Init, BusyInv, Idle, IdleCloser, IdleThread, IdleSync
<1> QED
  BY <1>1, <1>2, <1>3, <1>4 DEF TInv

\* Every step keeps the types.
LEMMA NextTInv == TInv /\ [Next]_vars => TInv'
<1> SUFFICES ASSUME TInv, [Next]_vars PROVE TInv'
  OBVIOUS
<1> USE DEF TInv
<1> USE DEF controller, service, procs, cloud, history
<1>1. CASE ServiceStart
  BY <1>1 DEF ServiceStart, ControllerOK, ServiceOK, StoreOK, ProcsOK, BusyInv
<1>2. CASE ServiceDestroy
  <2>1. thread' \in [Threads -> ThreadState]
    BY <1>2, IdleTypes DEF ServiceDestroy, ProcsOK
  <2>2. \A t \in Threads : thread'[t].pc # "idle" => thread'[t] = thread[t]
    BY <1>2 DEF ServiceDestroy, IdleThread
  <2> QED
    BY <1>2, <2>1, <2>2 DEF ServiceDestroy, ControllerOK, ServiceOK, StoreOK, ProcsOK, BusyInv
<1>3. ASSUME NEW o \in Openers, NEW s \in Sessions, OpenCheck(o, s)
      PROVE  TInv'
  <2>1. [pc |-> "reset", session |-> s] \in OpenerState
    BY DEF OpenerState
  <2> QED
    BY <1>3, <2>1 DEF OpenCheck, ProcsOK, BusyInv, ControllerOK, ServiceOK, StoreOK
<1>4. ASSUME NEW o \in Openers, OpenReset(o)
      PROVE  TInv'
  <2>1. opener' \in [Openers -> OpenerState]
    BY <1>4 DEF OpenReset, ProcsOK, OpenerState
  <2>2. opener'[o].session = opener[o].session /\ opener'[o].pc # "idle" /\ opener[o].pc # "idle"
    BY <1>4 DEF OpenReset, ProcsOK, OpenerState
  <2>3. \A p \in Openers \ {o} : opener'[p] = opener[p]
    BY <1>4 DEF OpenReset, ProcsOK
  <2>4. BusyInv'
    BY <1>4, <2>2, <2>3 DEF OpenReset, BusyInv
  <2> QED
    BY <1>4, <2>1, <2>4, IdleTypes DEF OpenReset, ControllerOK, ProcsOK, ServiceOK, StoreOK
<1>5. ASSUME NEW o \in Openers, OpenPublish(o)
      PROVE  TInv'
  <2>1. opener' \in [Openers -> OpenerState]
    BY <1>5 DEF OpenPublish, ProcsOK, OpenerState
  <2>2. opener'[o].session = opener[o].session /\ opener'[o].pc # "idle" /\ opener[o].pc # "idle"
    BY <1>5 DEF OpenPublish, ProcsOK, OpenerState
  <2>3. \A p \in Openers \ {o} : opener'[p] = opener[p]
    BY <1>5 DEF OpenPublish, ProcsOK
  <2>4. BusyInv'
    BY <1>5, <2>2, <2>3 DEF OpenPublish, BusyInv
  <2>5. opener[o].session \in Sessions
    BY <2>2 DEF BusyInv
  <2>6. ControllerOK'
    BY <1>5, <2>5 DEF OpenPublish, ControllerOK
  <2>7. StoreOK'
    BY <1>5, <2>5 DEF OpenPublish, StoreOK, Status
  <2> QED
    BY <1>5, <2>1, <2>4, <2>6, <2>7 DEF OpenPublish, ProcsOK, ControllerOK, ServiceOK, StoreOK
<1>6. ASSUME NEW o \in Openers, OpenLive(o)
      PROVE  TInv'
  <2>1. opener[o].session \in Sessions
    BY <1>6 DEF OpenLive, BusyInv
  <2>2. ControllerOK'
    BY <1>6, <2>1 DEF OpenLive, ControllerOK
  <2>3. ServiceOK'
    BY <1>6, <2>1 DEF OpenLive, ServiceOK
  <2>4. ProcsOK'
    BY <1>6, IdleTypes DEF OpenLive, ProcsOK
  <2>5. BusyInv'
    BY <1>6 DEF OpenLive, ProcsOK, BusyInv, Idle
  <2> QED
    BY <1>6, <2>2, <2>3, <2>4, <2>5 DEF OpenLive, ControllerOK, ServiceOK, StoreOK, ProcsOK
<1>7. CASE GateEvaluate
  <2>1. gatePost' \in GateState /\ gatePost'.session \in Sessions
    BY <1>7 DEF GateEvaluate, GateState, ServiceOK
  <2> QED
    BY <1>7, <2>1 DEF GateEvaluate, ControllerOK, ServiceOK, StoreOK, ProcsOK, BusyInv
<1>8. CASE GateApply
  <2>1. gatePost.session \in Sessions
    BY <1>8 DEF GateApply, BusyInv
  <2>2. scan.end \in BOOLEAN /\ scan' \in Scan
    BY <1>8 DEF GateApply, ControllerOK, Scan
  <2>3. ControllerOK'
    BY <1>8, <2>2 DEF GateApply, ControllerOK
  <2>4. StoreOK'
    BY <1>8, <2>1 DEF GateApply, StoreOK
  <2>5. ProcsOK' /\ BusyInv'
    BY <1>8, IdleTypes DEF GateApply, ProcsOK, BusyInv, Idle
  <2> QED
    BY <1>8, <2>3, <2>4, <2>5 DEF GateApply, ServiceOK
<1>9. CASE StartLecturerByCode
  <2>1. app \in Sessions
    BY <1>9 DEF StartLecturerByCode, ControllerOK
  <2>2. scan.end \in BOOLEAN /\ scan' \in Scan
    BY <1>9 DEF StartLecturerByCode, ControllerOK, Scan
  <2>3. ControllerOK'
    BY <1>9, <2>2 DEF StartLecturerByCode, ControllerOK
  <2>4. StoreOK'
    BY <1>9, <2>1 DEF StartLecturerByCode, StoreOK
  <2> QED
    BY <1>9, <2>3, <2>4 DEF StartLecturerByCode, ProcsOK, BusyInv, ServiceOK
<1>10. ASSUME NEW t \in Threads, NEW st \in Students, Receive(t, st)
       PROVE  TInv'
  <2>1. live \in Sessions
    BY <1>10 DEF Receive, ServiceOK
  <2>2. [pc |-> "received", session |-> live, student |-> st] \in ThreadState
    BY <2>1 DEF ThreadState
  <2> QED
    BY <1>10, <2>1, <2>2 DEF Receive, ProcsOK, BusyInv, ControllerOK, ServiceOK, StoreOK
<1>11. ASSUME NEW t \in Threads, LecturerStarted(t)
       PROVE  TInv'
  <2>1. thread[t] \in ThreadState /\ [thread[t] EXCEPT !.pc = "record"] \in ThreadState
    BY DEF ProcsOK, ThreadState
  <2>2. thread'[t] = IdleThread \/ thread'[t] = [thread[t] EXCEPT !.pc = "record"]
    BY <1>11 DEF LecturerStarted, ProcsOK
  <2>3. thread'[t] \in ThreadState
    BY <2>1, <2>2, IdleTypes
  <2>4. thread' \in [Threads -> ThreadState] /\ \A u \in Threads \ {t} : thread'[u] = thread[u]
    BY <1>11, <2>1, IdleTypes DEF LecturerStarted, ProcsOK
  <2>5. thread'[t].pc # "idle" => thread'[t].session \in Sessions /\ thread'[t].student \in Students
    BY <1>11, <2>1, <2>2 DEF LecturerStarted, BusyInv, IdleThread, ThreadState
  <2> QED
    BY <1>11, <2>4, <2>5 DEF LecturerStarted, ProcsOK, BusyInv, ControllerOK, ServiceOK, StoreOK
<1>12. ASSUME NEW t \in Threads, RecordRow(t)
       PROVE  TInv'
  <2>1. thread[t].session \in Sessions /\ thread[t].student \in Students
    BY <1>12 DEF RecordRow, BusyInv
  <2>2. StoreOK'
    BY <1>12, <2>1 DEF RecordRow, StoreOK
  <2>3. ProcsOK' /\ BusyInv'
    BY <1>12, IdleTypes DEF RecordRow, ProcsOK, BusyInv, IdleThread
  <2> QED
    BY <1>12, <2>2, <2>3 DEF RecordRow, ControllerOK, ServiceOK, StoreOK, ProcsOK
<1>13. ASSUME NEW c \in Closers, CloseTake(c)
       PROVE  TInv'
  <2>1. current \in Sessions
    BY <1>13 DEF CloseTake, ControllerOK
  <2>2. [pc |-> "teardown", session |-> current, scan |-> scan, rows |-> {}] \in CloserState
    BY <2>1 DEF CloserState, ControllerOK
  <2> QED
    BY <1>13, <2>1, <2>2 DEF CloseTake, ControllerOK, ProcsOK, BusyInv, ServiceOK, StoreOK
<1>14. ASSUME NEW c \in Closers, CloseTeardown(c)
       PROVE  TInv'
  <2>1. closer[c] \in CloserState /\ [closer[c] EXCEPT !.pc = "mark"] \in CloserState
    BY DEF ProcsOK, CloserState
  <2>2. closer' = [closer EXCEPT ![c] = [closer[c] EXCEPT !.pc = "mark"]]
    BY <1>14 DEF CloseTeardown
  <2>3. closer'[c].session = closer[c].session /\ closer[c].pc # "idle"
    BY <1>14, <2>1, <2>2 DEF CloseTeardown, ProcsOK, CloserState
  <2>4. closer' \in [Closers -> CloserState] /\ \A d \in Closers \ {c} : closer'[d] = closer[d]
    BY <2>1, <2>2 DEF ProcsOK
  <2>5. ProcsOK' /\ BusyInv'
    BY <1>14, <2>3, <2>4 DEF CloseTeardown, ProcsOK, BusyInv
  <2> QED
    BY <1>14, <2>5 DEF CloseTeardown, ControllerOK, ServiceOK, StoreOK, ProcsOK
<1>15. ASSUME NEW c \in Closers, CloseMark(c)
       PROVE  TInv'
  <2>1. closer[c] \in CloserState /\ [closer[c] EXCEPT !.pc = "snapshot"] \in CloserState
    BY DEF ProcsOK, CloserState
  <2>2. closer' = [closer EXCEPT ![c] = [closer[c] EXCEPT !.pc = "snapshot"]]
    BY <1>15 DEF CloseMark
  <2>3. closer'[c].session = closer[c].session /\ closer[c].pc # "idle"
    BY <1>15, <2>1, <2>2 DEF CloseMark, ProcsOK, CloserState
  <2>4. closer' \in [Closers -> CloserState] /\ \A d \in Closers \ {c} : closer'[d] = closer[d]
    BY <2>1, <2>2 DEF ProcsOK
  <2>5. ProcsOK' /\ BusyInv'
    BY <1>15, <2>3, <2>4 DEF CloseMark, ProcsOK, BusyInv
  <2>6. closer[c].session \in Sessions
    BY <2>3 DEF BusyInv
  <2>7. StoreOK'
    BY <1>15, <2>6 DEF CloseMark, StoreOK, Status
  <2> QED
    BY <1>15, <2>5, <2>7 DEF CloseMark, ControllerOK, ServiceOK, StoreOK, ProcsOK
<1>16. ASSUME NEW c \in Closers, CloseSnapshot(c)
       PROVE  TInv'
  <2>0. closer[c].session \in Sessions /\ ledger[closer[c].session] \in SUBSET Students
    BY <1>16 DEF CloseSnapshot, BusyInv, StoreOK
  <2> DEFINE x == [closer[c] EXCEPT !.pc = "upload", !.rows = ledger[closer[c].session]]
  <2>1. closer[c] \in CloserState /\ x \in CloserState /\ x.session = closer[c].session
    BY <2>0 DEF ProcsOK, CloserState
  <2>2. closer' = [closer EXCEPT ![c] = x]
    BY <1>16 DEF CloseSnapshot, ProcsOK
  <2> HIDE DEF x
  <2>3. closer'[c].session = closer[c].session
    BY <2>1, <2>2 DEF ProcsOK
  <2>4. closer' \in [Closers -> CloserState] /\ \A d \in Closers \ {c} : closer'[d] = closer[d]
    BY <2>1, <2>2 DEF ProcsOK
  <2> QED
    BY <1>16, <2>0, <2>3, <2>4 DEF CloseSnapshot, ProcsOK, BusyInv, ControllerOK, ServiceOK, StoreOK
<1>17. ASSUME NEW c \in Closers, NEW outcome, CloseUpload(c, outcome)
       PROVE  TInv'
  <2>1. closer[c].session \in Sessions /\ closer[c].rows \in SUBSET Students
    BY <1>17 DEF CloseUpload, BusyInv, ProcsOK, CloserState
  <2>2. StoreOK'
    BY <1>17, <2>1, UploadType DEF CloseUpload, StoreOK
  <2>3. ProcsOK' /\ BusyInv'
    BY <1>17, IdleTypes DEF CloseUpload, ProcsOK, BusyInv, IdleCloser
  <2> QED
    BY <1>17, <2>2, <2>3 DEF CloseUpload, ControllerOK, ServiceOK, StoreOK, ProcsOK
<1>18. ASSUME NEW s \in Sessions, SyncRead(s)
       PROVE  TInv'
  <2>1. StoreOK'
    BY <1>18 DEF SyncRead, StoreOK, Status
  <2>2. [pc |-> "upload", session |-> s, rows |-> ledger[s]] \in SyncState
    BY DEF SyncState, StoreOK
  <2>3. ProcsOK' /\ BusyInv'
    BY <1>18, <2>2 DEF SyncRead, ProcsOK, BusyInv
  <2> QED
    BY <1>18, <2>1, <2>3 DEF SyncRead, ControllerOK, ServiceOK, StoreOK, ProcsOK
<1>19. ASSUME NEW s \in Sessions, NEW outcome, SyncUpload(s, outcome)
       PROVE  TInv'
  <2>1. syncer.rows \in SUBSET Students
    BY <1>19 DEF ProcsOK, SyncState
  <2>2. StoreOK'
    BY <1>19, <2>1, UploadType DEF SyncUpload, StoreOK
  <2>3. ProcsOK' /\ BusyInv'
    BY <1>19, IdleTypes DEF SyncUpload, ProcsOK, BusyInv, IdleSync
  <2> QED
    BY <1>19, <2>2, <2>3 DEF SyncUpload, ControllerOK, ServiceOK, StoreOK, ProcsOK
<1>20. CASE Crash
  <2>1. ControllerOK' /\ ServiceOK' /\ StoreOK'
    BY <1>20, IdleTypes DEF Crash, FreshProcess, ControllerOK, ServiceOK, StoreOK
  <2>2. ProcsOK'
    BY <1>20, IdleTypes DEF Crash, FreshProcess, ProcsOK
  <2>3. BusyInv'
    BY <1>20 DEF Crash, FreshProcess, BusyInv, Idle, IdleCloser, IdleThread, IdleSync
  <2>4. (crashes \in 0 .. MaxCrashes)'
    BY <1>20, HubAssumption DEF Crash
  <2> QED
    BY <2>1, <2>2, <2>3, <2>4
<1>21. CASE UNCHANGED vars
  BY <1>21 DEF vars, ControllerOK, ServiceOK, StoreOK, ProcsOK, BusyInv
<1> QED
  BY <1>1, <1>2, <1>3, <1>4, <1>5, <1>6, <1>7, <1>8, <1>9, <1>10, <1>11, <1>12, <1>13,
     <1>14, <1>15, <1>16, <1>17, <1>18, <1>19, <1>20, <1>21
     DEF Next, OpenStep, ThreadStep, CloseStep, SyncStep, ManualClose, AutoClose

\* Type correctness of the session's life on the phone.
THEOREM TypeCorrect == Spec => []TypeOK
<1>1. Spec => []TInv
  BY InitTInv, NextTInv, PTL DEF Spec
<1> QED
  BY <1>1, TypeParts, PTL

-----------------------------------------------------------------------------
(* Delivery.  SYNCED is written by three coroutines that read the ledger   *)
(* at different times, some of them for a session that another one has     *)
(* closed meanwhile.  What makes it true is that a session is OPEN once,   *)
(* so that the ledger it had when it was closed never changes again, and   *)
(* that everybody who uploads read the ledger after that.                  *)

\* A session id belongs to one open() at most, and is not in the table
\* before that open() publishes it.
FreshInv ==
    /\ \A o \in Openers : opener[o].pc \in {"reset", "publish"} =>
                             db[opener[o].session] = "none"
    /\ \A o, p \in Openers : o # p /\ opener[o].pc # "idle" =>
                                opener[o].session # opener[p].session

\* A session that is being closed was opened.
OpenedInv ==
    /\ current # None => db[current] # "none"
    /\ \A c \in Closers : closer[c].pc # "idle" => db[closer[c].session] # "none"

\* Who uploads a session does so after it was marked CLOSED, with all the
\* rows it had then.
PackageInv ==
    /\ \A s \in Sessions : atClose[s] \subseteq ledger[s]
    /\ \A c \in Closers :
          /\ closer[c].pc \in {"snapshot", "upload"} =>
                db[closer[c].session] \notin {"none", "OPEN"}
          /\ closer[c].pc = "upload" => atClose[closer[c].session] \subseteq closer[c].rows
    /\ syncer.pc = "upload" => /\ db[syncer.session] \notin {"none", "OPEN"}
                               /\ atClose[syncer.session] \subseteq syncer.rows

DeliveryInv == TInv /\ FreshInv /\ OpenedInv /\ PackageInv /\ SyncedIsDelivered

\* An upload leaves the other sessions alone and takes nothing away; it
\* marks its own SYNCED only with all its rows delivered.
LEMMA UploadEffect ==
    ASSUME StoreOK, NEW s \in Sessions, NEW rows \in SUBSET Students, NEW proof,
           NEW outcome, Upload(s, rows, proof, outcome)
    PROVE  /\ \A x \in Sessions \ {s} : db'[x] = db[x] /\ central'[x] = central[x]
           /\ db'[s] \in {"SYNCED", "PENDING_SYNC"}
           /\ db'[s] = "SYNCED" => rows \subseteq central'[s]
<1>1. PICK part \in SUBSET rows : \E seeded : Applied(s, part, seeded)
  BY Zenon DEF Upload
<1>2. central' = [central EXCEPT ![s] = @ \cup part]
  BY <1>1 DEF Applied
<1>3. CASE outcome = "ack" /\ Applied(s, rows, proof.start # "none")
                          /\ db' = [db EXCEPT ![s] = "SYNCED"]
  BY <1>3 DEF Applied, StoreOK
<1>4. CASE db' = [db EXCEPT ![s] = "PENDING_SYNC"]
  BY <1>2, <1>4 DEF StoreOK
<1> QED
  BY <1>3, <1>4 DEF Upload

\* Handlers, the gate and the service do not touch what delivery is about.
LEMMA DeliveryKept ==
    ASSUME DeliveryInv, UNCHANGED <<opener, closer, syncer, current, db, ledger, central, atClose>>
    PROVE  FreshInv' /\ OpenedInv' /\ PackageInv' /\ SyncedIsDelivered'
BY DEF DeliveryInv, FreshInv, OpenedInv, PackageInv, SyncedIsDelivered

\* Every step preserves the delivery invariant.
LEMMA NextDelivery == DeliveryInv /\ [Next]_vars => DeliveryInv'
<1> SUFFICES ASSUME DeliveryInv, [Next]_vars PROVE DeliveryInv'
  OBVIOUS
<1> DEFINE Goal == FreshInv /\ OpenedInv /\ PackageInv /\ SyncedIsDelivered
<1> SUFFICES Goal'
  BY NextTInv DEF DeliveryInv
<1> USE DEF controller, service, procs, cloud, history
<1>a. FreshInv /\ OpenedInv /\ PackageInv /\ SyncedIsDelivered /\ BusyInv
  BY DEF DeliveryInv, TInv
<1>b. StoreOK /\ ProcsOK /\ (current \in Sessions \cup {None})
  BY DEF DeliveryInv, TInv, ControllerOK
<1>1. CASE ServiceStart \/ ServiceDestroy \/ GateEvaluate \/ GateApply \/ StartLecturerByCode
           \/ UNCHANGED vars
  BY <1>1, DeliveryKept DEF ServiceStart, ServiceDestroy, GateEvaluate, GateApply,
                            StartLecturerByCode, vars
<1>2. ASSUME NEW t \in Threads,
             (\E st \in Students : Receive(t, st)) \/ LecturerStarted(t)
      PROVE  Goal'
  BY <1>2, DeliveryKept DEF Receive, LecturerStarted
<1>3. ASSUME NEW o \in Openers, NEW s \in Sessions, OpenCheck(o, s)
      PROVE  Goal'
  <2>1. /\ opener'[o].pc = "reset" /\ opener'[o].session = s
        /\ \A p \in Openers \ {o} : opener'[p] = opener[p] /\ opener[p].session # s
        /\ db[s] = "none"
    BY <1>3, <1>b DEF OpenCheck, ProcsOK
  <2>2. FreshInv'
    BY <1>3, <1>a, <2>1 DEF OpenCheck, FreshInv
  <2> QED
    BY <1>3, <1>a, <2>2 DEF OpenCheck, OpenedInv, PackageInv, SyncedIsDelivered
<1>4. ASSUME NEW o \in Openers, OpenReset(o)
      PROVE  Goal'
  <2>1. /\ opener'[o].pc = "publish" /\ opener'[o].session = opener[o].session
        /\ \A p \in Openers \ {o} : opener'[p] = opener[p]
    BY <1>4, <1>b DEF OpenReset, ProcsOK, OpenerState
  <2>2. FreshInv'
    BY <1>4, <1>a, <2>1 DEF OpenReset, FreshInv
  <2> QED
    BY <1>4, <1>a, <2>2 DEF OpenReset, OpenedInv, PackageInv, SyncedIsDelivered
<1>5. ASSUME NEW o \in Openers, OpenPublish(o)
      PROVE  Goal'
  <2> DEFINE s == opener[o].session
  <2>1. /\ s \in Sessions /\ db[s] = "none"
        /\ opener'[o].pc = "golive" /\ opener'[o].session = s
        /\ \A p \in Openers \ {o} : opener'[p] = opener[p] /\ opener[p].session # s
    BY <1>5, <1>a, <1>b DEF OpenPublish, ProcsOK, OpenerState, BusyInv, FreshInv
  <2>2. current' = s /\ db' = [db EXCEPT ![s] = "OPEN"]
    BY <1>5 DEF OpenPublish
  <2> HIDE DEF s
  <2>3. db'[s] = "OPEN" /\ \A x \in Sessions \ {s} : db'[x] = db[x]
    BY <1>b, <2>1, <2>2 DEF StoreOK
  <2>4. FreshInv'
    BY <1>5, <1>a, <2>1, <2>3 DEF FreshInv, BusyInv
  <2>5. OpenedInv'
    BY <1>5, <1>a, <2>1, <2>2, <2>3 DEF OpenPublish, OpenedInv, BusyInv
  <2>6. PackageInv'
    BY <1>5, <1>a, <2>1, <2>3 DEF OpenPublish, PackageInv, BusyInv
  <2>7. SyncedIsDelivered'
    BY <1>5, <1>a, <2>3 DEF OpenPublish, SyncedIsDelivered
  <2> QED
    BY <2>4, <2>5, <2>6, <2>7
<1>6. ASSUME NEW o \in Openers, OpenLive(o)
      PROVE  Goal'
  <2>1. /\ opener'[o].pc = "idle" /\ opener'[o].session = None
        /\ \A p \in Openers \ {o} : opener'[p] = opener[p]
    BY <1>6, <1>b DEF OpenLive, ProcsOK, Idle
  <2>2. FreshInv'
    BY <1>6, <1>a, <2>1, HubAssumption DEF OpenLive, FreshInv, BusyInv
  <2> QED
    BY <1>6, <1>a, <2>2 DEF OpenLive, OpenedInv, PackageInv, SyncedIsDelivered
<1>7. ASSUME NEW t \in Threads, RecordRow(t)
      PROVE  Goal'
  <2>1. \A s \in Sessions : ledger[s] \subseteq ledger'[s]
    BY <1>7, <1>b DEF RecordRow, StoreOK
  <2>2. PackageInv'
    BY <1>7, <1>a, <2>1 DEF RecordRow, PackageInv
  <2> QED
    BY <1>7, <1>a, <2>2 DEF RecordRow, FreshInv, OpenedInv, SyncedIsDelivered
<1>8. ASSUME NEW c \in Closers, CloseTake(c)
      PROVE  Goal'
  <2>1. /\ closer'[c].pc = "teardown" /\ closer'[c].session = current
        /\ \A d \in Closers \ {c} : closer'[d] = closer[d]
    BY <1>8, <1>b DEF CloseTake, ProcsOK
  <2>2. OpenedInv'
    BY <1>8, <1>a, <2>1 DEF CloseTake, OpenedInv
  <2>3. PackageInv'
    BY <1>8, <1>a, <2>1 DEF CloseTake, PackageInv
  <2> QED
    BY <1>8, <1>a, <2>2, <2>3 DEF CloseTake, FreshInv, SyncedIsDelivered
<1>9. ASSUME NEW c \in Closers, CloseTeardown(c)
      PROVE  Goal'
  <2>1. /\ closer'[c].pc = "mark" /\ closer'[c].session = closer[c].session
        /\ \A d \in Closers \ {c} : closer'[d] = closer[d]
    BY <1>9, <1>b DEF CloseTeardown, ProcsOK, CloserState
  <2>2. OpenedInv'
    BY <1>9, <1>a, <2>1 DEF CloseTeardown, OpenedInv
  <2>3. PackageInv'
    BY <1>9, <1>a, <2>1 DEF CloseTeardown, PackageInv
  <2> QED
    BY <1>9, <1>a, <2>2, <2>3 DEF CloseTeardown, FreshInv, SyncedIsDelivered
<1>10. ASSUME NEW c \in Closers, CloseMark(c)
       PROVE  Goal'
  <2> DEFINE s == closer[c].session
  <2>1. /\ closer'[c].pc = "snapshot" /\ closer'[c].session = s
        /\ \A d \in Closers \ {c} : closer'[d] = closer[d]
    BY <1>10, <1>b DEF CloseMark, ProcsOK, CloserState
  <2>2. s \in Sessions /\ db[s] # "none"
    BY <1>10, <1>a DEF CloseMark, BusyInv, OpenedInv
  <2>3. /\ db' = [db EXCEPT ![s] = "CLOSED"]
        /\ atClose' = IF db[s] = "OPEN" THEN [atClose EXCEPT ![s] = ledger[s]] ELSE atClose
    BY <1>10 DEF CloseMark
  <2> HIDE DEF s
  <2>4. /\ db'[s] = "CLOSED" /\ \A x \in Sessions \ {s} : db'[x] = db[x] /\ atClose'[x] = atClose[x]
        /\ atClose'[s] = ledger[s] \/ atClose'[s] = atClose[s]
        /\ db[s] # "OPEN" => atClose'[s] = atClose[s]
    BY <1>b, <2>2, <2>3 DEF StoreOK
  <2>5. FreshInv'
    BY <1>10, <1>a, <2>2, <2>4 DEF CloseMark, FreshInv, BusyInv
  <2>6. OpenedInv'
    BY <1>10, <1>a, <1>b, <2>1, <2>4 DEF CloseMark, OpenedInv, BusyInv
  <2>7. PackageInv'
    <3>1. \A x \in Sessions : (atClose[x] \subseteq ledger[x])'
      BY <1>10, <1>a, <2>4 DEF CloseMark, PackageInv
    <3>2. ASSUME NEW d \in Closers
          PROVE  /\ closer'[d].pc \in {"snapshot", "upload"} =>
                       db'[closer'[d].session] \notin {"none", "OPEN"}
                 /\ closer'[d].pc = "upload" => atClose'[closer'[d].session] \subseteq closer'[d].rows
      BY <1>a, <2>1, <2>4 DEF PackageInv, BusyInv
    <3>3. (syncer.pc = "upload" => /\ db[syncer.session] \notin {"none", "OPEN"}
                                   /\ atClose[syncer.session] \subseteq syncer.rows)'
      BY <1>10, <1>a, <2>4 DEF CloseMark, PackageInv, BusyInv
    <3> QED
      BY <3>1, <3>2, <3>3 DEF PackageInv
  <2>8. SyncedIsDelivered'
    BY <1>10, <1>a, <2>4 DEF CloseMark, SyncedIsDelivered
  <2> QED
    BY <2>5, <2>6, <2>7, <2>8
<1>11. ASSUME NEW c \in Closers, CloseSnapshot(c)
       PROVE  Goal'
  <2>1. /\ closer'[c].pc = "upload" /\ closer'[c].session = closer[c].session
        /\ closer'[c].rows = ledger[closer[c].session]
        /\ \A d \in Closers \ {c} : closer'[d] = closer[d]
    BY <1>11, <1>b DEF CloseSnapshot, ProcsOK, CloserState
  <2>2. OpenedInv'
    BY <1>11, <1>a, <2>1 DEF CloseSnapshot, OpenedInv
  <2>3. PackageInv'
    BY <1>11, <1>a, <2>1 DEF CloseSnapshot, PackageInv, BusyInv
  <2> QED
    BY <1>11, <1>a, <2>2, <2>3 DEF CloseSnapshot, FreshInv, SyncedIsDelivered
<1>12. ASSUME NEW s \in Sessions, db[s] \notin {"none", "OPEN"},
              \A x \in Sessions \ {s} : db'[x] = db[x] /\ central'[x] = central[x],
              db'[s] \in {"SYNCED", "PENDING_SYNC"},
              db'[s] = "SYNCED" => atClose[s] \subseteq central'[s],
              UNCHANGED <<opener, current, ledger, atClose>>,
              \A d \in Closers : closer'[d] = closer[d] \/ closer'[d].pc = "idle",
              syncer' = syncer \/ syncer'.pc = "idle"
       PROVE  Goal'
  <2>1. FreshInv'
    BY <1>12, <1>a DEF FreshInv, BusyInv
  <2>2. OpenedInv'
    BY <1>12, <1>a, <1>b DEF OpenedInv, BusyInv
  <2>3. PackageInv'
    <3>1. \A x \in Sessions : (atClose[x] \subseteq ledger[x])'
      BY <1>12, <1>a DEF PackageInv
    <3>2. ASSUME NEW d \in Closers
          PROVE  /\ closer'[d].pc \in {"snapshot", "upload"} =>
                       db'[closer'[d].session] \notin {"none", "OPEN"}
                 /\ closer'[d].pc = "upload" => atClose'[closer'[d].session] \subseteq closer'[d].rows
      BY <1>12, <1>a DEF PackageInv, BusyInv
    <3>3. (syncer.pc = "upload" => /\ db[syncer.session] \notin {"none", "OPEN"}
                                   /\ atClose[syncer.session] \subseteq syncer.rows)'
      BY <1>12, <1>a DEF PackageInv, BusyInv
    <3> QED
      BY <3>1, <3>2, <3>3 DEF PackageInv
  <2>4. SyncedIsDelivered'
    BY <1>12, <1>a DEF SyncedIsDelivered
  <2> QED
    BY <2>1, <2>2, <2>3, <2>4
<1>13. ASSUME NEW c \in Closers, NEW outcome, CloseUpload(c, outcome)
       PROVE  Goal'
  <2> DEFINE s == closer[c].session
  <2>1. /\ s \in Sessions /\ closer[c].rows \in SUBSET Students
        /\ db[s] \notin {"none", "OPEN"} /\ atClose[s] \subseteq closer[c].rows
    BY <1>13, <1>a, <1>b DEF CloseUpload, BusyInv, ProcsOK, CloserState, PackageInv
  <2>2. Upload(s, closer[c].rows, closer[c].scan, outcome)
    BY <1>13 DEF CloseUpload
  <2>3. \A d \in Closers : closer'[d] = closer[d] \/ closer'[d].pc = "idle"
    BY <1>13, <1>b DEF CloseUpload, ProcsOK, IdleCloser
  <2> HIDE DEF s
  <2>4. /\ \A x \in Sessions \ {s} : db'[x] = db[x] /\ central'[x] = central[x]
        /\ db'[s] \in {"SYNCED", "PENDING_SYNC"}
        /\ db'[s] = "SYNCED" => closer[c].rows \subseteq central'[s]
    BY <1>b, <2>1, <2>2, UploadEffect
  <2>5. UNCHANGED <<opener, current, ledger, atClose, syncer>>
    BY <1>13 DEF CloseUpload
  <2>6. db'[s] = "SYNCED" => atClose[s] \subseteq central'[s]
    BY <2>1, <2>4
  <2> QED
    BY <1>12, <2>1, <2>3, <2>4, <2>5, <2>6
<1>14. ASSUME NEW s \in Sessions, SyncRead(s)
       PROVE  Goal'
  <2>1. db[s] \notin {"none", "OPEN"} /\ UNCHANGED <<opener, closer, current, ledger, central, atClose>>
    BY <1>14 DEF SyncRead
  <2>2. CASE ledger[s] = {} /\ db' = [db EXCEPT ![s] = "SYNCED"] /\ UNCHANGED syncer
    <3>1. db'[s] = "SYNCED" /\ \A x \in Sessions \ {s} : db'[x] = db[x]
      BY <1>b, <2>2 DEF StoreOK
    <3>2. atClose[s] \subseteq central'[s]
      BY <1>a, <2>2 DEF PackageInv
    <3> QED
      BY <1>12, <2>1, <2>2, <3>1, <3>2
  <2>3. CASE /\ syncer' = [pc |-> "upload", session |-> s, rows |-> ledger[s]]
             /\ UNCHANGED db
    <3>1. syncer'.session = s /\ syncer'.rows = ledger[s]
      BY <2>3
    <3>2. PackageInv'
      BY <1>a, <2>1, <2>3, <3>1 DEF PackageInv
    <3> QED
      BY <1>a, <2>1, <2>3, <3>2 DEF FreshInv, OpenedInv, SyncedIsDelivered
  <2> QED
    BY <1>14, <2>2, <2>3 DEF SyncRead
<1>15. ASSUME NEW s \in Sessions, NEW outcome, SyncUpload(s, outcome)
       PROVE  Goal'
  <2>1. /\ syncer.rows \in SUBSET Students
        /\ db[s] \notin {"none", "OPEN"} /\ atClose[s] \subseteq syncer.rows
    BY <1>15, <1>a, <1>b DEF SyncUpload, ProcsOK, SyncState, PackageInv
  <2>2. Upload(s, syncer.rows, NoScan, outcome)
    BY <1>15 DEF SyncUpload
  <2>3. syncer'.pc = "idle" /\ UNCHANGED <<opener, current, ledger, atClose, closer>>
    BY <1>15 DEF SyncUpload, IdleSync
  <2>4. /\ \A x \in Sessions \ {s} : db'[x] = db[x] /\ central'[x] = central[x]
        /\ db'[s] \in {"SYNCED", "PENDING_SYNC"}
        /\ db'[s] = "SYNCED" => syncer.rows \subseteq central'[s]
    BY <1>b, <2>1, <2>2, UploadEffect
  <2>6. db'[s] = "SYNCED" => atClose[s] \subseteq central'[s]
    BY <2>1, <2>4
  <2> QED
    BY <1>12, <2>1, <2>3, <2>4, <2>6
<1>16. CASE Crash
  <2>1. /\ \A o \in Openers : opener'[o].pc = "idle"
        /\ \A c \in Closers : closer'[c].pc = "idle"
        /\ syncer'.pc = "idle" /\ current' = None
    BY <1>16 DEF Crash, FreshProcess, Idle, IdleCloser, IdleSync
  <2> QED
    BY <1>16, <1>a, <2>1 DEF Crash, FreshInv, OpenedInv, PackageInv, SyncedIsDelivered
<1> HIDE DEF Goal
<1> QED
  BY <1>1, <1>2, <1>3, <1>4, <1>5, <1>6, <1>7, <1>8, <1>9, <1>10, <1>11, <1>13, <1>14,
     <1>15, <1>16
     DEF Next, OpenStep, ThreadStep, CloseStep, SyncStep, ManualClose, AutoClose

\* Whatever the races of close(), syncPending, process death and lost
\* answers, a session is SYNCED only with all it had when it was closed.
THEOREM SyncedIsDeliveredAlways == Spec => []SyncedIsDelivered
<1>1. Init => DeliveryInv
  <2> SUFFICES ASSUME Init PROVE FreshInv /\ OpenedInv /\ PackageInv /\ SyncedIsDelivered
    BY InitTInv DEF DeliveryInv
  <2> QED
    BY DEF Init, FreshInv, OpenedInv, PackageInv, SyncedIsDelivered, Idle, IdleCloser, IdleSync
<1> QED
  BY <1>1, NextDelivery, PTL DEF Spec, DeliveryInv

-----------------------------------------------------------------------------
\* The service, the room and the screen agree about the session in the room.
RoomInv ==
    /\ live = app
    /\ live # None => ready
    /\ ready => server = "up" /\ ~stopping
    /\ armed => app # None
    /\ \A c \in Closers : closer[c].pc = "teardown" => ~armed /\ (app # None \/ ~ready)
    /\ \A o \in Openers : opener[o].pc # "idle" => ready /\ app = None
    /\ \A o \in Openers : opener[o].pc \in {"publish", "golive"} => gate = "NOT_STARTED"

\* A handler that is still to read or to write the gate captured the session
\* in the room, or one whose service has not been started again.
CaptureInv ==
    /\ gatePost.pc # "idle" => gatePost.session = live \/ ~ready
    /\ \A t \in Threads : thread[t].pc = "received" =>
          /\ server = "up"
          /\ thread[t].session = live \/ ~ready
          /\ gatePost.pc # "idle" => thread[t].session = gatePost.session

\* The gate is open for the session that those who read it mean.
StartedInv ==
    /\ gate = "STARTED" =>
          /\ live # None => live \in started
          /\ \A t \in Threads : thread[t].pc = "received" => thread[t].session \in started
    /\ \A t \in Threads : thread[t].pc = "record" => thread[t].session \in started
    /\ RecordedOnlyIfStarted

\* END is written once, and closes the way back to START.
ProofInv ==
    /\ scan.end => gate = "ENDED"
    /\ gate # "NOT_STARTED" => startedHere \/ app = None
    /\ gatePost.pc = "START" => gate # "ENDED"
    /\ gatePost.pc = "END" => gate = "STARTED"
    /\ StartPrecedesEnd

GInv == TInv /\ RoomInv /\ CaptureInv /\ StartedInv /\ ProofInv

\* One tap on "Start taking attendance" at a time.  Two open() coroutines
\* that both pass the check are a known hazard of the code: then the gate of
\* the one is reset under the other, and what follows does not hold.
OneOpener == \A o, p \in Openers : o = p

\* Every step preserves the gate's invariant, as long as there is one open().
LEMMA NextGInv == OneOpener /\ GInv /\ [Next]_vars => GInv'
<1> SUFFICES ASSUME OneOpener, GInv, [Next]_vars PROVE GInv'
  OBVIOUS
<1> DEFINE Goal == RoomInv /\ CaptureInv /\ StartedInv /\ ProofInv
<1> SUFFICES Goal'
  BY NextTInv DEF GInv
<1> USE DEF controller, service, procs, cloud, history
<1>a. RoomInv /\ CaptureInv /\ StartedInv /\ ProofInv /\ BusyInv
  BY DEF GInv, TInv
<1>b. StoreOK /\ ProcsOK /\ ControllerOK /\ ServiceOK
  BY DEF GInv, TInv
<1>c. ASSUME UNCHANGED <<live, app, ready, server, stopping, armed, opener, gate, gatePost, thread,
                         started, ledger, scan, startedHere>>,
             \A c \in Closers : closer'[c].pc = "teardown" => closer[c].pc = "teardown"
      PROVE  Goal'
  BY <1>a, <1>c DEF RoomInv, CaptureInv, StartedInv, ProofInv, RecordedOnlyIfStarted, StartPrecedesEnd
<1>1. CASE ServiceStart
  <2>1. live = None /\ app = None /\ ~ready /\ gatePost.pc = "idle"
    BY <1>1, <1>a DEF ServiceStart, Quiet, RoomInv
  <2>2. \A t \in Threads : thread[t].pc # "received"
    BY <1>1, <1>a DEF ServiceStart, CaptureInv
  <2>3. RoomInv'
    BY <1>1, <1>a, <2>1 DEF ServiceStart, Quiet, RoomInv
  <2>4. CaptureInv'
    BY <1>1, <2>1, <2>2 DEF ServiceStart, CaptureInv
  <2>5. StartedInv' /\ ProofInv'
    BY <1>1, <1>a, <2>1, <2>2 DEF ServiceStart, StartedInv, ProofInv, RecordedOnlyIfStarted, StartPrecedesEnd
  <2> QED
    BY <2>3, <2>4, <2>5
<1>2. CASE ServiceDestroy
  <2>1. ~ready /\ live = None /\ app = None
    BY <1>2, <1>a DEF ServiceDestroy, RoomInv
  <2>2. \A t \in Threads : thread'[t].pc # "received" /\ (thread'[t].pc = "record" => thread'[t] = thread[t])
    BY <1>2 DEF ServiceDestroy, IdleThread
  <2>3. RoomInv'
    BY <1>2, <1>a, <2>1 DEF ServiceDestroy, RoomInv
  <2>4. CaptureInv'
    BY <1>2, <2>2 DEF ServiceDestroy, CaptureInv
  <2>5. StartedInv' /\ ProofInv'
    BY <1>2, <1>a, <2>1, <2>2 DEF ServiceDestroy, StartedInv, ProofInv, RecordedOnlyIfStarted, StartPrecedesEnd
  <2> QED
    BY <2>3, <2>4, <2>5
<1>3. ASSUME NEW o \in Openers, NEW s \in Sessions, OpenCheck(o, s)
      PROVE  Goal'
  <2>1. opener'[o].pc = "reset" /\ \A p \in Openers \ {o} : opener'[p] = opener[p]
    BY <1>3, <1>b DEF OpenCheck, ProcsOK
  <2>2. RoomInv'
    BY <1>3, <1>a, <2>1 DEF OpenCheck, RoomInv
  <2> QED
    BY <1>3, <1>a, <2>2 DEF OpenCheck, CaptureInv, StartedInv, ProofInv, RecordedOnlyIfStarted, StartPrecedesEnd
<1>d. ASSUME NEW o \in Openers, opener[o].pc # "idle"
      PROVE  /\ ready /\ app = None /\ live = None /\ gatePost.pc = "idle"
             /\ \A t \in Threads : thread[t].pc # "received"
  <2>1. ready /\ app = None /\ live = None
    BY <1>a, <1>d DEF RoomInv
  <2> QED
    BY <1>a, <2>1, HubAssumption DEF CaptureInv, BusyInv
<1>4. ASSUME NEW o \in Openers, OpenReset(o)
      PROVE  Goal'
  <2>1. /\ opener[o].pc # "idle" /\ opener'[o].pc = "publish"
        /\ \A p \in Openers \ {o} : opener'[p] = opener[p]
    BY <1>4, <1>b DEF OpenReset, ProcsOK, OpenerState
  <2>2. RoomInv'
    BY <1>4, <1>a, <1>d, <2>1 DEF OpenReset, RoomInv
  <2>3. CaptureInv' /\ StartedInv'
    BY <1>4, <1>a, <1>d, <2>1 DEF OpenReset, CaptureInv, StartedInv, RecordedOnlyIfStarted
  <2>4. ProofInv'
    BY <1>4, <1>a, <1>d, <2>1 DEF OpenReset, ProofInv, StartPrecedesEnd, NoScan
  <2> QED
    BY <2>2, <2>3, <2>4
<1>5. ASSUME NEW o \in Openers, OpenPublish(o)
      PROVE  Goal'
  <2>1. /\ opener[o].pc = "publish" /\ opener'[o].pc = "golive"
        /\ \A p \in Openers \ {o} : opener'[p] = opener[p]
    BY <1>5, <1>b DEF OpenPublish, ProcsOK, OpenerState
  <2>2. RoomInv'
    BY <1>5, <1>a, <2>1 DEF OpenPublish, RoomInv
  <2> QED
    BY <1>5, <1>a, <2>2 DEF OpenPublish, CaptureInv, StartedInv, ProofInv, RecordedOnlyIfStarted, StartPrecedesEnd
<1>6. ASSUME NEW o \in Openers, OpenLive(o)
      PROVE  Goal'
  <2>1. /\ opener[o].pc = "golive"
        /\ \A p \in Openers : opener'[p].pc = "idle"
    BY <1>6, <1>b DEF OpenLive, ProcsOK, OneOpener, Idle
  <2>2. /\ ready /\ app = None /\ live = None /\ gatePost.pc = "idle"
        /\ \A t \in Threads : thread[t].pc # "received"
    BY <1>d, <2>1
  <2>3. server = "up" /\ ~stopping /\ gate = "NOT_STARTED"
    BY <1>a, <2>1, <2>2 DEF RoomInv
  <2>4. opener[o].session \in Sessions /\ opener[o].session # None
    BY <1>a, <2>1, HubAssumption DEF BusyInv
  <2>5. RoomInv'
    BY <1>6, <1>a, <2>1, <2>2, <2>3, <2>4 DEF OpenLive, RoomInv
  <2>6. CaptureInv' /\ StartedInv'
    BY <1>6, <1>a, <2>2, <2>3 DEF OpenLive, CaptureInv, StartedInv, RecordedOnlyIfStarted
  <2>7. ProofInv'
    BY <1>6, <1>a, <2>3 DEF OpenLive, ProofInv, StartPrecedesEnd
  <2> QED
    BY <2>5, <2>6, <2>7
<1>7. CASE GateEvaluate
  <2>1. gatePost'.session = live /\ live # None /\ ready
    BY <1>7, <1>a DEF GateEvaluate, RoomInv
  <2>2. CaptureInv'
    BY <1>7, <1>a, <2>1 DEF GateEvaluate, CaptureInv
  <2>3. ProofInv'
    BY <1>7, <1>a DEF GateEvaluate, ProofInv, StartPrecedesEnd
  <2> QED
    BY <1>7, <1>a, <2>2, <2>3 DEF GateEvaluate, RoomInv, StartedInv, RecordedOnlyIfStarted
<1>8. CASE GateApply
  <2>1. gatePost.pc # "idle" /\ gatePost.session \in Sessions /\ gatePost'.pc = "idle"
    BY <1>8, <1>a DEF GateApply, BusyInv, Idle
  <2>2. \A o \in Openers : opener[o].pc = "idle"
    BY <1>d, <2>1
  <2>3. RoomInv'
    BY <1>8, <1>a, <2>2 DEF GateApply, RoomInv
  <2>4. CaptureInv'
    BY <1>8, <1>a, <2>1 DEF GateApply, CaptureInv
  <2>5. CASE gatePost.pc = "START"
    <3>1. /\ gate' = "STARTED" /\ startedHere' /\ started' = started \cup {gatePost.session}
          /\ ~scan.end
      BY <1>8, <1>a, <2>5 DEF GateApply, ProofInv
    <3>2. ~scan'.end /\ ~scan'.late
      BY <1>8, <1>b, <2>5, <3>1 DEF GateApply, ControllerOK, Scan
    <3>3. StartedInv'
      BY <1>8, <1>a, <2>1, <3>1 DEF GateApply, StartedInv, RecordedOnlyIfStarted, CaptureInv, RoomInv
    <3>4. ProofInv'
      BY <1>8, <2>1, <3>1, <3>2 DEF ProofInv, StartPrecedesEnd
    <3> QED
      BY <2>3, <2>4, <3>3, <3>4
  <2>6. CASE gatePost.pc = "END"
    <3>1. gate' = "ENDED" /\ gate = "STARTED" /\ UNCHANGED <<startedHere, started, app>>
      BY <1>8, <1>a, <2>6 DEF GateApply, ProofInv
    <3>2. ~scan'.late
      BY <1>8, <1>a, <1>b, <2>6 DEF GateApply, ControllerOK, Scan, ProofInv, StartPrecedesEnd
    <3>3. StartedInv'
      BY <1>8, <1>a, <3>1 DEF GateApply, StartedInv, RecordedOnlyIfStarted
    <3>4. ProofInv'
      BY <1>a, <2>1, <3>1, <3>2 DEF ProofInv, StartPrecedesEnd
    <3> QED
      BY <2>3, <2>4, <3>3, <3>4
  <2> QED
    BY <1>8, <2>5, <2>6 DEF GateApply
<1>9. CASE StartLecturerByCode
  <2>1. app # None /\ live = app /\ ready /\ gate = "NOT_STARTED"
    BY <1>9, <1>a, <1>b DEF StartLecturerByCode, RoomInv, ProofInv, ControllerOK
  <2>2. \A o \in Openers : opener[o].pc = "idle"
    BY <1>d, <2>1
  <2>3. ~scan.end
    BY <1>a, <2>1 DEF ProofInv
  <2>4. ~scan'.end /\ ~scan'.late
    BY <1>9, <1>b, <2>3 DEF StartLecturerByCode, ControllerOK, Scan
  <2>5. RoomInv' /\ CaptureInv'
    BY <1>9, <1>a, <2>2 DEF StartLecturerByCode, RoomInv, CaptureInv
  <2>6. StartedInv'
    BY <1>9, <1>a, <2>1 DEF StartLecturerByCode, StartedInv, CaptureInv, RecordedOnlyIfStarted
  <2>7. ProofInv'
    BY <1>9, <1>a, <2>1, <2>4 DEF StartLecturerByCode, ProofInv, StartPrecedesEnd
  <2> QED
    BY <2>5, <2>6, <2>7
<1>10. ASSUME NEW t \in Threads, NEW st \in Students, Receive(t, st)
       PROVE  Goal'
  <2>1. /\ thread'[t].pc = "received" /\ thread'[t].session = live
        /\ \A u \in Threads \ {t} : thread'[u] = thread[u]
        /\ server = "up" /\ live # None /\ ready
    BY <1>10, <1>a, <1>b DEF Receive, ProcsOK, RoomInv
  <2>2. CaptureInv'
    BY <1>10, <1>a, <2>1 DEF Receive, CaptureInv
  <2>3. StartedInv'
    BY <1>10, <1>a, <2>1 DEF Receive, StartedInv, RecordedOnlyIfStarted
  <2> QED
    BY <1>10, <1>a, <2>2, <2>3 DEF Receive, RoomInv, ProofInv, StartPrecedesEnd
<1>11. ASSUME NEW t \in Threads, LecturerStarted(t)
       PROVE  Goal'
  <2>1. /\ thread[t].pc = "received"
        /\ IF gate = "STARTED" THEN thread'[t].pc = "record" /\ thread'[t].session = thread[t].session
                               ELSE thread'[t].pc = "idle"
        /\ \A u \in Threads \ {t} : thread'[u] = thread[u]
    BY <1>11, <1>b DEF LecturerStarted, ProcsOK, ThreadState, IdleThread
  <2>2. CaptureInv'
    BY <1>11, <1>a, <2>1 DEF LecturerStarted, CaptureInv
  <2>3. StartedInv'
    BY <1>11, <1>a, <2>1 DEF LecturerStarted, StartedInv, RecordedOnlyIfStarted
  <2> QED
    BY <1>11, <1>a, <2>2, <2>3 DEF LecturerStarted, RoomInv, ProofInv, StartPrecedesEnd
<1>12. ASSUME NEW t \in Threads, RecordRow(t)
       PROVE  Goal'
  <2>1. /\ thread'[t].pc = "idle" /\ thread[t].session \in started
        /\ \A u \in Threads \ {t} : thread'[u] = thread[u]
        /\ \A s \in Sessions : s # thread[t].session => ledger'[s] = ledger[s]
    BY <1>12, <1>a, <1>b DEF RecordRow, ProcsOK, StoreOK, IdleThread, StartedInv
  <2>2. CaptureInv'
    BY <1>12, <1>a, <2>1 DEF RecordRow, CaptureInv
  <2>3. StartedInv'
    BY <1>12, <1>a, <2>1 DEF RecordRow, StartedInv, RecordedOnlyIfStarted
  <2> QED
    BY <1>12, <1>a, <2>2, <2>3 DEF RecordRow, RoomInv, ProofInv, StartPrecedesEnd
<1>13. ASSUME NEW c \in Closers, ManualClose(c) \/ AutoClose(c)
       PROVE  Goal'
  <2>1. CloseTake(c) /\ app # None
    BY <1>13, <1>a DEF ManualClose, AutoClose, RoomInv
  <2>2. \A d \in Closers \ {c} : closer'[d] = closer[d]
    BY <2>1, <1>b DEF CloseTake, ProcsOK
  <2>3. RoomInv'
    BY <1>a, <2>1, <2>2 DEF CloseTake, RoomInv
  <2> QED
    BY <1>a, <2>1, <2>3 DEF CloseTake, CaptureInv, StartedInv, ProofInv, RecordedOnlyIfStarted, StartPrecedesEnd
<1>14. ASSUME NEW c \in Closers, CloseTeardown(c)
       PROVE  Goal'
  <2>1. \A o \in Openers : opener[o].pc = "idle"
    BY <1>14, <1>a, <1>d DEF CloseTeardown, RoomInv
  <2>2. closer'[c].pc = "mark" /\ \A d \in Closers \ {c} : closer'[d] = closer[d]
    BY <1>14, <1>b DEF CloseTeardown, ProcsOK, CloserState
  <2>3. RoomInv'
    BY <1>14, <1>a, <2>1, <2>2 DEF CloseTeardown, RoomInv
  <2>4. CaptureInv'
    BY <1>14, <1>a DEF CloseTeardown, CaptureInv
  <2> QED
    BY <1>14, <1>a, <2>3, <2>4 DEF CloseTeardown, StartedInv, ProofInv, RecordedOnlyIfStarted, StartPrecedesEnd
<1>15. ASSUME NEW c \in Closers, CloseMark(c) \/ CloseSnapshot(c) \/ \E outcome \in Outcome : CloseUpload(c, outcome)
       PROVE  Goal'
  <2>1. UNCHANGED <<live, app, ready, server, stopping, armed, opener, gate, gatePost, thread,
                    started, ledger, scan, startedHere>>
    BY <1>15 DEF CloseMark, CloseSnapshot, CloseUpload
  <2>2. closer'[c].pc # "teardown" /\ \A d \in Closers \ {c} : closer'[d] = closer[d]
    BY <1>15, <1>b DEF CloseMark, CloseSnapshot, CloseUpload, ProcsOK, CloserState, IdleCloser
  <2> QED
    BY <1>c, <2>1, <2>2
<1>16. ASSUME NEW s \in Sessions, SyncStep(s)
       PROVE  Goal'
  <2>1. UNCHANGED <<live, app, ready, server, stopping, armed, opener, gate, gatePost, thread,
                    started, ledger, scan, startedHere, closer>>
    BY <1>16 DEF SyncStep, SyncRead, SyncUpload
  <2> QED
    BY <1>c, <2>1
<1>17. CASE Crash
  <2>1. /\ \A o \in Openers : opener'[o].pc = "idle"
        /\ \A c \in Closers : closer'[c].pc = "idle"
        /\ \A t \in Threads : thread'[t].pc = "idle"
        /\ gatePost'.pc = "idle"
        /\ ~scan'.end /\ ~scan'.late
        /\ live' = None /\ app' = None /\ ~ready' /\ ~armed'
        /\ gate' = "NOT_STARTED"
        /\ UNCHANGED <<ledger, started>>
    BY <1>17 DEF Crash, FreshProcess, Idle, IdleCloser, IdleThread, NoScan
  <2>2. RoomInv' /\ CaptureInv' /\ ProofInv'
    BY <2>1 DEF RoomInv, CaptureInv, ProofInv, StartPrecedesEnd
  <2>3. StartedInv'
    BY <1>a, <2>1 DEF StartedInv, RecordedOnlyIfStarted
  <2> QED
    BY <2>2, <2>3
<1>18. CASE UNCHANGED vars
  BY <1>18, <1>c DEF vars
<1> HIDE DEF Goal
<1> QED
  BY <1>1, <1>2, <1>3, <1>4, <1>5, <1>6, <1>7, <1>8, <1>9, <1>10, <1>11, <1>12, <1>13,
     <1>14, <1>15, <1>16, <1>17, <1>18
     DEF Next, OpenStep, ThreadStep, CloseStep

\* With one open() at a time, and any number of handlers, closing coroutines,
\* sessions and process deaths: no student is recorded in a session whose own
\* lecturer did not start it, and no lecture ends before it starts.
THEOREM GateIsObeyedAlways ==
    ASSUME OneOpener
    PROVE  Spec => []GateIsObeyed
<1>1. Init => GInv
  <2> SUFFICES ASSUME Init PROVE RoomInv /\ CaptureInv /\ StartedInv /\ ProofInv
    BY InitTInv DEF GInv
  <2>1. RoomInv /\ CaptureInv
    BY DEF Init, RoomInv, CaptureInv, Idle, IdleCloser, IdleThread
  <2>2. StartedInv
    BY DEF Init, StartedInv, RecordedOnlyIfStarted, IdleThread
  <2>3. ProofInv
    BY DEF Init, ProofInv, StartPrecedesEnd, Idle, NoScan
  <2> QED
    BY <2>1, <2>2, <2>3
<1>2. GInv => GateIsObeyed
  BY TypeParts DEF GInv, StartedInv, ProofInv, GateIsObeyed
<1>3. GInv /\ [Next]_vars => GInv'
  BY NextGInv
<1> QED
  BY <1>1, <1>2, <1>3, PTL DEF Spec

-----------------------------------------------------------------------------
(* The way of the rows as SessionDelivery promises it.                     *)

\* The mapped state.
Closed == {s \in Sessions : db[s] \notin {"none", "OPEN"}}
Delivered == {s \in Sessions : db[s] = "SYNCED"}
DeliveryStep == [Delivery!DeliveryNext]_<<ledger, Closed, atClose, central, Delivered>>

\* Who uploads has rows of the session's own ledger.
RowsInv ==
    /\ \A c \in Closers : closer[c].pc = "upload" => closer[c].rows \subseteq ledger[closer[c].session]
    /\ syncer.pc = "upload" => syncer.rows \subseteq ledger[syncer.session]

\* The three steps of SessionDelivery, over the mapped state.
LEMMA DeliverySteps ==
    ASSUME NEW s \in Sessions
    PROVE  /\ (/\ \E st \in Students : ledger' = [ledger EXCEPT ![s] = @ \cup {st}]
               /\ UNCHANGED <<Closed, atClose, central, Delivered>>) => DeliveryStep
           /\ (/\ s \notin Closed /\ Closed' = Closed \cup {s}
               /\ atClose' = [atClose EXCEPT ![s] = ledger[s]]
               /\ UNCHANGED <<ledger, central, Delivered>>) => DeliveryStep
           /\ (/\ s \in Closed
               /\ \E rows \in SUBSET ledger[s] : central' = [central EXCEPT ![s] = @ \cup rows]
               /\ \/ Delivered' = Delivered \ {s}
                  \/ atClose[s] \subseteq central'[s] /\ Delivered' = Delivered \cup {s}
               /\ UNCHANGED <<ledger, Closed, atClose>>) => DeliveryStep
BY DEF DeliveryStep, Closed, Delivered, Delivery!DeliveryNext, Delivery!Record,
       Delivery!Close, Delivery!Deliver

\* What a change of a closed session's status is to SessionDelivery.
LEMMA StatusStep ==
    ASSUME StoreOK, NEW s \in Sessions, db[s] \notin {"none", "OPEN"},
           NEW v \in {"CLOSED", "SYNCED", "PENDING_SYNC"}, db' = [db EXCEPT ![s] = v]
    PROVE  /\ s \in Closed /\ Closed' = Closed
           /\ Delivered' = IF v = "SYNCED" THEN Delivered \cup {s} ELSE Delivered \ {s}
<1>1. db'[s] = v /\ \A x \in Sessions \ {s} : db'[x] = db[x]
  BY DEF StoreOK
<1> QED
  BY <1>1 DEF Closed, Delivered

\* An upload is a delivery, of all its rows if the session becomes SYNCED.
LEMMA UploadDelivers ==
    ASSUME StoreOK, NEW s \in Sessions, db[s] \notin {"none", "OPEN"},
           NEW rows, rows \subseteq ledger[s], atClose[s] \subseteq rows,
           NEW proof, NEW outcome, Upload(s, rows, proof, outcome),
           UNCHANGED <<ledger, atClose>>
    PROVE  DeliveryStep
<1>1. ASSUME NEW part \in SUBSET rows, NEW v \in {"SYNCED", "PENDING_SYNC"},
             central' = [central EXCEPT ![s] = @ \cup part],
             db' = [db EXCEPT ![s] = v],
             v = "SYNCED" => part = rows
      PROVE  DeliveryStep
  <2>1. s \in Closed /\ Closed' = Closed
    BY <1>1, StatusStep
  <2>2. Delivered' = IF v = "SYNCED" THEN Delivered \cup {s} ELSE Delivered \ {s}
    BY <1>1, StatusStep
  <2>3. central'[s] = central[s] \cup part
    BY <1>1 DEF StoreOK
  <2>4. part \in SUBSET ledger[s]
    OBVIOUS
  <2> QED
    BY <1>1, <2>1, <2>2, <2>3, <2>4, DeliverySteps
<1>2. CASE Applied(s, rows, proof.start # "none") /\ db' = [db EXCEPT ![s] = "SYNCED"]
  <2>1. central' = [central EXCEPT ![s] = @ \cup rows]
    BY <1>2 DEF Applied
  <2> QED
    BY <1>1, <1>2, <2>1
<1>3. CASE /\ \E part \in SUBSET rows, seeded \in {FALSE, proof.start # "none"} :
                  Applied(s, part, seeded)
           /\ db' = [db EXCEPT ![s] = "PENDING_SYNC"]
  <2>1. PICK part \in SUBSET rows : \E seeded : Applied(s, part, seeded)
    BY <1>3, Zenon
  <2>2. central' = [central EXCEPT ![s] = @ \cup part]
    BY <2>1 DEF Applied
  <2> QED
    BY <1>1, <1>3, <2>1, <2>2
<1> QED
  BY <1>2, <1>3 DEF Upload

\* Ledgers grow, so that what an uploader read of one stays in it.
LEMMA RowsKept ==
    ASSUME TInv, RowsInv, \A s \in Sessions : ledger[s] \subseteq ledger'[s],
           \A c \in Closers : closer'[c] = closer[c] \/ closer'[c].pc # "upload",
           syncer' = syncer \/ syncer'.pc # "upload"
    PROVE  RowsInv'
BY DEF RowsInv, TInv, BusyInv

\* Every step is a step of SessionDelivery or leaves it alone.
LEMMA NextDeliverySteps == DeliveryInv /\ RowsInv /\ [Next]_vars => DeliveryStep /\ RowsInv'
<1> SUFFICES ASSUME DeliveryInv, RowsInv, [Next]_vars PROVE DeliveryStep /\ RowsInv'
  OBVIOUS
<1> DEFINE Goal == DeliveryStep /\ RowsInv'
<1> SUFFICES Goal
  OBVIOUS
<1> USE DEF controller, service, procs, cloud, history
<1>a. TInv /\ StoreOK /\ ProcsOK /\ BusyInv
  BY DEF DeliveryInv, TInv
<1>b. FreshInv /\ OpenedInv /\ PackageInv /\ SyncedIsDelivered
  BY DEF DeliveryInv
<1>c. ASSUME UNCHANGED <<db, ledger, central, atClose>>,
             \A c \in Closers : closer'[c] = closer[c] \/ closer'[c].pc # "upload",
             syncer' = syncer \/ syncer'.pc # "upload"
      PROVE  Goal
  <2>1. DeliveryStep
    BY <1>c DEF DeliveryStep, Closed, Delivered
  <2>2. RowsInv'
    BY <1>a, <1>c, RowsKept
  <2> QED
    BY <2>1, <2>2
<1>1. CASE \/ ServiceStart \/ ServiceDestroy \/ GateEvaluate \/ GateApply \/ StartLecturerByCode
           \/ \E t \in Threads : (\E st \in Students : Receive(t, st)) \/ LecturerStarted(t)
           \/ \E o \in Openers : (\E s \in Sessions : OpenCheck(o, s)) \/ OpenReset(o) \/ OpenLive(o)
           \/ UNCHANGED vars
  <2>1. UNCHANGED <<db, ledger, central, atClose, closer, syncer>>
    BY <1>1 DEF ServiceStart, ServiceDestroy, GateEvaluate, GateApply, StartLecturerByCode,
                Receive, LecturerStarted, OpenCheck, OpenReset, OpenLive, vars
  <2> QED
    BY <1>c, <2>1
<1>2. ASSUME NEW o \in Openers, OpenPublish(o) PROVE Goal
  <2> DEFINE s == opener[o].session
  <2>1. s \in Sessions /\ db[s] = "none" /\ db' = [db EXCEPT ![s] = "OPEN"]
    BY <1>2, <1>a, <1>b DEF OpenPublish, BusyInv, FreshInv
  <2>2. UNCHANGED <<ledger, central, atClose, closer, syncer>>
    BY <1>2 DEF OpenPublish
  <2> HIDE DEF s
  <2>3. db'[s] = "OPEN" /\ \A x \in Sessions \ {s} : db'[x] = db[x]
    BY <1>a, <2>1 DEF StoreOK
  <2>4. Closed' = Closed /\ Delivered' = Delivered
    BY <2>1, <2>3 DEF Closed, Delivered
  <2>5. DeliveryStep
    BY <2>2, <2>4 DEF DeliveryStep
  <2> QED
    BY <1>a, <2>2, <2>5, RowsKept
<1>3. ASSUME NEW t \in Threads, RecordRow(t) PROVE Goal
  <2> DEFINE s == thread[t].session
             st == thread[t].student
  <2>1. s \in Sessions /\ st \in Students
    BY <1>3, <1>a DEF RecordRow, BusyInv
  <2>2. /\ ledger' = [ledger EXCEPT ![s] = @ \cup {st}]
        /\ UNCHANGED <<db, central, atClose, closer, syncer>>
    BY <1>3 DEF RecordRow
  <2> HIDE DEF s, st
  <2>3. UNCHANGED <<Closed, Delivered>>
    BY <2>2 DEF Closed, Delivered
  <2>4. DeliveryStep
    BY <2>1, <2>2, <2>3, DeliverySteps
  <2>5. \A x \in Sessions : ledger[x] \subseteq ledger'[x]
    BY <1>a, <2>2 DEF StoreOK
  <2> QED
    BY <1>a, <2>2, <2>4, <2>5, RowsKept
<1>4. ASSUME NEW c \in Closers, CloseTake(c) \/ CloseTeardown(c) PROVE Goal
  <2>1. UNCHANGED <<db, ledger, central, atClose, syncer>>
    BY <1>4 DEF CloseTake, CloseTeardown
  <2>2. \A d \in Closers : closer'[d] = closer[d] \/ closer'[d].pc # "upload"
    BY <1>4, <1>a DEF CloseTake, CloseTeardown, ProcsOK, CloserState
  <2> QED
    BY <1>c, <2>1, <2>2
<1>5. ASSUME NEW c \in Closers, CloseMark(c) PROVE Goal
  <2> DEFINE s == closer[c].session
  <2>1. s \in Sessions /\ db[s] # "none"
    BY <1>5, <1>a, <1>b DEF CloseMark, BusyInv, OpenedInv
  <2>2. /\ db' = [db EXCEPT ![s] = "CLOSED"]
        /\ atClose' = IF db[s] = "OPEN" THEN [atClose EXCEPT ![s] = ledger[s]] ELSE atClose
        /\ UNCHANGED <<ledger, central, syncer>>
    BY <1>5 DEF CloseMark
  <2>3. \A d \in Closers : closer'[d] = closer[d] \/ closer'[d].pc # "upload"
    BY <1>5, <1>a DEF CloseMark, ProcsOK, CloserState
  <2> HIDE DEF s
  <2>4. CASE db[s] = "OPEN"
    <3>1. db'[s] = "CLOSED" /\ \A x \in Sessions \ {s} : db'[x] = db[x]
      BY <1>a, <2>1, <2>2 DEF StoreOK
    <3>2. s \notin Closed /\ Closed' = Closed \cup {s} /\ Delivered' = Delivered
      BY <2>1, <2>4, <3>1 DEF Closed, Delivered
    <3>3. DeliveryStep
      BY <2>1, <2>2, <2>4, <3>2, DeliverySteps
    <3> QED
      BY <1>a, <2>2, <2>3, <3>3, RowsKept
  <2>5. CASE db[s] # "OPEN"
    <3>1. s \in Closed /\ Closed' = Closed /\ Delivered' = Delivered \ {s}
      BY <1>a, <2>1, <2>2, <2>5, StatusStep
    <3>2. central' = [central EXCEPT ![s] = @ \cup {}]
      BY <1>a, <2>1, <2>2 DEF StoreOK
    <3>3. DeliveryStep
      BY <2>1, <2>2, <2>5, <3>1, <3>2, DeliverySteps
    <3> QED
      BY <1>a, <2>2, <2>3, <3>3, RowsKept
  <2> QED
    BY <2>4, <2>5
<1>6. ASSUME NEW c \in Closers, CloseSnapshot(c) PROVE Goal
  <2>1. /\ closer'[c].session = closer[c].session
        /\ closer'[c].rows = ledger[closer[c].session]
        /\ \A d \in Closers \ {c} : closer'[d] = closer[d]
        /\ UNCHANGED <<db, ledger, central, atClose, syncer>>
    BY <1>6, <1>a DEF CloseSnapshot, ProcsOK, CloserState
  <2>2. RowsInv'
    BY <2>1 DEF RowsInv
  <2>3. DeliveryStep
    BY <2>1 DEF DeliveryStep, Closed, Delivered
  <2> QED
    BY <2>2, <2>3
<1>7. ASSUME NEW c \in Closers, NEW outcome, CloseUpload(c, outcome) PROVE Goal
  <2> DEFINE s == closer[c].session
             rows == closer[c].rows
             proof == closer[c].scan
  <2>1. s \in Sessions /\ db[s] \notin {"none", "OPEN"} /\ atClose[s] \subseteq rows
    BY <1>7, <1>a, <1>b DEF CloseUpload, BusyInv, PackageInv
  <2>2. rows \subseteq ledger[s]
    BY <1>7 DEF CloseUpload, RowsInv
  <2>3. Upload(s, rows, proof, outcome) /\ UNCHANGED <<ledger, atClose, syncer>>
    BY <1>7 DEF CloseUpload
  <2>4. \A d \in Closers : closer'[d] = closer[d] \/ closer'[d].pc # "upload"
    BY <1>7, <1>a DEF CloseUpload, ProcsOK, IdleCloser
  <2> HIDE DEF s, rows, proof
  <2>5. DeliveryStep
    BY <1>a, <2>1, <2>2, <2>3, UploadDelivers
  <2> QED
    BY <1>a, <2>3, <2>4, <2>5, RowsKept
<1>8. ASSUME NEW s \in Sessions, SyncRead(s) PROVE Goal
  <2>1. db[s] \notin {"none", "OPEN"} /\ UNCHANGED <<closer, ledger, central, atClose>>
    BY <1>8 DEF SyncRead
  <2>2. CASE ledger[s] = {} /\ db' = [db EXCEPT ![s] = "SYNCED"] /\ UNCHANGED syncer
    <3>1. s \in Closed /\ Closed' = Closed /\ Delivered' = Delivered \cup {s}
      BY <1>a, <2>1, <2>2, StatusStep
    <3>2. atClose[s] \subseteq central'[s]
      BY <1>b, <2>2 DEF PackageInv
    <3>3. central' = [central EXCEPT ![s] = @ \cup {}]
      BY <1>a, <2>1 DEF StoreOK
    <3>4. DeliveryStep
      BY <2>1, <3>1, <3>2, <3>3, DeliverySteps
    <3> QED
      BY <1>a, <2>1, <2>2, <3>4, RowsKept
  <2>3. CASE syncer' = [pc |-> "upload", session |-> s, rows |-> ledger[s]] /\ UNCHANGED db
    <3>1. RowsInv'
      BY <2>1, <2>3 DEF RowsInv
    <3>2. DeliveryStep
      BY <2>1, <2>3 DEF DeliveryStep, Closed, Delivered
    <3> QED
      BY <3>1, <3>2
  <2> QED
    BY <1>8, <2>2, <2>3 DEF SyncRead
<1>9. ASSUME NEW s \in Sessions, NEW outcome, SyncUpload(s, outcome) PROVE Goal
  <2> DEFINE rows == syncer.rows
  <2>1. /\ db[s] \notin {"none", "OPEN"} /\ atClose[s] \subseteq rows
        /\ rows \subseteq ledger[s]
    BY <1>9, <1>b DEF SyncUpload, PackageInv, RowsInv
  <2>2. Upload(s, rows, NoScan, outcome) /\ UNCHANGED <<ledger, atClose, closer>>
    BY <1>9 DEF SyncUpload
  <2>3. syncer'.pc # "upload"
    BY <1>9 DEF SyncUpload, IdleSync
  <2> HIDE DEF rows
  <2>4. DeliveryStep
    BY <1>a, <2>1, <2>2, UploadDelivers
  <2> QED
    BY <1>a, <2>2, <2>3, <2>4, RowsKept
<1>10. CASE Crash
  <2>1. /\ \A c \in Closers : closer'[c].pc # "upload"
        /\ syncer'.pc # "upload"
    BY <1>10 DEF Crash, FreshProcess, IdleCloser, IdleSync
  <2>2. UNCHANGED <<db, ledger, central, atClose>>
    BY <1>10 DEF Crash
  <2> QED
    BY <1>c, <2>1, <2>2
<1> HIDE DEF Goal
<1> QED
  BY <1>1, <1>2, <1>3, <1>4, <1>5, <1>6, <1>7, <1>8, <1>9, <1>10
     DEF Next, OpenStep, ThreadStep, CloseStep, SyncStep, ManualClose, AutoClose

\* The phone implements the delivery of its sessions, for any number of
\* students, sessions, request threads, closing coroutines and process deaths.
THEOREM HubImplementsDelivery == Spec => DeliveryPromise
<1>1. Init => DeliveryInv /\ RowsInv /\ Delivery!DeliveryInit
  <2> SUFFICES ASSUME Init PROVE DeliveryInv /\ RowsInv /\ Delivery!DeliveryInit
    OBVIOUS
  <2>1. FreshInv /\ OpenedInv /\ PackageInv /\ SyncedIsDelivered /\ RowsInv
    BY DEF Init, FreshInv, OpenedInv, PackageInv, SyncedIsDelivered, RowsInv, Idle,
           IdleCloser, IdleSync
  <2>2. Delivery!DeliveryInit
    BY DEF Init, Delivery!DeliveryInit
  <2> QED
    BY <2>1, <2>2, InitTInv DEF DeliveryInv
<1>2. DeliveryInv /\ RowsInv /\ [Next]_vars => (DeliveryInv /\ RowsInv)'
  BY NextDelivery, NextDeliverySteps
<1>3. DeliveryInv /\ RowsInv /\ [Next]_vars => [Delivery!DeliveryNext]_Delivery!deliveryVars
  BY NextDeliverySteps DEF DeliveryStep, Closed, Delivered, Delivery!deliveryVars
<1> QED
  BY <1>1, <1>2, <1>3, PTL DEF Spec, DeliveryPromise, Delivery!DeliverySpec


=============================================================================
