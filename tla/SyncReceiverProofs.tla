------------------------- MODULE SyncReceiverProofs -------------------------
(***************************************************************************)
(* Machine-checked proofs about SyncReceiver, for any number of attempts,  *)
(* concurrent handlers, chunks, rows and faults: what is acknowledged is   *)
(* centrally there, and nothing is written for an incomplete upload.       *)
(*                                                                         *)
(* A handler reads the upload's row once and writes much later, and a      *)
(* resent chunk or another attempt's handler runs in between.  What makes  *)
(* the late writes right is that everything the handler has read or        *)
(* written only grows: received_chunks, without repetition (DistinctInv),  *)
(* so that a count of TotalChunks means every chunk and goes on meaning it *)
(* (CountedInv); and the central rows, so that the rows behind the loop's  *)
(* index stay there (WrittenInv).                                          *)
(***************************************************************************)
EXTENDS SyncReceiver, FiniteSetTheorems, TLAPS

\* A handler at work serves an upload that exists, and a chunk exactly if it
\* is in Chunk; the loop over the records has not begun before "rows".
ServingInv(h) ==
    /\ handler[h].upload \in Uploads
    /\ client[handler[h].upload].pc # "new"
    /\ handler[h].request < TotalChunks <=> handler[h].pc \in Receiving
    /\ handler[h].pc \notin {"rows", "finish"} => handler[h].row = 1

\* A handler past the count check serves an upload whose count is reached.
CountedInv(h) ==
    handler[h].pc \in {"assemble"} \cup Writing =>
        Len(received[handler[h].upload]) >= TotalChunks

\* A handler that writes has verified the package.
SoundInv(h) == handler[h].pc \in Writing => package[handler[h].upload].sound

\* The rows behind the loop's index are in the central database, and so is
\* the lecturer's log.
WrittenInv(h) ==
    handler[h].pc \in {"rows", "finish"} =>
        /\ \A i \in Resolved : i < handler[h].row => i \in central
        /\ package[handler[h].upload].proof => lecturerLogs > 0
        /\ handler[h].row <= package[handler[h].upload].rows + 1
        /\ handler[h].pc = "finish" => handler[h].row = package[handler[h].upload].rows + 1

HandlerInv(h) ==
    handler[h].pc # "idle" => ServingInv(h) /\ CountedInv(h) /\ SoundInv(h) /\ WrittenInv(h)

\* An attempt that has not started has no SYNCED row.
NewInv == \A u \in Uploads : status[u] = "SYNCED" => client[u].pc # "new"

\* received_chunks has no repetition.
DistinctInv ==
    \A u \in Uploads : \A i, j \in 1 .. Len(received[u]) :
        received[u][i] = received[u][j] => i = j

IInv == /\ TypeOK
        /\ \A h \in Handlers : HandlerInv(h)
        /\ NewInv
        /\ DistinctInv
        /\ AckedIsCentral

-----------------------------------------------------------------------------
\* A repetition-free sequence of chunk indexes that is as long as there are
\* chunks has every chunk.
LEMMA CountMeansAll ==
    ASSUME NEW s \in Seq(Chunk), Len(s) >= TotalChunks,
           \A i, j \in 1 .. Len(s) : s[i] = s[j] => i = j
    PROVE  Elements(s) = Chunk
<1>1. Len(s) \in Nat /\ s \in [1 .. Len(s) -> Chunk]
  OBVIOUS
<1>2. s \in Injection(1 .. Len(s), Chunk)
  BY <1>1 DEF Injection, IsInjective
<1>3. IsFiniteSet(Chunk) /\ Cardinality(Chunk) = TotalChunks
  BY FS_Interval, ReceiverAssumption DEF Chunk
<1>4. Cardinality(1 .. Len(s)) = Len(s)
  <2>1. ASSUME NEW n \in Nat PROVE Cardinality(1 .. n) = n
    <3>1. Cardinality(1 .. n) = IF 1 > n THEN 0 ELSE n - 1 + 1
      BY FS_Interval
    <3> QED
      BY <3>1
  <2> QED
    BY <1>1, <2>1
<1>5. /\ Cardinality(1 .. Len(s)) <= Cardinality(Chunk)
      /\ Cardinality(1 .. Len(s)) = Cardinality(Chunk) <=> s \in Surjection(1 .. Len(s), Chunk)
  BY <1>2, <1>3, FS_Injection
<1>6. s \in Surjection(1 .. Len(s), Chunk)
  <2>1. Len(s) <= TotalChunks
    BY <1>3, <1>4, <1>5
  <2>2. ASSUME NEW m \in Nat, NEW n \in Nat, m <= n, m >= n PROVE m = n
    BY <2>2
  <2>3. Len(s) = TotalChunks
    <3>1. TotalChunks \in Nat /\ Len(s) \in Nat
      BY <1>1, ReceiverAssumption
    <3> QED
      BY <2>1, <2>2, <3>1
  <2> QED
    BY <1>3, <1>4, <1>5, <2>3
<1> QED
  BY <1>1, <1>6 DEF Surjection, Elements

\* Recording a chunk keeps what is recorded, without repetition.
LEMMA MarkedKeeps ==
    ASSUME NEW s \in Seq(Chunk), NEW i \in Chunk,
           \A j, k \in 1 .. Len(s) : s[j] = s[k] => j = k
    PROVE  /\ Marked(s, i) \in Seq(Chunk)
           /\ Len(Marked(s, i)) >= Len(s)
           /\ \A j, k \in 1 .. Len(Marked(s, i)) : Marked(s, i)[j] = Marked(s, i)[k] => j = k
<1>1. CASE i \in Elements(s)
  BY <1>1 DEF Marked
<1>2. CASE i \notin Elements(s)
  <2>1. Marked(s, i) = Append(s, i)
    BY <1>2 DEF Marked
  <2>2. \A j \in 1 .. Len(s) : s[j] # i
    BY <1>2 DEF Elements
  <2>3. /\ Append(s, i) \in Seq(Chunk)
        /\ Len(Append(s, i)) = Len(s) + 1
        /\ \A j \in 1 .. Len(s) : Append(s, i)[j] = s[j]
        /\ Append(s, i)[Len(s) + 1] = i
    OBVIOUS
  <2>4. ASSUME NEW j \in 1 .. Len(s) + 1, NEW k \in 1 .. Len(s) + 1,
               Append(s, i)[j] = Append(s, i)[k]
        PROVE  j = k
    BY <2>2, <2>3, <2>4
  <2> QED
    BY <2>1, <2>3, <2>4
<1> QED
  BY <1>1, <1>2

\* The inductive invariant implies that completeness is never faked.
LEMMA IInvComplete == IInv => CompletenessIsReal
<1> SUFFICES ASSUME IInv, NEW h \in Handlers, handler[h].pc \in Writing
             PROVE  /\ Elements(received[handler[h].upload]) = Chunk
                    /\ package[handler[h].upload].sound
  BY DEF CompletenessIsReal
<1>1. /\ handler[h].upload \in Uploads
      /\ Len(received[handler[h].upload]) >= TotalChunks
      /\ package[handler[h].upload].sound
  BY DEF IInv, HandlerInv, ServingInv, CountedInv, SoundInv, Writing
<1>2. received[handler[h].upload] \in Seq(Chunk)
  BY <1>1 DEF IInv, TypeOK
<1>3. \A i, j \in 1 .. Len(received[handler[h].upload]) :
          received[handler[h].upload][i] = received[handler[h].upload][j] => i = j
  BY <1>1 DEF IInv, DistinctInv
<1> QED
  BY <1>1, <1>2, <1>3, CountMeansAll

\* The initial state satisfies the inductive invariant.
LEMMA InitIInv == Init => IInv
<1> SUFFICES ASSUME Init PROVE IInv
  OBVIOUS
<1> USE ReceiverAssumption DEF Init, IdleHandler, NewClient, NoPackage
<1>1. TypeOK
  <2>1. 0 \in Request /\ 0 \in 0 .. MaxRows /\ 1 \in 1 .. MaxRows + 1 /\ 0 \in 0 .. MaxFaults
    BY DEF Request
  <2>2. NewClient \in Client /\ NoPackage \in Package /\ IdleHandler \in Handler
    BY <2>1 DEF Client, Package, Handler
  <2>3. <<>> \in Seq(Chunk)
    OBVIOUS
  <2> QED
    BY <2>1, <2>2, <2>3 DEF TypeOK
<1>2. \A h \in Handlers : HandlerInv(h)
  BY DEF HandlerInv
<1>3. NewInv /\ DistinctInv /\ AckedIsCentral
  BY DEF NewInv, DistinctInv, AckedIsCentral
<1> QED
  BY <1>1, <1>2, <1>3 DEF IInv

\* What every step does to the state that handlers rely on: an upload that
\* has started keeps its package, and what was recorded or written stays.
Grows ==
    /\ \A u \in Uploads : client[u].pc # "new" =>
          /\ client'[u].pc # "new"
          /\ package'[u] = package[u]
    /\ \A u \in Uploads : Len(received'[u]) >= Len(received[u])
    /\ central \subseteq central'
    /\ lecturerLogs' >= lecturerLogs

\* A handler that does not take the step relies on nothing that it disturbs.
LEMMA OthersKept ==
    ASSUME IInv, TypeOK', Grows, NEW h \in Handlers, handler'[h] = handler[h]
    PROVE  HandlerInv(h)'
<1> SUFFICES ASSUME handler[h].pc # "idle"
             PROVE  (ServingInv(h) /\ CountedInv(h) /\ SoundInv(h) /\ WrittenInv(h))'
  BY DEF HandlerInv
<1> DEFINE u == handler[h].upload
<1>1. ServingInv(h) /\ CountedInv(h) /\ SoundInv(h) /\ WrittenInv(h)
  BY DEF IInv, HandlerInv
<1>2. /\ u \in Uploads
      /\ client[u].pc # "new"
      /\ client'[u].pc # "new"
      /\ package'[u] = package[u]
      /\ Len(received'[u]) >= Len(received[u])
  BY <1>1 DEF ServingInv, Grows
<1>3. ServingInv(h)'
  BY <1>1, <1>2 DEF ServingInv
<1>4. CountedInv(h)'
  <2>1. Len(received[u]) \in Nat /\ Len(received'[u]) \in Nat /\ TotalChunks \in Nat
    BY <1>2, ReceiverAssumption DEF IInv, TypeOK
  <2> QED
    BY <1>1, <1>2, <2>1 DEF CountedInv
<1>5. SoundInv(h)'
  BY <1>1, <1>2 DEF SoundInv
<1>6. WrittenInv(h)'
  <2>1. central \subseteq central' /\ (lecturerLogs > 0 => lecturerLogs' > 0)
    BY DEF Grows, IInv, TypeOK
  <2> QED
    BY <1>1, <1>2, <2>1 DEF WrittenInv
<1> QED
  BY <1>3, <1>4, <1>5, <1>6

\* What is acknowledged or SYNCED stays centrally there.
LEMMA AckedKept ==
    ASSUME IInv, TypeOK', Grows, NEW u \in Uploads,
           client[u].pc = "acked" \/ status[u] = "SYNCED"
    PROVE  /\ (1 .. package'[u].rows) \cap Resolved \subseteq central'
           /\ package'[u].proof => lecturerLogs' > 0
<1>1. package'[u] = package[u]
  BY DEF IInv, NewInv, Grows
<1> QED
  BY <1>1 DEF IInv, AckedIsCentral, Grows, TypeOK

\* What an answer does: the handler is idle again, and the client of an
\* attempt is acknowledged only by a good answer to complete.
LEMMA ReplyEffect ==
    ASSUME IInv, NEW h \in Handlers, handler[h].pc # "idle", NEW ok \in BOOLEAN,
           Reply(h, ok)
    PROVE  /\ handler' = [handler EXCEPT ![h] = IdleHandler]
           /\ package' = package
           /\ client' \in [Uploads -> Client]
           /\ faults' \in 0 .. MaxFaults
           /\ \A u \in Uploads : client[u].pc # "new" => client'[u].pc # "new"
           /\ \A u \in Uploads : client'[u].pc = "acked" =>
                 \/ client[u].pc = "acked"
                 \/ ok /\ u = handler[h].upload /\ ~(handler[h].request < TotalChunks)
<1> DEFINE u == handler[h].upload
<1>1. u \in Uploads /\ client[u] \in Client /\ faults \in 0 .. MaxFaults
  BY DEF IInv, TypeOK, HandlerInv, ServingInv
<1>2. faults' \in 0 .. MaxFaults
  BY <1>1, ReceiverAssumption DEF Reply, Fault
<1>3. CASE Serves(h, u) /\ client' = [client EXCEPT ![u] = Answered(client[u], ok)]
  <2>1. client[u].pc = "sending" /\ client[u].next = handler[h].request
    BY <1>3 DEF Serves
  <2>2. /\ Answered(client[u], ok) \in Client
        /\ Answered(client[u], ok).pc # "new"
        /\ Answered(client[u], ok).pc = "acked" => ok /\ ~(client[u].next < TotalChunks)
    <3>1. CASE ~ok
      BY <1>1, <2>1, <3>1 DEF Answered, Client
    <3>2. CASE ok /\ client[u].next < TotalChunks
      <4>1. client[u].next + 1 \in Request
        BY <1>1, <3>2, ReceiverAssumption DEF Client, Request
      <4> QED
        BY <1>1, <2>1, <3>2, <4>1 DEF Answered, Client
    <3>3. CASE ok /\ ~(client[u].next < TotalChunks)
      BY <1>1, <2>1, <3>3 DEF Answered, Client
    <3> QED
      BY <3>1, <3>2, <3>3
  <2>3. client' \in [Uploads -> Client]
    BY <1>1, <1>3, <2>2 DEF IInv, TypeOK
  <2>4. \A v \in Uploads : client'[v] = IF v = u THEN Answered(client[u], ok) ELSE client[v]
    BY <1>3 DEF IInv, TypeOK
  <2> QED
    BY <1>2, <2>1, <2>2, <2>3, <2>4 DEF Reply
<1>4. CASE client' = client
  BY <1>2, <1>4 DEF Reply, IInv, TypeOK
<1> QED
  BY <1>3, <1>4 DEF Reply

\* The frame of a step whose handler answers: what is left to show concerns
\* the upload it served.
LEMMA ReplyKeeps ==
    ASSUME IInv, TypeOK', Grows, NEW h \in Handlers,
           handler' = [handler EXCEPT ![h] = IdleHandler]
    PROVE  \A k \in Handlers : HandlerInv(k)'
<1> SUFFICES ASSUME NEW k \in Handlers PROVE HandlerInv(k)'
  OBVIOUS
<1>1. CASE k = h
  <2>1. handler'[k] = IdleHandler
    BY <1>1 DEF IInv, TypeOK
  <2> QED
    BY <2>1 DEF HandlerInv, IdleHandler
<1>2. CASE k # h
  <2>1. handler'[k] = handler[k]
    BY <1>2 DEF IInv, TypeOK
  <2> QED
    BY <2>1, OthersKept
<1> QED
  BY <1>1, <1>2

\* The frame of a step that acknowledges nothing and records no chunk.
LEMMA UploadsKept ==
    ASSUME IInv, TypeOK', Grows, received' = received,
           \A u \in Uploads : /\ client'[u].pc = "acked" => client[u].pc = "acked"
                              /\ status'[u] = "SYNCED" => status[u] = "SYNCED"
    PROVE  NewInv' /\ DistinctInv' /\ AckedIsCentral'
<1>1. NewInv' /\ DistinctInv'
  BY DEF IInv, NewInv, DistinctInv, Grows
<1>2. AckedIsCentral'
  BY AckedKept DEF AckedIsCentral
<1> QED
  BY <1>1, <1>2

\* The frame of a handler's step that changes nothing but its own state and
\* the central tables.
LEMMA AdvanceKeeps ==
    ASSUME IInv, TypeOK', NEW h \in Handlers,
           \A k \in Handlers \ {h} : handler'[k] = handler[k],
           HandlerInv(h)',
           UNCHANGED <<phone, status, received>>,
           central \subseteq central', lecturerLogs' >= lecturerLogs
    PROVE  IInv'
<1>1. Grows
  <2>1. \A u \in Uploads : Len(received[u]) \in Nat
    BY DEF IInv, TypeOK
  <2> QED
    BY <2>1 DEF Grows, phone
<1>2. \A k \in Handlers : HandlerInv(k)'
  BY <1>1, OthersKept
<1>3. NewInv' /\ DistinctInv' /\ AckedIsCentral'
  BY <1>1, UploadsKept DEF phone
<1> QED
  BY <1>2, <1>3 DEF IInv

\* A handler that goes on to its next statement changes its pc only.
LEMMA StepTo ==
    ASSUME IInv, NEW h \in Handlers, handler[h].pc # "idle",
           NEW x \in Receiving \cup Checking \cup Writing,
           handler' = [handler EXCEPT ![h].pc = x]
    PROVE  /\ handler' \in [Handlers -> Handler]
           /\ \A k \in Handlers \ {h} : handler'[k] = handler[k]
           /\ handler'[h].pc = x
           /\ handler'[h].upload = handler[h].upload
           /\ handler'[h].request = handler[h].request
           /\ handler'[h].row = handler[h].row
           /\ handler[h].upload \in Uploads
           /\ ServingInv(h) /\ CountedInv(h) /\ SoundInv(h) /\ WrittenInv(h)
<1>1. handler \in [Handlers -> Handler]
  BY DEF IInv, TypeOK
<1>2. ServingInv(h) /\ CountedInv(h) /\ SoundInv(h) /\ WrittenInv(h)
  BY DEF IInv, HandlerInv
<1>3. handler'[h] = [handler[h] EXCEPT !.pc = x]
  BY <1>1
<1>4. /\ handler'[h] \in Handler
      /\ handler'[h].pc = x
      /\ handler'[h].upload = handler[h].upload
      /\ handler'[h].request = handler[h].request
      /\ handler'[h].row = handler[h].row
  BY <1>1, <1>3 DEF Handler
<1>5. \A k \in Handlers \ {h} : handler'[k] = handler[k]
  BY <1>1
<1>6. handler' \in [Handlers -> Handler]
  BY <1>1, <1>4
<1> QED
  BY <1>2, <1>4, <1>5, <1>6 DEF ServingInv

\* The steps of Chunk and Complete that go on to the next statement preserve
\* the inductive invariant.
LEMMA AdvanceIInv ==
    ASSUME IInv, NEW h \in Handlers,
           \/ ChunkStore(h)
           \/ CompleteCount(h) /\ handler'[h].pc = "assemble"
           \/ CompleteAssemble(h) /\ handler'[h].pc = "session"
           \/ WriteSession(h) \/ SeedCheck(h) \/ SeedLecturer(h) \/ WriteRow(h)
    PROVE  IInv'
<1> DEFINE u == handler[h].upload
           p == package[u]
<1> USE DEF phone, uploads, tables
<1>0. lecturerLogs \in Nat /\ faults \in 0 .. MaxFaults /\ central \subseteq 1 .. MaxRows
  BY DEF IInv, TypeOK
<1>1. CASE ChunkStore(h)
  <2>1. /\ handler' = [handler EXCEPT ![h].pc = "mark"] /\ handler[h].pc = "store"
        /\ UNCHANGED <<phone, status, received, tables>>
    BY <1>1 DEF ChunkStore
  <2>2. /\ handler' \in [Handlers -> Handler]
        /\ \A k \in Handlers \ {h} : handler'[k] = handler[k]
        /\ handler'[h].pc = "mark" /\ handler'[h].upload = u
        /\ handler'[h].request = handler[h].request /\ handler'[h].row = handler[h].row
        /\ u \in Uploads /\ ServingInv(h)
    BY <2>1, StepTo DEF Receiving
  <2>3. handler[h].request \in Chunk
    <3>1. handler[h].request \in 0 .. TotalChunks
      BY DEF IInv, TypeOK, Handler, Request
    <3>2. handler[h].request < TotalChunks
      BY <2>1, <2>2 DEF ServingInv, Receiving
    <3> QED
      BY <3>1, <3>2, ReceiverAssumption DEF Chunk
  <2>4. redis' \in [Uploads -> SUBSET Chunk]
    <3>1. redis \in [Uploads -> SUBSET Chunk]
      BY DEF IInv, TypeOK
    <3>2. CASE redis' = [redis EXCEPT ![u] = @ \cup {handler[h].request}]
      BY <2>2, <2>3, <3>1, <3>2
    <3>3. CASE redis' = redis
      BY <3>1, <3>3
    <3> QED
      BY <1>1, <3>2, <3>3 DEF ChunkStore
  <2>5. faults' \in 0 .. MaxFaults
    BY <1>0, <1>1, ReceiverAssumption DEF ChunkStore, Fault
  <2>6. TypeOK'
    BY <2>1, <2>2, <2>4, <2>5 DEF IInv, TypeOK
  <2>7. HandlerInv(h)'
    BY <2>1, <2>2 DEF HandlerInv, ServingInv, CountedInv, SoundInv, WrittenInv, Receiving, Writing
  <2> QED
    BY <1>0, <2>1, <2>2, <2>6, <2>7, AdvanceKeeps
<1>2. CASE CompleteCount(h) /\ handler'[h].pc = "assemble"
  <2>0. handler' # [handler EXCEPT ![h] = IdleHandler]
    BY <1>2 DEF IdleHandler, IInv, TypeOK
  <2>1. /\ handler' = [handler EXCEPT ![h].pc = "assemble"] /\ handler[h].pc = "count"
        /\ Len(received[u]) >= TotalChunks
        /\ UNCHANGED <<phone, faults, uploads, tables>>
    BY <1>2, <2>0 DEF CompleteCount, Reply
  <2>2. /\ handler' \in [Handlers -> Handler]
        /\ \A k \in Handlers \ {h} : handler'[k] = handler[k]
        /\ handler'[h].pc = "assemble" /\ handler'[h].upload = u
        /\ handler'[h].request = handler[h].request /\ handler'[h].row = handler[h].row
        /\ u \in Uploads /\ ServingInv(h)
    BY <2>1, StepTo DEF Checking
  <2>3. TypeOK'
    BY <2>1, <2>2 DEF IInv, TypeOK
  <2>4. HandlerInv(h)'
    BY <2>1, <2>2 DEF HandlerInv, ServingInv, CountedInv, SoundInv, WrittenInv, Receiving, Writing
  <2> QED
    BY <1>0, <2>1, <2>2, <2>3, <2>4, AdvanceKeeps
<1>3. CASE CompleteAssemble(h) /\ handler'[h].pc = "session"
  <2>0. handler' # [handler EXCEPT ![h] = IdleHandler]
    BY <1>3 DEF IdleHandler, IInv, TypeOK
  <2>1. /\ handler' = [handler EXCEPT ![h].pc = "session"] /\ handler[h].pc = "assemble"
        /\ p.sound
        /\ UNCHANGED <<phone, faults, uploads, tables>>
    BY <1>3, <2>0 DEF CompleteAssemble, Reply
  <2>2. /\ handler' \in [Handlers -> Handler]
        /\ \A k \in Handlers \ {h} : handler'[k] = handler[k]
        /\ handler'[h].pc = "session" /\ handler'[h].upload = u
        /\ handler'[h].request = handler[h].request /\ handler'[h].row = handler[h].row
        /\ u \in Uploads /\ ServingInv(h) /\ CountedInv(h)
    BY <2>1, StepTo DEF Writing
  <2>3. TypeOK'
    BY <2>1, <2>2 DEF IInv, TypeOK
  <2>4. HandlerInv(h)'
    BY <2>1, <2>2 DEF HandlerInv, ServingInv, CountedInv, SoundInv, WrittenInv, Receiving, Writing
  <2> QED
    BY <1>0, <2>1, <2>2, <2>3, <2>4, AdvanceKeeps
<1>r. u \in Uploads => p.rows \in 0 .. MaxRows
  BY DEF IInv, TypeOK, Package
<1>4. CASE WriteSession(h)
  <2>1. PICK x \in {"seed?", "rows"} :
           /\ handler' = [handler EXCEPT ![h].pc = x] /\ handler[h].pc = "session"
           /\ x = "rows" => ~p.proof
           /\ sessionRow' = TRUE
           /\ UNCHANGED <<phone, uploads, lecturerLogs, central, faults>>
    BY <1>4 DEF WriteSession
  <2>2. /\ handler' \in [Handlers -> Handler]
        /\ \A k \in Handlers \ {h} : handler'[k] = handler[k]
        /\ handler'[h].pc = x /\ handler'[h].upload = u
        /\ handler'[h].request = handler[h].request /\ handler'[h].row = handler[h].row
        /\ u \in Uploads /\ ServingInv(h) /\ CountedInv(h) /\ SoundInv(h)
    BY <2>1, StepTo DEF Writing
  <2>3. TypeOK'
    BY <2>1, <2>2 DEF IInv, TypeOK
  <2>4. (ServingInv(h) /\ CountedInv(h) /\ SoundInv(h))'
    BY <2>1, <2>2 DEF ServingInv, CountedInv, SoundInv, Receiving, Writing
  <2>5. WrittenInv(h)'
    BY <1>r, <2>1, <2>2, ReceiverAssumption DEF WrittenInv, ServingInv
  <2> QED
    BY <1>0, <2>1, <2>2, <2>3, <2>4, <2>5, AdvanceKeeps DEF HandlerInv
<1>5. CASE SeedCheck(h)
  <2>1. PICK x \in {"seed", "rows"} :
           /\ handler' = [handler EXCEPT ![h].pc = x] /\ handler[h].pc = "seed?"
           /\ x = "rows" => lecturerLogs # 0
           /\ UNCHANGED <<phone, uploads, tables, faults>>
    BY <1>5 DEF SeedCheck
  <2>2. /\ handler' \in [Handlers -> Handler]
        /\ \A k \in Handlers \ {h} : handler'[k] = handler[k]
        /\ handler'[h].pc = x /\ handler'[h].upload = u
        /\ handler'[h].request = handler[h].request /\ handler'[h].row = handler[h].row
        /\ u \in Uploads /\ ServingInv(h) /\ CountedInv(h) /\ SoundInv(h)
    BY <2>1, StepTo DEF Writing
  <2>3. TypeOK'
    BY <2>1, <2>2 DEF IInv, TypeOK
  <2>4. (ServingInv(h) /\ CountedInv(h) /\ SoundInv(h))'
    BY <2>1, <2>2 DEF ServingInv, CountedInv, SoundInv, Receiving, Writing
  <2>5. WrittenInv(h)'
    BY <1>0, <1>r, <2>1, <2>2, ReceiverAssumption DEF WrittenInv, ServingInv
  <2> QED
    BY <1>0, <2>1, <2>2, <2>3, <2>4, <2>5, AdvanceKeeps DEF HandlerInv
<1>6. CASE SeedLecturer(h)
  <2>1. /\ handler' = [handler EXCEPT ![h].pc = "rows"] /\ handler[h].pc = "seed"
        /\ lecturerLogs' = lecturerLogs + 1
        /\ UNCHANGED <<phone, uploads, sessionRow, central, faults>>
    BY <1>6 DEF SeedLecturer
  <2>2. /\ handler' \in [Handlers -> Handler]
        /\ \A k \in Handlers \ {h} : handler'[k] = handler[k]
        /\ handler'[h].pc = "rows" /\ handler'[h].upload = u
        /\ handler'[h].request = handler[h].request /\ handler'[h].row = handler[h].row
        /\ u \in Uploads /\ ServingInv(h) /\ CountedInv(h) /\ SoundInv(h)
    BY <2>1, StepTo DEF Writing
  <2>3. TypeOK'
    BY <1>0, <2>1, <2>2 DEF IInv, TypeOK
  <2>4. (ServingInv(h) /\ CountedInv(h) /\ SoundInv(h))'
    BY <2>1, <2>2 DEF ServingInv, CountedInv, SoundInv, Receiving, Writing
  <2>5. WrittenInv(h)'
    BY <1>0, <1>r, <2>1, <2>2, ReceiverAssumption DEF WrittenInv, ServingInv
  <2>6. lecturerLogs' >= lecturerLogs
    BY <1>0, <2>1
  <2> QED
    BY <1>0, <2>1, <2>2, <2>3, <2>4, <2>5, <2>6, AdvanceKeeps DEF HandlerInv
<1>7. CASE WriteRow(h)
  <2> DEFINE i == handler[h].row
  <2>1. /\ handler[h].pc = "rows"
        /\ UNCHANGED <<phone, uploads, sessionRow, lecturerLogs, faults>>
    BY <1>7 DEF WriteRow
  <2>2. /\ handler \in [Handlers -> Handler] /\ handler[h] \in Handler /\ i \in 1 .. MaxRows + 1
        /\ u \in Uploads /\ ServingInv(h) /\ CountedInv(h) /\ SoundInv(h) /\ WrittenInv(h)
    BY <2>1 DEF IInv, TypeOK, HandlerInv, ServingInv, Handler
  <2>3. CASE /\ i <= p.rows
             /\ central' = central \cup ({i} \cap Resolved)
             /\ handler' = [handler EXCEPT ![h].row = i + 1]
    <3>1. i + 1 \in 1 .. MaxRows + 1 /\ i \in 1 .. MaxRows
      BY <1>r, <2>2, <2>3, ReceiverAssumption
    <3>2. handler'[h] = [handler[h] EXCEPT !.row = i + 1]
      BY <2>2, <2>3
    <3>3. /\ handler'[h] \in Handler
          /\ handler'[h].pc = "rows" /\ handler'[h].upload = u
          /\ handler'[h].request = handler[h].request /\ handler'[h].row = i + 1
      BY <2>1, <2>2, <3>1, <3>2 DEF Handler
    <3>4. /\ handler' \in [Handlers -> Handler]
          /\ \A k \in Handlers \ {h} : handler'[k] = handler[k]
      BY <2>2, <2>3, <3>3
    <3>5. TypeOK'
      BY <1>0, <2>1, <2>3, <3>1, <3>4 DEF IInv, TypeOK
    <3>6. (ServingInv(h) /\ CountedInv(h) /\ SoundInv(h))'
      BY <2>1, <2>2, <3>3 DEF ServingInv, CountedInv, SoundInv, Receiving, Writing
    <3>7. WrittenInv(h)'
      <4>1. ASSUME NEW j \in Resolved, j < i + 1 PROVE j \in central'
        <5>1. j \in Int /\ i \in Int
          BY <2>2, ReceiverAssumption
        <5>2. CASE j = i
          BY <2>3, <5>2
        <5>3. CASE j < i
          BY <2>1, <2>2, <2>3, <5>3 DEF WrittenInv
        <5> QED
          BY <4>1, <5>1, <5>2, <5>3
      <4>2. i + 1 <= p.rows + 1
        BY <1>r, <2>2, <2>3
      <4> QED
        BY <2>1, <2>2, <3>3, <4>1, <4>2 DEF WrittenInv
    <3> QED
      BY <1>0, <2>1, <2>3, <3>4, <3>5, <3>6, <3>7, AdvanceKeeps DEF HandlerInv
  <2>4. CASE /\ i > p.rows
             /\ handler' = [handler EXCEPT ![h].pc = "finish"]
             /\ UNCHANGED central
    <3>1. /\ handler' \in [Handlers -> Handler]
          /\ \A k \in Handlers \ {h} : handler'[k] = handler[k]
          /\ handler'[h].pc = "finish" /\ handler'[h].upload = u
          /\ handler'[h].request = handler[h].request /\ handler'[h].row = i
      BY <2>1, <2>4, StepTo DEF Writing
    <3>2. TypeOK'
      BY <2>1, <2>4, <3>1 DEF IInv, TypeOK
    <3>3. (ServingInv(h) /\ CountedInv(h) /\ SoundInv(h))'
      BY <2>1, <2>2, <3>1 DEF ServingInv, CountedInv, SoundInv, Receiving, Writing
    <3>4. i = p.rows + 1
      BY <1>r, <2>1, <2>2, <2>4 DEF WrittenInv
    <3>5. WrittenInv(h)'
      BY <1>r, <2>1, <2>2, <2>4, <3>1, <3>4 DEF WrittenInv
    <3> QED
      BY <1>0, <2>1, <2>4, <3>1, <3>2, <3>3, <3>5, AdvanceKeeps DEF HandlerInv
  <2> QED
    BY <1>7, <2>3, <2>4 DEF WriteRow
<1> QED
  BY <1>1, <1>2, <1>3, <1>4, <1>5, <1>6, <1>7

\* The steps at which a handler answers preserve the inductive invariant.
LEMMA ReplyIInv ==
    ASSUME IInv, NEW h \in Handlers,
           \/ ChunkMark(h)
           \/ CompleteCount(h) /\ Reply(h, FALSE)
           \/ CompleteAssemble(h) /\ Reply(h, FALSE)
           \/ Finish(h)
           \/ Fail(h)
    PROVE  IInv'
<1> DEFINE u == handler[h].upload
<1> USE DEF phone, uploads, tables
<1>0. /\ lecturerLogs \in Nat /\ central \subseteq 1 .. MaxRows
      /\ handler \in [Handlers -> Handler] /\ IdleHandler \in Handler
      /\ received \in [Uploads -> Seq(Chunk)]
      /\ \A v \in Uploads : Len(received[v]) \in Nat
      /\ status \in [Uploads -> {"none", "PENDING", "UPLOADING", "SYNCED"}]
  <2>1. 0 \in Request /\ 1 \in 1 .. MaxRows + 1
    BY ReceiverAssumption DEF Request
  <2> QED
    BY <2>1 DEF IInv, TypeOK, IdleHandler, Handler
<1>1. CASE ChunkMark(h)
  <2>1. /\ handler[h].pc = "mark" /\ Reply(h, TRUE)
        /\ received' = [received EXCEPT ![u] = Marked(@, handler[h].request)]
        /\ status' = [status EXCEPT ![u] = "UPLOADING"]
        /\ UNCHANGED <<redis, tables>>
    BY <1>1 DEF ChunkMark
  <2>2. /\ u \in Uploads /\ handler[h].request < TotalChunks
    BY <2>1 DEF IInv, HandlerInv, ServingInv, Receiving
  <2>3. handler[h].request \in Chunk
    <3>1. handler[h].request \in 0 .. TotalChunks
      BY <1>0 DEF Handler, Request
    <3> QED
      BY <2>2, <3>1, ReceiverAssumption DEF Chunk
  <2>4. /\ handler' = [handler EXCEPT ![h] = IdleHandler]
        /\ package' = package /\ client' \in [Uploads -> Client] /\ faults' \in 0 .. MaxFaults
        /\ \A v \in Uploads : client[v].pc # "new" => client'[v].pc # "new"
        /\ \A v \in Uploads : client'[v].pc = "acked" => client[v].pc = "acked"
    BY <2>1, <2>2, ReplyEffect
  <2>5. LET m == Marked(received[u], handler[h].request)
        IN  /\ m \in Seq(Chunk)
            /\ Len(m) >= Len(received[u])
            /\ \A j, k \in 1 .. Len(m) : m[j] = m[k] => j = k
    <3>1. received[u] \in Seq(Chunk)
      BY <1>0, <2>2
    <3>2. \A j, k \in 1 .. Len(received[u]) : received[u][j] = received[u][k] => j = k
      BY <2>2 DEF IInv, DistinctInv
    <3> QED
      BY <2>3, <3>1, <3>2, MarkedKeeps
  <2>6. \A v \in Uploads : received'[v] = IF v = u THEN Marked(received[u], handler[h].request)
                                                  ELSE received[v]
    BY <1>0, <2>1
  <2>7. received' \in [Uploads -> Seq(Chunk)] /\ handler' \in [Handlers -> Handler]
    BY <1>0, <2>1, <2>4, <2>5
  <2>8. /\ status' \in [Uploads -> {"none", "PENDING", "UPLOADING", "SYNCED"}]
        /\ \A v \in Uploads : status'[v] = "SYNCED" => status[v] = "SYNCED"
    BY <1>0, <2>1
  <2>9. TypeOK'
    BY <2>1, <2>4, <2>7, <2>8 DEF IInv, TypeOK
  <2>10. Grows
    BY <1>0, <2>1, <2>4, <2>5, <2>6 DEF Grows
  <2>11. NewInv' /\ AckedIsCentral'
    <3>1. NewInv'
      BY <2>4, <2>8 DEF IInv, NewInv
    <3>2. AckedIsCentral'
      BY <2>4, <2>8, <2>9, <2>10, AckedKept DEF AckedIsCentral
    <3> QED
      BY <3>1, <3>2
  <2>12. DistinctInv'
    BY <2>5, <2>6 DEF IInv, DistinctInv
  <2> QED
    BY <2>4, <2>9, <2>10, <2>11, <2>12, ReplyKeeps DEF IInv
<1>2. CASE (CompleteCount(h) \/ CompleteAssemble(h)) /\ Reply(h, FALSE)
  <2>1. handler[h].pc # "idle" /\ UNCHANGED <<uploads, tables>>
    BY <1>2 DEF CompleteCount, CompleteAssemble
  <2>2. /\ handler' = [handler EXCEPT ![h] = IdleHandler]
        /\ package' = package /\ client' \in [Uploads -> Client] /\ faults' \in 0 .. MaxFaults
        /\ \A v \in Uploads : client[v].pc # "new" => client'[v].pc # "new"
        /\ \A v \in Uploads : client'[v].pc = "acked" => client[v].pc = "acked"
    BY <1>2, <2>1, ReplyEffect
  <2>3. TypeOK'
    BY <1>0, <2>1, <2>2 DEF IInv, TypeOK
  <2>4. Grows
    BY <1>0, <2>1, <2>2 DEF Grows
  <2> QED
    BY <2>1, <2>2, <2>3, <2>4, ReplyKeeps, UploadsKept DEF IInv
<1>3. CASE Finish(h)
  <2>1. /\ handler[h].pc = "finish" /\ Reply(h, TRUE)
        /\ status' = [status EXCEPT ![u] = "SYNCED"] \/ status' = status
        /\ UNCHANGED <<received, redis, tables>>
    BY <1>3 DEF Finish
  <2>2. /\ u \in Uploads /\ client[u].pc # "new"
        /\ \A i \in Resolved : i < handler[h].row => i \in central
        /\ package[u].proof => lecturerLogs > 0
        /\ handler[h].row = package[u].rows + 1
    BY <2>1 DEF IInv, HandlerInv, ServingInv, WrittenInv
  <2>3. /\ handler' = [handler EXCEPT ![h] = IdleHandler]
        /\ package' = package /\ client' \in [Uploads -> Client] /\ faults' \in 0 .. MaxFaults
        /\ \A v \in Uploads : client[v].pc # "new" => client'[v].pc # "new"
        /\ \A v \in Uploads : client'[v].pc = "acked" => client[v].pc = "acked" \/ v = u
    BY <2>1, ReplyEffect
  <2>4. /\ status' \in [Uploads -> {"none", "PENDING", "UPLOADING", "SYNCED"}]
        /\ \A v \in Uploads : status'[v] = "SYNCED" => status[v] = "SYNCED" \/ v = u
    BY <1>0, <2>1
  <2>5. TypeOK'
    BY <1>0, <2>1, <2>3, <2>4 DEF IInv, TypeOK
  <2>6. Grows
    BY <1>0, <2>1, <2>3 DEF Grows
  <2>7. (1 .. package[u].rows) \cap Resolved \subseteq central
    <3>1. package[u].rows \in 0 .. MaxRows
      BY <2>2 DEF IInv, TypeOK, Package
    <3> QED
      BY <2>2, <3>1
  <2>8. AckedIsCentral'
    <3> SUFFICES ASSUME NEW v \in Uploads, client'[v].pc = "acked" \/ status'[v] = "SYNCED"
                 PROVE  /\ (1 .. package'[v].rows) \cap Resolved \subseteq central'
                        /\ package'[v].proof => lecturerLogs' > 0
      BY DEF AckedIsCentral
    <3>1. CASE v = u
      BY <2>1, <2>2, <2>3, <2>7, <3>1
    <3>2. CASE v # u
      BY <2>3, <2>4, <2>5, <2>6, <3>2, AckedKept
    <3> QED
      BY <3>1, <3>2
  <2>9. NewInv' /\ DistinctInv'
    BY <2>1, <2>2, <2>3, <2>4 DEF IInv, NewInv, DistinctInv
  <2> QED
    BY <2>3, <2>5, <2>6, <2>8, <2>9, ReplyKeeps DEF IInv
<1>4. CASE Fail(h)
  <2>1. /\ handler[h].pc # "idle" /\ handler' = [handler EXCEPT ![h] = IdleHandler]
        /\ package' = package /\ UNCHANGED <<uploads, tables>>
    BY <1>4 DEF Fail
  <2>2. faults' \in 0 .. MaxFaults
    BY <1>4, ReceiverAssumption DEF Fail, Fault, IInv, TypeOK
  <2>3. /\ client' \in [Uploads -> Client]
        /\ \A v \in Uploads : client[v].pc # "new" => client'[v].pc # "new"
        /\ \A v \in Uploads : client'[v].pc = "acked" => client[v].pc = "acked"
    <3>1. u \in Uploads /\ client \in [Uploads -> Client]
      BY <2>1 DEF IInv, TypeOK, HandlerInv, ServingInv
    <3>2. Answered(client[u], FALSE) = [client[u] EXCEPT !.pc = "failed"]
      BY DEF Answered
    <3>3. Answered(client[u], FALSE) \in Client /\ Answered(client[u], FALSE).pc = "failed"
      BY <3>1, <3>2 DEF Client
    <3>4. \/ client' = client
          \/ client' = [client EXCEPT ![u] = Answered(client[u], FALSE)]
      BY <1>4 DEF Fail
    <3> QED
      BY <3>1, <3>3, <3>4
  <2>4. TypeOK'
    BY <1>0, <2>1, <2>2, <2>3 DEF IInv, TypeOK
  <2>5. Grows
    BY <1>0, <2>1, <2>3 DEF Grows
  <2> QED
    BY <2>1, <2>3, <2>4, <2>5, ReplyKeeps, UploadsKept DEF IInv
<1> QED
  BY <1>1, <1>2, <1>3, <1>4

\* The steps of the phone and of Redis preserve the inductive invariant.
LEMMA ClientIInv ==
    ASSUME IInv, NEW u \in Uploads,
           \/ \E p \in Package : InitUpload(u, p)
           \/ \E h \in Handlers, q \in Request : Arrive(h, u, q)
           \/ Timeout(u)
           \/ ChunkExpire(u)
    PROVE  IInv'
<1> USE DEF phone, uploads, tables
<1>0. /\ lecturerLogs \in Nat /\ faults \in 0 .. MaxFaults /\ client \in [Uploads -> Client]
      /\ handler \in [Handlers -> Handler]
      /\ \A v \in Uploads : Len(received[v]) \in Nat
      /\ client[u] \in Client
  BY DEF IInv, TypeOK
<1>f. Fault \/ faults' = faults => faults' \in 0 .. MaxFaults
  BY <1>0, ReceiverAssumption DEF Fault
<1>1. ASSUME NEW p \in Package, InitUpload(u, p) PROVE IInv'
  <2>1. PICK x \in {"sending", "failed"} : client' = [client EXCEPT ![u].pc = x]
    BY <1>1 DEF InitUpload
  <2>2. /\ client[u].pc = "new"
        /\ package' = [package EXCEPT ![u] = p]
        /\ status' = [status EXCEPT ![u] = "PENDING"]
        /\ Fault \/ faults' = faults
        /\ UNCHANGED <<received, redis, handler, tables>>
    BY <1>1 DEF InitUpload
  <2>3. /\ client' \in [Uploads -> Client]
        /\ client'[u].pc = x
        /\ \A v \in Uploads \ {u} : client'[v] = client[v]
    BY <1>0, <2>1 DEF Client
  <2>4. /\ package' \in [Uploads -> Package]
        /\ \A v \in Uploads \ {u} : package'[v] = package[v]
    BY <2>2 DEF IInv, TypeOK
  <2>5. /\ status' \in [Uploads -> {"none", "PENDING", "UPLOADING", "SYNCED"}]
        /\ \A v \in Uploads : status'[v] = "SYNCED" => status[v] = "SYNCED"
    BY <2>2 DEF IInv, TypeOK
  <2>6. TypeOK'
    BY <1>f, <2>2, <2>3, <2>4, <2>5 DEF IInv, TypeOK
  <2>7. Grows
    BY <1>0, <2>2, <2>3, <2>4 DEF Grows
  <2>8. \A v \in Uploads : client'[v].pc = "acked" => client[v].pc = "acked"
    BY <2>3
  <2>9. \A k \in Handlers : HandlerInv(k)'
    BY <2>2, <2>6, <2>7, OthersKept
  <2> QED
    BY <2>2, <2>5, <2>6, <2>7, <2>8, <2>9, UploadsKept DEF IInv
<1>2. ASSUME NEW h \in Handlers, NEW q \in Request, Arrive(h, u, q) PROVE IInv'
  <2>1. PICK x \in {"store", "count"} :
           /\ x = "store" <=> q < TotalChunks
           /\ handler' = [handler EXCEPT ![h] = [pc |-> x, upload |-> u,
                                                 request |-> q, row |-> 1]]
    BY <1>2 DEF Arrive
  <2>2. /\ client[u].pc = "sending"
        /\ client' = [client EXCEPT ![u].next = q, ![u].sent = TRUE]
        /\ Fault \/ faults' = faults
        /\ UNCHANGED <<package, uploads, tables>>
    BY <1>2 DEF Arrive
  <2>3. /\ client' \in [Uploads -> Client]
        /\ \A v \in Uploads : client'[v].pc = client[v].pc
    BY <1>0, <2>2 DEF Client
  <2>4. q \in Request /\ 1 \in 1 .. MaxRows + 1
    BY <1>0, ReceiverAssumption DEF Client
  <2>5. /\ handler' \in [Handlers -> Handler]
        /\ \A k \in Handlers \ {h} : handler'[k] = handler[k]
        /\ handler'[h].pc = x /\ handler'[h].upload = u
        /\ handler'[h].request = q /\ handler'[h].row = 1
    BY <1>0, <2>1, <2>4 DEF Handler, Receiving, Checking
  <2>6. TypeOK'
    BY <1>f, <2>2, <2>3, <2>5 DEF IInv, TypeOK
  <2>7. Grows
    BY <1>0, <2>2, <2>3 DEF Grows
  <2>8. HandlerInv(h)'
    BY <2>1, <2>2, <2>3, <2>5
       DEF HandlerInv, ServingInv, CountedInv, SoundInv, WrittenInv, Receiving, Writing
  <2>9. \A k \in Handlers : HandlerInv(k)'
    BY <2>5, <2>6, <2>7, <2>8, OthersKept
  <2> QED
    BY <2>2, <2>3, <2>6, <2>7, <2>9, UploadsKept DEF IInv
<1>3. CASE Timeout(u)
  <2>1. /\ client' = [client EXCEPT ![u].pc = "failed"]
        /\ Fault \/ faults' = faults
        /\ UNCHANGED <<package, uploads, handler, tables>>
    BY <1>3 DEF Timeout
  <2>2. /\ client' \in [Uploads -> Client]
        /\ \A v \in Uploads : client[v].pc # "new" => client'[v].pc # "new"
        /\ \A v \in Uploads : client'[v].pc = "acked" => client[v].pc = "acked"
    BY <1>0, <2>1 DEF Client
  <2>3. TypeOK'
    BY <1>f, <2>1, <2>2 DEF IInv, TypeOK
  <2>4. Grows
    BY <1>0, <2>1, <2>2 DEF Grows
  <2>5. \A k \in Handlers : HandlerInv(k)'
    BY <2>1, <2>3, <2>4, OthersKept
  <2> QED
    BY <2>1, <2>2, <2>3, <2>4, <2>5, UploadsKept DEF IInv
<1>4. CASE ChunkExpire(u)
  <2>1. Fault /\ UNCHANGED <<phone, status, received, handler, tables>>
    BY <1>4 DEF ChunkExpire
  <2>2. redis' \in [Uploads -> SUBSET Chunk]
    BY <1>4 DEF ChunkExpire, IInv, TypeOK
  <2>3. TypeOK'
    BY <1>f, <2>1, <2>2 DEF IInv, TypeOK
  <2>4. Grows
    BY <1>0, <2>1 DEF Grows
  <2>5. \A k \in Handlers : HandlerInv(k)'
    BY <2>1, <2>3, <2>4, OthersKept
  <2> QED
    BY <2>1, <2>3, <2>4, <2>5, UploadsKept DEF IInv
<1> QED
  BY <1>1, <1>2, <1>3, <1>4

\* Every step preserves the inductive invariant.
LEMMA NextIInv == IInv /\ [Next]_vars => IInv'
<1> SUFFICES ASSUME IInv, [Next]_vars PROVE IInv'
  OBVIOUS
<1>1. ASSUME NEW h \in Handlers, Serve(h) PROVE IInv'
  <2>1. CASE CompleteCount(h)
    <3>1. Reply(h, FALSE) \/ handler' = [handler EXCEPT ![h].pc = "assemble"]
      BY <2>1 DEF CompleteCount
    <3>2. handler' = [handler EXCEPT ![h].pc = "assemble"] => handler'[h].pc = "assemble"
      BY DEF IInv, TypeOK, Handler
    <3> QED
      BY <2>1, <3>1, <3>2, ReplyIInv, AdvanceIInv
  <2>2. CASE CompleteAssemble(h)
    <3>1. Reply(h, FALSE) \/ handler' = [handler EXCEPT ![h].pc = "session"]
      BY <2>2 DEF CompleteAssemble
    <3>2. handler' = [handler EXCEPT ![h].pc = "session"] => handler'[h].pc = "session"
      BY DEF IInv, TypeOK, Handler
    <3> QED
      BY <2>2, <3>1, <3>2, ReplyIInv, AdvanceIInv
  <2> QED
    BY <1>1, <2>1, <2>2, ReplyIInv, AdvanceIInv DEF Serve
<1>2. ASSUME NEW h \in Handlers, Fail(h) PROVE IInv'
  BY <1>2, ReplyIInv
<1>3. ASSUME NEW u \in Uploads,
             (\E p \in Package : InitUpload(u, p)) \/ (\E h \in Handlers, q \in Request : Arrive(h, u, q))
               \/ Timeout(u) \/ ChunkExpire(u)
      PROVE  IInv'
  BY <1>3, ClientIInv
<1>4. CASE UNCHANGED vars
  <2>1. TypeOK' /\ Grows
    BY <1>4 DEF vars, phone, uploads, tables, IInv, TypeOK, Grows
  <2>2. \A k \in Handlers : HandlerInv(k)'
    BY <1>4, <2>1, OthersKept DEF vars
  <2> QED
    BY <1>4, <2>1, <2>2, UploadsKept DEF IInv, vars, phone, uploads
<1> QED
  BY <1>1, <1>2, <1>3, <1>4 DEF Next

\* The inductive invariant holds in every reachable state.
THEOREM Invariance == Spec => []IInv
BY InitIInv, NextIInv, PTL DEF Spec

\* Type correctness of the receiver, for every value of the constants.
THEOREM TypeCorrect == Spec => []TypeOK
<1>1. IInv => TypeOK
  BY DEF IInv
<1> QED
  BY <1>1, Invariance, PTL

\* No resend, late chunk or lost chunk makes Complete write an upload of
\* which a chunk was never recorded, or a package that does not verify.
THEOREM CompletenessIsRealAlways == Spec => []CompletenessIsReal
BY IInvComplete, Invariance, PTL

\* An attempt the phone takes as uploaded, or that the server shows as
\* SYNCED, has all its resolvable rows and its lecturer's log centrally,
\* whatever other attempts failed half-way, before it or at the same time.
THEOREM AckedIsCentralAlways == Spec => []AckedIsCentral
<1>1. IInv => AckedIsCentral
  BY DEF IInv
<1> QED
  BY <1>1, Invariance, PTL

\* An upload is written only if it arrived whole and verifies, and an attempt is
\* acknowledged only if all it carries is there, under any interleaving of
\* overlapping attempts, resends and failed statements.
THEOREM UploadsAreSoundAlways == Spec => []UploadsAreSound
<1>1. CompletenessIsReal /\ AckedIsCentral => UploadsAreSound
  BY DEF UploadsAreSound
<1> QED
  BY <1>1, CompletenessIsRealAlways, AckedIsCentralAlways, PTL

-----------------------------------------------------------------------------
(* The central copy as CentralCopy promises it.                            *)

\* The mapped state.
Sent == [u \in Uploads |-> Carried(package[u])]
CopyRows == central \cup (IF lecturerLogs > 0 THEN {LecturerLog} ELSE {})
Told == {u \in Uploads : client[u].pc = "acked"}

\* An attempt that has not started carries nothing; a handler that seeds the
\* lecturer's log has a package with a proof of presence.
UnsentInv == \A u \in Uploads : client[u].pc = "new" => package[u] = NoPackage
SeedInv == \A h \in Handlers :
               handler[h].pc \in {"seed?", "seed"} => package[handler[h].upload].proof
CarriedInv == IInv /\ UnsentInv /\ SeedInv

CopyStep == [Copy!CopyNext]_<<Sent, CopyRows, Told>>

\* What a package carries are rows of the phone's ledger.
LEMMA CarriedType == \A p \in Package : Carried(p) \subseteq 0 .. MaxRows
<1> SUFFICES ASSUME NEW p \in Package, NEW r \in Carried(p) PROVE r \in 0 .. MaxRows
  OBVIOUS
<1>1. r \in Resolved \/ r = 0
  BY DEF Carried, LecturerLog
<1>2. MaxRows \in Nat /\ \A i \in Resolved : i \in 1 .. MaxRows
  BY ReceiverAssumption
<1> QED
  BY <1>1, <1>2

\* The three steps of CentralCopy, over the mapped state.
LEMMA CopySteps ==
    ASSUME NEW u \in Uploads
    PROVE  /\ (/\ Sent[u] = {} /\ u \notin Told
               /\ \E rows \in SUBSET (0 .. MaxRows) : Sent' = [Sent EXCEPT ![u] = rows]
               /\ UNCHANGED <<CopyRows, Told>>) => CopyStep
           /\ (/\ \E rows \in SUBSET Sent[u] : CopyRows' = CopyRows \cup rows
               /\ UNCHANGED <<Sent, Told>>) => CopyStep
           /\ (/\ Sent[u] \subseteq CopyRows /\ Told' = Told \cup {u}
               /\ UNCHANGED <<Sent, CopyRows>>) => CopyStep
BY DEF CopyStep, Sent, CopyRows, Told, Copy!CopyNext, Copy!Send, Copy!Take, Copy!Tell

\* An attempt that was acknowledged stays acknowledged when another is answered.
LEMMA ReplyTold ==
    ASSUME IInv, NEW h \in Handlers, handler[h].pc # "idle", NEW ok \in BOOLEAN,
           Reply(h, ok)
    PROVE  \/ Told' = Told
           \/ /\ ok /\ ~(handler[h].request < TotalChunks)
              /\ Told' = Told \cup {handler[h].upload}
<1> DEFINE u == handler[h].upload
<1>1. \A v \in Uploads : client'[v].pc = "acked" =>
          client[v].pc = "acked" \/ (ok /\ v = u /\ ~(handler[h].request < TotalChunks))
  BY ReplyEffect
<1>2. u \in Uploads /\ client \in [Uploads -> Client]
  BY DEF IInv, TypeOK, HandlerInv, ServingInv
<1>3. \A v \in Uploads : client[v].pc = "acked" => client'[v].pc = "acked"
  <2>1. CASE Serves(h, u) /\ client' = [client EXCEPT ![u] = Answered(client[u], ok)]
    <3>1. client[u].pc = "sending"
      BY <2>1 DEF Serves
    <3>2. \A v \in Uploads \ {u} : client'[v] = client[v]
      BY <1>2, <2>1
    <3> QED
      BY <3>1, <3>2
  <2>2. CASE UNCHANGED client
    BY <2>2
  <2> QED
    BY <2>1, <2>2 DEF Reply
<1> HIDE DEF u
<1> QED
  BY <1>1, <1>2, <1>3 DEF Told, u

\* The invariant is kept by a step that begins no attempt and no seeding.
LEMMA CarriedKept ==
    ASSUME CarriedInv, UNCHANGED package,
           \A u \in Uploads : client[u].pc # "new" => client'[u].pc # "new",
           \A h \in Handlers : \/ handler'[h] = handler[h]
                               \/ handler'[h].pc \notin {"seed?", "seed"}
    PROVE  UnsentInv' /\ SeedInv'
BY DEF CarriedInv, UnsentInv, SeedInv

\* A handler's answer is one of CentralCopy's steps, if good answers to Complete find all there.
LEMMA ReplyCopies ==
    ASSUME CarriedInv, NEW h \in Handlers, handler[h].pc # "idle", NEW ok \in BOOLEAN,
           Reply(h, ok), UNCHANGED tables,
           ok => handler[h].request < TotalChunks \/ Sent[handler[h].upload] \subseteq CopyRows
    PROVE  CopyStep /\ UnsentInv' /\ SeedInv'
<1>1. IInv /\ handler[h].upload \in Uploads
  BY DEF CarriedInv, IInv, HandlerInv, ServingInv
<1>2. /\ handler' = [handler EXCEPT ![h] = IdleHandler]
      /\ package' = package
      /\ \A u \in Uploads : client[u].pc # "new" => client'[u].pc # "new"
  BY <1>1, ReplyEffect
<1>3. UnsentInv' /\ SeedInv'
  <2>1. \A k \in Handlers : handler'[k] = handler[k] \/ handler'[k].pc \notin {"seed?", "seed"}
    BY <1>1, <1>2 DEF IInv, TypeOK, IdleHandler
  <2> QED
    BY <1>2, <2>1, CarriedKept
<1>4. UNCHANGED <<Sent, CopyRows>>
  BY <1>2 DEF Sent, CopyRows, tables
<1>5. CASE Told' = Told
  BY <1>3, <1>4, <1>5 DEF CopyStep
<1>6. CASE ok /\ ~(handler[h].request < TotalChunks) /\ Told' = Told \cup {handler[h].upload}
  BY <1>1, <1>3, <1>4, <1>6, CopySteps
<1> QED
  BY <1>1, <1>5, <1>6, ReplyTold

\* A handler that goes on without touching the copy.
LEMMA AdvanceCopies ==
    ASSUME CarriedInv, NEW h \in Handlers, UNCHANGED <<phone, lecturerLogs, central>>,
           NEW x, handler' = [handler EXCEPT ![h].pc = x],
           x \in {"seed?", "seed"} => package[handler[h].upload].proof
    PROVE  CopyStep /\ UnsentInv' /\ SeedInv'
<1>1. UNCHANGED <<Sent, CopyRows, Told>>
  BY DEF Sent, CopyRows, Told, phone
<1>2. handler'[h].pc = x /\ handler'[h].upload = handler[h].upload
  BY DEF CarriedInv, IInv, TypeOK, Handler
<1>3. \A k \in Handlers \ {h} : handler'[k] = handler[k]
  BY DEF CarriedInv, IInv, TypeOK
<1>4. SeedInv'
  BY <1>2, <1>3 DEF CarriedInv, SeedInv, phone
<1> QED
  BY <1>1, <1>4 DEF CarriedInv, UnsentInv, CopyStep, phone

\* Every step is a step of CentralCopy or leaves it alone.
LEMMA NextCopy == CarriedInv /\ [Next]_vars => CopyStep /\ UnsentInv' /\ SeedInv'
<1> SUFFICES ASSUME CarriedInv, [Next]_vars PROVE CopyStep /\ UnsentInv' /\ SeedInv'
  OBVIOUS
<1> DEFINE Goal == CopyStep /\ UnsentInv' /\ SeedInv'
<1> SUFFICES Goal
  OBVIOUS
<1>0. /\ IInv
      /\ client \in [Uploads -> Client] /\ package \in [Uploads -> Package]
      /\ handler \in [Handlers -> Handler]
  BY DEF CarriedInv, IInv, TypeOK
<1>1. ASSUME NEW h \in Handlers, ChunkStore(h) PROVE Goal
  BY <1>1, AdvanceCopies DEF ChunkStore, tables
<1>2. ASSUME NEW h \in Handlers, ChunkMark(h) PROVE Goal
  <2>1. handler[h].request < TotalChunks
    BY <1>0, <1>2 DEF IInv, HandlerInv, ServingInv, ChunkMark, Receiving
  <2> QED
    BY <1>2, <2>1, ReplyCopies DEF ChunkMark
<1>3. ASSUME NEW h \in Handlers, CompleteCount(h) PROVE Goal
  <2>1. CASE Reply(h, FALSE)
    BY <1>3, <2>1, ReplyCopies DEF CompleteCount
  <2>2. CASE handler' = [handler EXCEPT ![h].pc = "assemble"] /\ UNCHANGED phone
    BY <1>3, <2>2, AdvanceCopies DEF CompleteCount, tables
  <2> QED
    BY <1>3, <2>1, <2>2 DEF CompleteCount
<1>4. ASSUME NEW h \in Handlers, CompleteAssemble(h) PROVE Goal
  <2>1. CASE Reply(h, FALSE)
    BY <1>4, <2>1, ReplyCopies DEF CompleteAssemble
  <2>2. CASE handler' = [handler EXCEPT ![h].pc = "session"] /\ UNCHANGED phone
    BY <1>4, <2>2, AdvanceCopies DEF CompleteAssemble, tables
  <2> QED
    BY <1>4, <2>1, <2>2 DEF CompleteAssemble
<1>5. ASSUME NEW h \in Handlers, WriteSession(h) PROVE Goal
  <2> DEFINE x == IF package[handler[h].upload].proof THEN "seed?" ELSE "rows"
  <2>1. handler' = [handler EXCEPT ![h].pc = x] /\ UNCHANGED <<phone, lecturerLogs, central>>
    BY <1>5 DEF WriteSession
  <2>2. x \in {"seed?", "seed"} => package[handler[h].upload].proof
    OBVIOUS
  <2> HIDE DEF x
  <2> QED
    BY <2>1, <2>2, AdvanceCopies
<1>6. ASSUME NEW h \in Handlers, SeedCheck(h) PROVE Goal
  <2> DEFINE x == IF lecturerLogs = 0 THEN "seed" ELSE "rows"
  <2>1. handler' = [handler EXCEPT ![h].pc = x] /\ UNCHANGED <<phone, lecturerLogs, central>>
    BY <1>6 DEF SeedCheck, tables
  <2>2. package[handler[h].upload].proof
    BY <1>6 DEF SeedCheck, CarriedInv, SeedInv
  <2> HIDE DEF x
  <2> QED
    BY <2>1, <2>2, AdvanceCopies
<1>7. ASSUME NEW h \in Handlers, SeedLecturer(h) PROVE Goal
  <2> DEFINE u == handler[h].upload
  <2>1. u \in Uploads /\ package[u].proof
    BY <1>0, <1>7 DEF SeedLecturer, CarriedInv, SeedInv, IInv, HandlerInv, ServingInv
  <2>2. lecturerLogs' > 0 /\ UNCHANGED <<phone, central>>
    BY <1>0, <1>7 DEF SeedLecturer, IInv, TypeOK
  <2>3. handler' = [handler EXCEPT ![h].pc = "rows"]
    BY <1>7 DEF SeedLecturer
  <2>4. {LecturerLog} \in SUBSET Sent[u]
    BY <2>1 DEF Sent, Carried
  <2>5. CopyRows' = CopyRows \cup {LecturerLog} /\ UNCHANGED <<Sent, Told>>
    BY <2>2 DEF CopyRows, Sent, Told, phone
  <2>6. CopyStep
    BY <2>1, <2>4, <2>5, CopySteps
  <2>7. UnsentInv' /\ SeedInv'
    <3>1. \A k \in Handlers : handler'[k] = handler[k] \/ handler'[k].pc \notin {"seed?", "seed"}
      BY <1>0, <2>3 DEF Handler
    <3> QED
      BY <2>2, <3>1, CarriedKept DEF phone
  <2> QED
    BY <2>6, <2>7
<1>8. ASSUME NEW h \in Handlers, WriteRow(h) PROVE Goal
  <2> DEFINE u == handler[h].upload
             i == handler[h].row
  <2>1. u \in Uploads /\ package[u] \in Package /\ handler[h].pc = "rows" /\ UNCHANGED <<phone, lecturerLogs>>
    BY <1>0, <1>8 DEF WriteRow, IInv, HandlerInv, ServingInv
  <2>2. CASE i <= package[u].rows /\ central' = central \cup ({i} \cap Resolved)
             /\ handler' = [handler EXCEPT ![h].row = i + 1]
    <3>1. i \in 1 .. package[u].rows
      BY <1>0, <2>1, <2>2 DEF Handler, Package
    <3>2. {i} \cap Resolved \in SUBSET Sent[u]
      BY <2>1, <3>1 DEF Sent, Carried
    <3>3. CopyRows' = CopyRows \cup ({i} \cap Resolved) /\ UNCHANGED <<Sent, Told>>
      BY <2>1, <2>2 DEF CopyRows, Sent, Told, phone
    <3>4. CopyStep
      BY <2>1, <3>2, <3>3, CopySteps
    <3>5. \A k \in Handlers : handler'[k] = handler[k] \/ handler'[k].pc \notin {"seed?", "seed"}
      BY <1>0, <2>1, <2>2 DEF Handler
    <3> QED
      BY <2>1, <3>4, <3>5, CarriedKept DEF phone
  <2>3. CASE handler' = [handler EXCEPT ![h].pc = "finish"] /\ UNCHANGED central
    BY <2>1, <2>3, AdvanceCopies
  <2> QED
    BY <1>8, <2>2, <2>3 DEF WriteRow
<1>9. ASSUME NEW h \in Handlers, Finish(h) PROVE Goal
  <2> DEFINE u == handler[h].upload
  <2>1. /\ u \in Uploads /\ package[u] \in Package
        /\ handler[h].row = package[u].rows + 1
        /\ \A i \in Resolved : i < handler[h].row => i \in central
        /\ package[u].proof => lecturerLogs > 0
    BY <1>0, <1>9 DEF Finish, IInv, HandlerInv, ServingInv, WrittenInv
  <2>2. (1 .. package[u].rows) \cap Resolved \subseteq central
    BY <2>1, ReceiverAssumption DEF Package
  <2>3. Sent[u] \subseteq CopyRows
    BY <2>1, <2>2 DEF Sent, CopyRows, Carried
  <2> HIDE DEF u
  <2> QED
    BY <1>9, <2>3, ReplyCopies DEF Finish, u
<1>10. ASSUME NEW h \in Handlers, Fail(h) PROVE Goal
  <2> DEFINE u == handler[h].upload
  <2>1. /\ handler' = [handler EXCEPT ![h] = IdleHandler]
        /\ client' = IF Serves(h, u) THEN [client EXCEPT ![u] = Answered(client[u], FALSE)] ELSE client
        /\ UNCHANGED <<package, tables>>
    BY <1>10 DEF Fail
  <2>2. /\ Told' = Told
        /\ \A v \in Uploads : client[v].pc # "new" => client'[v].pc # "new"
    <3>1. CASE ~Serves(h, u)
      BY <2>1, <3>1 DEF Told
    <3>2. CASE Serves(h, u)
      <4>1. client[u].pc = "sending" /\ Answered(client[u], FALSE).pc = "failed"
        <5>1. u \in Uploads
          BY <1>0, <1>10 DEF Fail, IInv, HandlerInv, ServingInv
        <5>2. client[u].pc = "sending"
          BY <3>2 DEF Serves
        <5> QED
          BY <1>0, <5>1, <5>2 DEF Answered, Client
      <4> QED
        BY <1>0, <2>1, <3>2, <4>1 DEF Told
    <3> QED
      BY <3>1, <3>2
  <2>3. UNCHANGED <<Sent, CopyRows>>
    BY <2>1 DEF Sent, CopyRows, tables
  <2>4. \A k \in Handlers : handler'[k] = handler[k] \/ handler'[k].pc \notin {"seed?", "seed"}
    BY <1>0, <2>1 DEF IdleHandler
  <2> QED
    BY <2>1, <2>2, <2>3, <2>4, CarriedKept DEF CopyStep
<1>11. ASSUME NEW u \in Uploads, NEW p \in Package, InitUpload(u, p) PROVE Goal
  <2>1. PICK x \in {"sending", "failed"} : client' = [client EXCEPT ![u].pc = x]
    BY <1>11 DEF InitUpload
  <2>2. /\ client[u].pc = "new"
        /\ package' = [package EXCEPT ![u] = p]
        /\ UNCHANGED <<handler, tables>>
    BY <1>11 DEF InitUpload
  <2>3. client'[u].pc = x /\ \A v \in Uploads \ {u} : client'[v] = client[v]
    BY <1>0, <2>1 DEF Client
  <2>4. Told' = Told /\ u \notin Told
    BY <2>2, <2>3 DEF Told
  <2>5. Sent[u] = {}
    BY <2>2 DEF Sent, Carried, CarriedInv, UnsentInv, NoPackage
  <2>6. Sent' = [Sent EXCEPT ![u] = Carried(p)] /\ Carried(p) \in SUBSET (0 .. MaxRows)
    BY <1>0, <2>2, CarriedType DEF Sent
  <2>7. CopyStep
    <3>1. UNCHANGED CopyRows
      BY <2>2 DEF CopyRows, tables
    <3> QED
      BY <2>4, <2>5, <2>6, <3>1, CopySteps
  <2>8. UnsentInv'
    BY <1>0, <2>2, <2>3 DEF CarriedInv, UnsentInv
  <2>9. SeedInv'
    <3>1. \A h \in Handlers : handler[h].pc # "idle" => /\ handler[h].upload \in Uploads
                                                        /\ handler[h].upload # u
      BY <1>0, <2>2 DEF IInv, HandlerInv, ServingInv
    <3> QED
      BY <1>0, <2>2, <3>1 DEF CarriedInv, SeedInv
  <2> QED
    BY <2>7, <2>8, <2>9
<1>12. ASSUME NEW u \in Uploads, NEW h \in Handlers, NEW q \in Request, Arrive(h, u, q) PROVE Goal
  <2>1. /\ client' = [client EXCEPT ![u].next = q, ![u].sent = TRUE]
        /\ UNCHANGED <<package, tables>>
    BY <1>12 DEF Arrive
  <2>2. \A v \in Uploads : client'[v].pc = client[v].pc
    BY <1>0, <2>1 DEF Client
  <2>3. PICK x \in {"store", "count"} :
           handler' = [handler EXCEPT ![h] = [pc |-> x, upload |-> u, request |-> q, row |-> 1]]
    BY <1>12 DEF Arrive
  <2>4. \A k \in Handlers : handler'[k] = handler[k] \/ handler'[k].pc \notin {"seed?", "seed"}
    BY <1>0, <2>3
  <2>5. UNCHANGED <<Sent, CopyRows, Told>>
    BY <2>1, <2>2 DEF Sent, CopyRows, Told, tables
  <2> QED
    BY <2>1, <2>2, <2>4, <2>5, CarriedKept DEF CopyStep
<1>13. ASSUME NEW u \in Uploads, Timeout(u) PROVE Goal
  <2>1. /\ client[u].pc = "sending"
        /\ client' = [client EXCEPT ![u].pc = "failed"]
        /\ UNCHANGED <<package, handler, tables>>
    BY <1>13 DEF Timeout
  <2>2. client'[u].pc = "failed" /\ \A v \in Uploads \ {u} : client'[v] = client[v]
    BY <1>0, <2>1 DEF Client
  <2>3. UNCHANGED <<Sent, CopyRows, Told>>
    BY <2>1, <2>2 DEF Sent, CopyRows, Told, tables
  <2> QED
    BY <2>1, <2>2, <2>3, CarriedKept DEF CopyStep
<1>14. CASE (\E u \in Uploads : ChunkExpire(u)) \/ UNCHANGED vars
  <2>1. UNCHANGED <<phone, handler, tables>>
    BY <1>14 DEF ChunkExpire, vars
  <2>2. UNCHANGED <<Sent, CopyRows, Told>>
    BY <2>1 DEF Sent, CopyRows, Told, tables, phone
  <2> QED
    BY <2>1, <2>2, CarriedKept DEF CopyStep, phone
<1> HIDE DEF Goal
<1>15. ASSUME NEW h \in Handlers, Serve(h) PROVE Goal
  BY <1>1, <1>2, <1>3, <1>4, <1>5, <1>6, <1>7, <1>8, <1>9, <1>15 DEF Serve
<1>16. ASSUME NEW u \in Uploads,
              (\E p \in Package : InitUpload(u, p)) \/ (\E h \in Handlers, q \in Request : Arrive(h, u, q))
                \/ Timeout(u) \/ ChunkExpire(u)
       PROVE  Goal
  BY <1>11, <1>12, <1>13, <1>14, <1>16
<1> QED
  BY <1>10, <1>14, <1>15, <1>16 DEF Next

\* The receiver implements the central copy, for any number of overlapping
\* attempts, concurrent handlers and faults: no row arrives that no package
\* had, none is lost again, and an acknowledgement means all of them.
THEOREM ReceiverImplementsCopy == Spec => CopyPromise
<1>1. Init => UnsentInv /\ SeedInv /\ Copy!CopyInit
  <2> SUFFICES ASSUME Init PROVE UnsentInv /\ SeedInv /\ Copy!CopyInit
    OBVIOUS
  <2>1. UnsentInv /\ SeedInv
    BY DEF Init, UnsentInv, SeedInv, IdleHandler
  <2>2. Carried(NoPackage) = {}
    BY DEF Carried, NoPackage
  <2>3. Sent = [u \in Uploads |-> {}] /\ CopyRows = {} /\ Told = {}
    BY <2>2 DEF Init, Sent, CopyRows, Told, NewClient
  <2> QED
    BY <2>1, <2>3 DEF Copy!CopyInit, Sent, CopyRows, Told
<1>2. Init => CarriedInv
  BY <1>1, InitIInv DEF CarriedInv
<1>3. CarriedInv /\ [Next]_vars => CarriedInv'
  BY NextIInv, NextCopy DEF CarriedInv
<1>4. CarriedInv /\ [Next]_vars => [Copy!CopyNext]_Copy!copyVars
  BY NextCopy DEF CopyStep, Sent, CopyRows, Told, Copy!copyVars
<1> QED
  BY <1>1, <1>2, <1>3, <1>4, PTL DEF Spec, CopyPromise, Copy!CopySpec


=============================================================================
