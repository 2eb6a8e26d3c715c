------------------------------- MODULE UPanel -------------------------------
(***************************************************************************)
(* Import of the university panel (package upanel).  The panel is another  *)
(* system: class lists become sittings that close, students enrol, check in (some late,   *)
(* from a phone that was offline) and get their registration number.  A    *)
(* fetch reads its collections one after the other, joins them and upserts *)
(* the result; fetches of several readers overlap and each may fail.       *)
(* Absence is not a document there: it is worked out here and stored.      *)
(* Names, courses and rooms are left out.  The paging of one collection is *)
(* followed in behaviours of its own.                                      *)
(***************************************************************************)
EXTENDS Integers, Sequences, FiniteSets, FiniteSetsExt

CONSTANTS Fetcher,   \* requests that fetch
          Sitting,   \* sessions of the panel, each with its class list
          PanelStudent,
          PageSize, MaxPages, \* 500 and 10 in client.go
          MaxDocs,   \* bound: documents of a collection
          MaxOrder,  \* bound: values of the field they are ordered by
          MaxFetch   \* bound: fetches made

ASSUME UPanelAssumption ==
    /\ {PageSize, MaxPages, MaxDocs, MaxOrder, MaxFetch} \subseteq Nat \ {0}
    /\ IsFiniteSet(Sitting) /\ IsFiniteSet(PanelStudent)

VARIABLES half,     \* "import" or "paging"
          sitting,  \* the panel: the state of each sitting
          signed,   \* the panel: class lists the lecturer signed
          marks,    \* the panel: check-ins
          enrolled, \* the panel: sign-ins
          numbered, \* the panel: students with a registration number
          fetch,    \* what each fetch has read
          fetches,  \* how many were begun
          stored,   \* upanel_attendance, by external id
          settled,  \* history: the last import saw the panel as it is
          docs, cursor, got, page \* one collection, and the loop of fetchDocs

panelVars == <<sitting, signed, marks, enrolled, numbered>>
pageVars == <<docs, cursor, got, page>>
upanelVars == <<half, panelVars, fetch, fetches, stored, settled, pageVars>>

NotFetching == [pc |-> "none"]
orders == 1 .. MaxOrder

UPanelInit ==
    /\ half \in {"import", "paging"}
    /\ sitting = [s \in Sitting |-> "listed"] /\ signed = {} /\ marks = {}
    /\ enrolled = {} /\ numbered = {}
    /\ fetch = [f \in Fetcher |-> NotFetching] /\ fetches = 0
    /\ stored = [i \in {} |-> 0] /\ settled = FALSE
    /\ docs \in IF half = "import" THEN {<<>>}
                ELSE {d \in UNION {[1 .. n -> orders] : n \in 0 .. MaxDocs} :
                         \A i, j \in 1 .. Len(d) : i < j => d[i] >= d[j]}
    /\ cursor = MaxOrder + 1 /\ got = {} /\ page = 0

-----------------------------------------------------------------------------
(* The panel *)

panelMoves == settled' = FALSE /\ UNCHANGED <<half, fetch, fetches, stored, pageVars>>

PanelSignIn(l) ==
    /\ l \notin enrolled /\ enrolled' = enrolled \cup {l}
    /\ UNCHANGED <<sitting, signed, marks, numbered>> /\ panelMoves
PanelCheckIn(l, s) ==
    /\ l \in enrolled /\ sitting[s] \in {"open", "closed"} /\ <<s, l>> \notin marks
    /\ marks' = marks \cup {<<s, l>>}
    /\ UNCHANGED <<sitting, signed, enrolled, numbered>> /\ panelMoves
PanelMove(s, from, to) ==
    /\ sitting[s] = from /\ sitting' = [sitting EXCEPT ![s] = to]
    /\ UNCHANGED <<signed, marks, enrolled, numbered>> /\ panelMoves
PanelNumber(l) ==
    /\ l \notin numbered /\ numbered' = numbered \cup {l}
    /\ UNCHANGED <<sitting, signed, marks, enrolled>> /\ panelMoves
PanelSign(s) ==
    /\ s \notin signed /\ signed' = signed \cup {s}
    /\ UNCHANGED <<sitting, marks, enrolled, numbered>> /\ panelMoves

-----------------------------------------------------------------------------
(* A fetch *)

Got(f, rec) == fetch' = [fetch EXCEPT ![f] = rec]
fetchOnly == UNCHANGED <<half, panelVars, settled, pageVars>>

\* fetchCore: lists and sessions before records, so a sitting that is closed in what was
\* read has had all its check-ins
FetchSessions(f) ==
    /\ fetch[f] = NotFetching /\ fetches < MaxFetch
    /\ fetches' = fetches + 1
    /\ Got(f, [pc |-> "records", sitting |-> sitting, signed |-> signed])
    /\ UNCHANGED stored /\ fetchOnly
FetchRecords(f) ==
    /\ fetch[f].pc = "records"
    /\ Got(f, [pc |-> "signins", sitting |-> fetch[f].sitting, signed |-> fetch[f].signed, marks |-> marks])
    /\ UNCHANGED <<fetches, stored>> /\ fetchOnly
FetchSignIns(f) ==
    /\ fetch[f].pc = "signins"
    /\ Got(f, [pc |-> "join", sitting |-> fetch[f].sitting, signed |-> fetch[f].signed, marks |-> fetch[f].marks,
               enrolled |-> enrolled, numbered |-> numbered])
    /\ UNCHANGED <<fetches, stored>> /\ fetchOnly
\* An error of any call gives the whole fetch up
FetchFails(f) ==
    /\ fetch[f] # NotFetching /\ Got(f, NotFetching)
    /\ UNCHANGED <<fetches, stored>> /\ fetchOnly

\* studentIdentities, resolveStudent: by registration number once there is one
PersonID(l, known) == IF l \in known THEN <<"reg", l>> ELSE <<"uid", l>>

\* joinStudents: a row for each check-in, except of a discarded roll
JoinStudents(r) ==
    {[id |-> <<"mark", m[1], m[2]>>, s |-> m[1], who |-> PersonID(m[2], r.numbered), present |-> TRUE] :
        m \in {m \in r.marks : r.sitting[m[1]] # "discarded"}}

\* absentSessions: a row for each enrolled student a completed sitting has no check-in of
EveryoneAbsent(r, s, l) == TRUE
DidNotCheckIn(r, s, l) == <<s, l>> \notin r.marks
AnySitting(r, s) == r.sitting[s] = "open"
SessionCompleted(r, s) == r.sitting[s] = "closed"
AbsentSessions(r) ==
    {[id |-> <<"absent", p[1], p[2]>>, s |-> p[1], who |-> PersonID(p[2], r.numbered), present |-> FALSE] :
        p \in {p \in Sitting \X r.enrolled : SessionCompleted(r, p[1]) /\ DidNotCheckIn(r, p[1], p[2])}}

\* joinLecturers: a row for each session, and for a signed list that has no session
JoinLecturers(r) ==
    {[id |-> <<IF r.sitting[s] = "listed" THEN "list" ELSE "lecture", s>>, s |-> s,
      who |-> <<"staff", s>>, present |-> TRUE] :
        s \in {s \in Sitting : r.sitting[s] # "listed" \/ s \in r.signed}}

\* Upsert: one batch; a row is known by its external id and nothing is ever taken away
Upserted(rows) == [i \in DOMAIN stored \cup {x.id : x \in rows} |->
                      IF \E x \in rows : x.id = i THEN CHOOSE x \in rows : x.id = i ELSE stored[i]]
ImportPage(f) ==
    LET r == fetch[f] IN
    /\ r.pc = "join"
    /\ stored' = Upserted(JoinStudents(r) \cup AbsentSessions(r) \cup JoinLecturers(r))
    /\ settled' = (/\ r.sitting = sitting /\ r.marks = marks /\ r.enrolled = enrolled
                   /\ r.numbered = numbered /\ r.signed = signed)
    /\ Got(f, NotFetching) /\ UNCHANGED <<half, panelVars, fetches, pageVars>>

-----------------------------------------------------------------------------
(* fetchDocs: newest first, a page at a time, older than the last seen *)

\* What the panel answers: the first PageSize documents below the cursor
Answer == {i \in 1 .. Len(docs) : docs[i] < cursor /\
              Cardinality({j \in 1 .. i : docs[j] < cursor}) <= PageSize}
PageAfterFull(n) == n <= PageSize
LastPage(n) == n < PageSize
NextPage ==
    /\ page < MaxPages
    /\ got' = got \cup Answer
    /\ IF LastPage(Cardinality(Answer)) \/ Answer \subseteq got
       THEN page' = MaxPages /\ UNCHANGED cursor
       ELSE page' = page + 1 /\ cursor' = docs[Max(Answer)]
    /\ UNCHANGED <<half, panelVars, fetch, fetches, stored, settled, docs>>

UPanelNext ==
    \/ /\ half = "import"
       /\ \/ \E l \in PanelStudent : PanelSignIn(l) \/ PanelNumber(l) \/ \E s \in Sitting : PanelCheckIn(l, s)
          \/ \E s \in Sitting : PanelSign(s) \/ PanelMove(s, "listed", "open")
                              \/ \E to \in {"closed", "discarded"} : PanelMove(s, "open", to)
          \/ \E f \in Fetcher : \/ FetchSessions(f) \/ FetchRecords(f) \/ FetchSignIns(f)
                                \/ FetchFails(f) \/ ImportPage(f)
    \/ half = "paging" /\ NextPage

UPanelSpec == UPanelInit /\ [][UPanelNext]_upanelVars

-----------------------------------------------------------------------------
(* StudentRollups: sittings counted once, whatever rows there are of them *)

Held(p) == {stored[i].s : i \in {i \in DOMAIN stored : stored[i].who = p}}
AnyRow(i) == TRUE
IsPresent(i) == stored[i].present
Attended(p) == {stored[i].s : i \in {i \in DOMAIN stored : stored[i].who = p /\ IsPresent(i)}}

\* After an import that saw the panel as it is, each student's figures under the id they
\* now have are the panel's: every sitting they checked in to is attended, every sitting
\* that closed without them is held and not attended - although absences were stored
\* before the check-in arrived, under an id the student no longer has, and other readers'
\* older imports came in between.
SettledFiguresAreRight ==
    settled => \A l \in enrolled :
        LET p == PersonID(l, numbered)
            live == {s \in Sitting : sitting[s] \in {"open", "closed"}}
            mine == {s \in live : <<s, l>> \in marks} IN
        /\ Attended(p) \cap live = mine
        /\ Held(p) \cap live = mine \cup {s \in live : sitting[s] = "closed"}

\* A collection whose documents differ in the field it is ordered by is read whole.
PagesReachAll ==
    /\ page = MaxPages /\ Len(docs) < PageSize * MaxPages
    /\ \A i, j \in 1 .. Len(docs) : docs[i] = docs[j] => i = j
    => got = 1 .. Len(docs)

\* The import reads the panel whole and ends up with its figures.
ImportIsRight == SettledFiguresAreRight /\ PagesReachAll

\* "did not check in to" (client.go:346): after such an import, a stored absence is of a
\* student with no check-in.
AbsenceIsTrue ==
    settled => \A i \in DOMAIN stored : i[1] = "absent" => <<i[2], i[3]>> \notin marks
=============================================================================
