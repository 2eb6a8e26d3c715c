------------------------------ MODULE Notices ------------------------------
(***************************************************************************)
(* What staff write to each other.  App notifications are addressed when   *)
(* they are sent: one copy per recipient, who reads and dismisses it.  QA  *)
(* messages are addressed when they are read: a message names an audience, *)
(* and who belongs to it is asked on every listing.  Subjects, bodies and  *)
(* attachments, names and titles are left out.  A course has one unit.     *)
(***************************************************************************)
EXTENDS Integers, Sequences, FiniteSets

CONSTANTS Person,
          RoleOf,    \* users.role
          Posted,    \* where each person is at first
          Place,     \* courses, departments and schools
          UpOf,      \* a course's department, a department's school
          NoPlace,   \* no department or school, or no person
          ListLimit, \* 300 notifications, 500 messages
          Mover,     \* bound: who is moved
          MaxSent, MaxMoves \* bounds: what is sent, and how often people move

OrgRole == {"HOD", "DEAN", "QA_DEPT_REP", "QA_SCHOOL_HANDLER"}
QARole == {"QA_OFFICER", "DQA_DIRECTOR"}
\* isQAFieldRole
FieldRole == {"QA_OFFICER", "QA_DEPT_REP", "QA_SCHOOL_HANDLER"}

ASSUME NoticesAssumption ==
    /\ Posted \in [Person -> Place \cup {NoPlace}]
    /\ UpOf \in [Place -> Place \cup {NoPlace}] /\ NoPlace \notin Place
    /\ {ListLimit, MaxSent} \subseteq Nat \ {0} /\ MaxMoves \in Nat

VARIABLES at,       \* where a person studies, teaches or works
          on,       \* users.is_active
          sending,  \* the recipients a request has resolved and not yet written to
          copies,   \* notification_recipients: <<notification, person>> to its state
          notes,    \* app_notifications sent
          messages, \* qa_messages
          reads,    \* qa_message_reads: <<message, person>> to its state
          moves

noticeVars == <<at, on, sending, copies, notes, messages, reads, moves>>

NotSending == [busy |-> FALSE, to |-> {}]
Fresh == [read |-> FALSE, gone |-> FALSE]
NoticesInit ==
    /\ at = Posted
    /\ on = [p \in Person |-> TRUE]
    /\ sending = [p \in Person |-> NotSending]
    /\ copies = <<>> /\ notes = <<>> /\ messages = <<>> /\ reads = <<>> /\ moves = 0

-----------------------------------------------------------------------------
(* resolveRecipients *)

Above(x) == IF x = NoPlace THEN NoPlace ELSE UpOf[x]
Under(p, x) == x # NoPlace /\ x \in {at[p], Above(at[p]), Above(Above(at[p]))}

\* The audiences each role may name, by the role they reach
MayWriteTo(role) ==
    CASE role = "LECTURER" -> {"STUDENT", "COORDINATOR"}
      [] role = "COORDINATOR" -> {"STUDENT", "LECTURER"}
      [] role \in {"HOD", "QA_DEPT_REP"} -> {"LECTURER", "DEAN", "DQA_DIRECTOR", "ADMIN"}
      [] role \in {"DEAN", "QA_SCHOOL_HANDLER"} -> {"LECTURER", "HOD", "DQA_DIRECTOR", "ADMIN"}
      [] role \in QARole -> {"QA_PATROLLER", "LECTURER", "COORDINATOR"}
      [] OTHER -> {}
\* The two offices have no scope, and nor has who writes for the whole institution
InReach(s, p) ==
    \/ RoleOf[p] \in {"DQA_DIRECTOR", "ADMIN"}
    \/ RoleOf[s] \in QARole /\ (RoleOf[p] = "LECTURER" \/ on[p])
    \/ RoleOf[s] \notin QARole /\ IF RoleOf[p] = "DEAN" THEN Under(s, at[p]) ELSE Under(p, at[s])
\* An org role without a department or school reaches nobody, the offices too
HasScope(s) == RoleOf[s] \in OrgRole => at[s] # NoPlace
ResolveRecipients(s, role, target) ==
    {p \in Person : /\ RoleOf[p] = role /\ HasScope(s) /\ InReach(s, p)
                    /\ target \in {NoPlace, p}}
\* A coordinator's unit is bound and used for lecturers only
DanglingParams(s, role, target, unit) ==
    unit /\ RoleOf[s] = "COORDINATOR" /\ (role # "LECTURER" \/ target # NoPlace)

-----------------------------------------------------------------------------
(* SendAppNotification *)

AnySend(rs) == TRUE
\* NO_RECIPIENTS: nobody to send to is not a send
SomeoneToSendTo(rs) == rs # {}
SendAppNotification(s, role, target, unit) ==
    LET rs == ResolveRecipients(s, role, target) \ {s} IN
    /\ sending[s] = NotSending /\ Len(notes) + Len(messages) < MaxSent
    /\ role \in MayWriteTo(RoleOf[s]) /\ ~DanglingParams(s, role, target, unit)
    /\ SomeoneToSendTo(rs)
    /\ sending' = [sending EXCEPT ![s] = [busy |-> TRUE, to |-> rs]]
    /\ UNCHANGED <<at, on, copies, notes, messages, reads, moves>>
CommitNotification(s) ==
    LET n == Len(notes) + 1
        new == {<<n, p>> : p \in sending[s].to} IN
    /\ sending[s].busy /\ n + Len(messages) <= MaxSent
    /\ notes' = Append(notes, [from |-> s, to |-> sending[s].to])
    /\ copies' = [x \in DOMAIN copies \cup new |-> IF x \in new THEN Fresh ELSE copies[x]]
    /\ sending' = [sending EXCEPT ![s] = NotSending]
    /\ UNCHANGED <<at, on, messages, reads, moves>>

Latest(ns) == {n \in ns : Cardinality({m \in ns : m > n}) < ListLimit}
CopiesOf(p) == {n \in 1 .. Len(notes) : <<n, p>> \in DOMAIN copies}
InboxOf(p) == {n \in CopiesOf(p) : ~copies[<<n, p>>].gone}
ListAppNotifications(p) == Latest(InboxOf(p))
CountDismissed(p) == Cardinality({n \in CopiesOf(p) : ~copies[<<n, p>>].read})
UnreadAppNotificationCount(p) == Cardinality({n \in InboxOf(p) : ~copies[<<n, p>>].read})

MarkAppNotificationRead(n, p) ==
    /\ n \in CopiesOf(p) /\ ~copies[<<n, p>>].read
    /\ copies' = [copies EXCEPT ![<<n, p>>].read = TRUE]
    /\ UNCHANGED <<at, on, sending, notes, messages, reads, moves>>
OwnCopy(n, p) == {<<n, p>>}
DismissAppNotification(n, p) ==
    /\ n \in CopiesOf(p)
    /\ copies' = [x \in DOMAIN copies |-> IF x \in OwnCopy(n, p) THEN [copies[x] EXCEPT !.gone = TRUE] ELSE copies[x]]
    /\ UNCHANGED <<at, on, sending, notes, messages, reads, moves>>

-----------------------------------------------------------------------------
(* QA messages *)

\* QAAudiences: the places the director is offered
QAAudiences == {at[p] : p \in {q \in Person : RoleOf[q] \in FieldRole}} \ {NoPlace}
\* The director names some of them or everyone; what a field role writes goes to the director
SendQAMessage(s, to) ==
    /\ Len(notes) + Len(messages) < MaxSent
    /\ IF RoleOf[s] = "DQA_DIRECTOR" THEN to # {} /\ "DQA" \notin to ELSE RoleOf[s] \in FieldRole /\ to = {"DQA"}
    /\ messages' = Append(messages, [from |-> s, to |-> to])
    /\ UNCHANGED <<at, on, sending, copies, notes, reads, moves>>
IsFor(m, p) ==
    \/ RoleOf[p] = "DQA_DIRECTOR" /\ "DQA" \in messages[m].to
    \/ RoleOf[p] \in FieldRole /\ ("ALL_QA" \in messages[m].to \/ at[p] \in messages[m].to)
StateOf(m, p) == IF <<m, p>> \in DOMAIN reads THEN reads[<<m, p>>] ELSE Fresh
MessagesOf(p) == {m \in 1 .. Len(messages) : IsFor(m, p) /\ ~StateOf(m, p).gone}
ListQAMessages(p) == Latest(MessagesOf(p))
UnreadQAMessageCount(p) == Cardinality({m \in MessagesOf(p) : messages[m].from # p /\ ~StateOf(m, p).read})

PutRead(m, p, state) == reads' = [x \in DOMAIN reads \cup {<<m, p>>} |-> IF x = <<m, p>> THEN state ELSE reads[x]]
NewReadRow(state) == [Fresh EXCEPT !.read = TRUE]
\* ON CONFLICT only read_at is set
ReadRow(state) == [state EXCEPT !.read = TRUE]
MarkQAMessageRead(m, p) ==
    /\ m \in 1 .. Len(messages) /\ PutRead(m, p, ReadRow(StateOf(m, p)))
    /\ UNCHANGED <<at, on, sending, copies, notes, messages, moves>>
DismissQAMessage(m, p) ==
    /\ m \in 1 .. Len(messages) /\ PutRead(m, p, [read |-> TRUE, gone |-> TRUE])
    /\ UNCHANGED <<at, on, sending, copies, notes, messages, moves>>

-----------------------------------------------------------------------------
\* The administration moves a person, or closes or reopens the account
Move(p) ==
    /\ moves < MaxMoves /\ moves' = moves + 1
    /\ \/ \E x \in Place \cup {NoPlace} : at' = [at EXCEPT ![p] = x] /\ UNCHANGED on
       \/ on' = [on EXCEPT ![p] = ~@] /\ UNCHANGED at
    /\ UNCHANGED <<sending, copies, notes, messages, reads>>

NoticesNext ==
    \/ \E s \in Person : \/ \E role \in MayWriteTo(RoleOf[s]), target \in Person \cup {NoPlace}, unit \in BOOLEAN :
                                SendAppNotification(s, role, target, unit)
                         \/ CommitNotification(s)
                         \/ \E to \in {{"ALL_QA"}, {"DQA"}} \cup SUBSET QAAudiences : SendQAMessage(s, to)
    \/ \E p \in Mover : Move(p)
    \/ \E p \in Person : \/ \E n \in 1 .. Len(notes) : MarkAppNotificationRead(n, p) \/ DismissAppNotification(n, p)
                         \/ \E m \in 1 .. Len(messages) : /\ RoleOf[p] \in FieldRole \cup QARole
                                                          /\ MarkQAMessageRead(m, p) \/ DismissQAMessage(m, p)

NoticesSpec == NoticesInit /\ [][NoticesNext]_noticeVars

-----------------------------------------------------------------------------
\* What was sent has reached somebody, and never its sender (app_notifications.go: nobody to send to is not a send)
SentReachesSomeone ==
    \A n \in 1 .. Len(notes) : LET got == {p \in Person : n \in CopiesOf(p)} IN got # {} /\ notes[n].from \notin got

\* The badge counts what the inbox shows as unread, also after dismissals and after the reader has moved, as long
\* as the inbox is not longer than what is listed (app_notifications.go: gone from the inbox, gone from the badge)
BadgeMatchesInbox ==
    \A p \in Person :
        /\ Cardinality(InboxOf(p)) <= ListLimit =>
              UnreadAppNotificationCount(p) = Cardinality({n \in ListAppNotifications(p) : ~copies[<<n, p>>].read})
        /\ Cardinality(MessagesOf(p)) <= ListLimit =>
              UnreadQAMessageCount(p) = Cardinality({m \in ListQAMessages(p) : ~StateOf(m, p).read /\ messages[m].from # p})

\* What was sent arrived, and the badge says what the inbox shows.
InboxIsTrue == SentReachesSomeone /\ BadgeMatchesInbox

\* Whoever dismissed a message never gets it back: not by reading it late on a second device, and not by moving
\* out of its audience and in again (DismissQAMessage, MarkQAMessageRead)
DismissedStaysGone ==
    [][\A p \in Person :
          /\ \A n \in CopiesOf(p) : copies[<<n, p>>].gone => n \notin InboxOf(p)'
          /\ \A m \in 1 .. Len(messages) : StateOf(m, p).gone => m \notin MessagesOf(p)']_noticeVars

\* What the badge counts can be found in the inbox and opened
BadgeCanBeCleared ==
    \A p \in Person : UnreadAppNotificationCount(p) > 0 => \E n \in ListAppNotifications(p) : ~copies[<<n, p>>].read
=============================================================================
