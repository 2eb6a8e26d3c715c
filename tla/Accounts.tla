------------------------------- MODULE Accounts -------------------------------
(***************************************************************************)
(* Accounts, logins and tokens: the auth service's handlers over one row   *)
(* of users, its token blacklist, and the gateway handlers that call them  *)
(* (app login, standby login, account administration, JWT middleware).     *)
(* Rows of different people never meet, so a behaviour follows one account *)
(* of any role.  A handler that reads the row and writes it in a later     *)
(* statement is two steps.  A password is its version number, 0 the seeded *)
(* default and Variant the same default in the other casing; an HTTP error *)
(* that changes nothing is a stutter.  Time is in seconds.                 *)
(***************************************************************************)
EXTENDS Integers, FiniteSets

CONSTANTS Req,        \* requests in flight
          FailLimit,  \* 5
          LockTime,   \* 15 minutes
          TokenTTL,   \* the configured token life
          DayEnd,     \* 23:59:59, when standbys expire
          LastTick,   \* bound: how long the clock runs
          MaxPw,      \* bound: password changes
          MaxToken,   \* bound: tokens issued
          MaxKey      \* bound: binding keys generated

ASSUME AccountsAssumption ==
    /\ {FailLimit, LockTime, TokenTTL, LastTick, MaxPw, MaxToken, MaxKey} \subseteq Nat \ {0}
    /\ IsFiniteSet(Req) /\ Req # {} /\ DayEnd \in Nat

VARIABLES acct,      \* the users row, or Gone
          pending,       \* what each request has read so far
          token,     \* tokens issued: expiry and the password they were issued under
          blacklist, \* Redis: until when each jti is refused
          standby,   \* the coordinator's standby code
          keysOut,   \* device binding keys a phone was given, in order of generation
          spill,     \* history: failures recorded while the lock was in force
          disableMFA, \* the auth service's setting
          tick

accountVars == <<acct, pending, token, blacklist, standby, keysOut, spill, disableMFA, tick>>

Role == {"STUDENT", "COORDINATOR", "LECTURER", "DQA"}
Gone == [role |-> "none"]      \* deleted; a row made later is another account
Unborn == [role |-> "not yet"]
NoRow == {Gone, Unborn}
Variant == -1
None == -2
Free == [pc |-> "free"]

-----------------------------------------------------------------------------
Row(role) == [role |-> role, active |-> TRUE, pw |-> 0, force |-> TRUE, failed |-> 0,
              lockedUntil |-> 0, totp |-> None, totpOn |-> FALSE, key |-> 0]

\* IsLocked and lockoutApplies: only students are locked out
IsLockedNever(u) == FALSE
IsLocked(u) == u.role = "STUDENT" /\ tick < u.lockedUntil

\* MFARequired
MFARequired(u) == u.role = "DQA"


\* bcrypt, and matchesSeededDefault: the other casing of an untouched default
MatchesSeededDefault(u, typed) == u.force /\ u.pw = 0 /\ typed \in {0, Variant}
PasswordOK(u, typed) == typed = u.pw \/ MatchesSeededDefault(u, typed)

\* DecryptSecret: the TOTP secret is sealed under the password hash of its enrolment
TOTPOpens(u) == u.totp = u.pw
MFAMissing(u) == MFARequired(u) /\ ~disableMFA /\ ~(u.totpOn /\ TOTPOpens(u))

\* RecordLoginFailure, RecordLoginSuccess, UpdatePassword: one UPDATE each
LockedTooSoon(u) == [u EXCEPT !.failed = @ + 1,
    !.lockedUntil = IF u.failed + 2 >= FailLimit THEN tick + LockTime ELSE @]
RecordLoginFailure(u) == [u EXCEPT !.failed = @ + 1,
    !.lockedUntil = IF u.failed + 1 >= FailLimit THEN tick + LockTime ELSE @]
RecordLoginSuccess(u) == [u EXCEPT !.failed = 0, !.lockedUntil = 0]
UpdatePassword(u, pw) == [u EXCEPT !.pw = pw, !.failed = 0, !.lockedUntil = 0, !.force = FALSE]

\* IssueWithTTL: a life of nothing, or a longer one, becomes the configured life
TTL(ttl) == IF ttl <= 0 \/ ttl > TokenTTL THEN TokenTTL ELSE ttl
Issue(ttl) == token' = token \cup
    {[id |-> Cardinality(token) + 1, exp |-> tick + TTL(ttl)]}
CanIssue == Cardinality(token) < MaxToken

\* Parse: signature and expiry; IsBlacklisted: the key is still in Redis
Parse(t) == tick < t.exp
BlacklistedTooShort(t) == \E b \in blacklist : b.id = t.id /\ tick + 1 < b.until
IsBlacklisted(t) == \E b \in blacklist : b.id = t.id /\ tick < b.until

\* JWTAuth: what the gateway lets in
Admitted(t) == Parse(t) /\ ~IsBlacklisted(t)

\* Blacklist: for as long as the token would live; a Redis error is not looked at
Blacklist(t) == \/ blacklist' = blacklist \cup {[id |-> t.id, until |-> t.exp]}
                \/ blacklist' = blacklist

-----------------------------------------------------------------------------
AccountsInit ==
    /\ acct = Unborn \/ \E role \in Role : acct = Row(role)
    /\ pending = [r \in Req |-> Free]
    /\ token = {} /\ blacklist = {} /\ keysOut = {}
    /\ standby = [made |-> FALSE, revoked |-> FALSE]
    /\ spill = 0 /\ disableMFA = TRUE /\ tick = 0

StartReq(r, rec) == pending[r] = Free /\ pending' = [pending EXCEPT ![r] = rec]
EndReq(r) == pending' = [pending EXCEPT ![r] = Free]
rowOnly == UNCHANGED <<token, blacklist, standby, keysOut, spill, disableMFA, tick>>

\* Login up to the password check, over the row as read: inactive and locked accounts
\* are refused; MFA where the role needs it
LoginOutcome(u, typed) ==
    CASE ~PasswordOK(u, typed) -> "wrong"
      [] PasswordOK(u, typed) /\ MFAMissing(u) -> "no mfa"
      [] OTHER -> "right"
LoginBegin(r, typed) ==
    /\ acct \notin NoRow /\ acct.active /\ ~IsLocked(acct)
    /\ LoginOutcome(acct, typed) # "no mfa"
    /\ StartReq(r, [pc |-> LoginOutcome(acct, typed), role |-> acct.role, key |-> acct.key])
    /\ UNCHANGED acct /\ rowOnly

\* A wrong password is recorded against a student
LoginWrong(r) ==
    /\ pending[r].pc = "wrong"
    /\ acct' = IF acct \notin NoRow /\ pending[r].role = "STUDENT" THEN RecordLoginFailure(acct) ELSE acct
    /\ spill' = IF acct \notin NoRow /\ tick < acct.lockedUntil THEN spill + 1 ELSE 0
    /\ EndReq(r)
    /\ UNCHANGED <<token, blacklist, standby, keysOut, disableMFA, tick>>

\* A right one: a token, then the counters reset
LoginRight(r) ==
    /\ pending[r].pc = "right"
    /\ CanIssue /\ Issue(TokenTTL)
    /\ acct' = IF acct \in NoRow THEN acct ELSE RecordLoginSuccess(acct)
    /\ IF pending[r].role = "COORDINATOR" THEN pending' = [pending EXCEPT ![r].pc = "key"] ELSE EndReq(r)
    /\ UNCHANGED <<blacklist, standby, keysOut, spill, disableMFA, tick>>

\* resolveBindingKey: the key of the row as read, or a new one
ResolveBindingKey(r) ==
    LET new == Cardinality(keysOut) + 1 IN
    /\ pending[r].pc = "key"
    /\ IF pending[r].key # 0 THEN UNCHANGED <<acct, keysOut>>
       ELSE /\ new <= MaxKey
            /\ acct' = IF acct \in NoRow THEN acct ELSE [acct EXCEPT !.key = new]
            /\ keysOut' = keysOut \cup {new}
    /\ EndReq(r)
    /\ UNCHANGED <<token, blacklist, standby, spill, disableMFA, tick>>

\* ChangePassword: any unexpired token and the current password
ChangePasswordBegin(r, t, typed) ==
    /\ Parse(t) /\ acct \notin NoRow /\ PasswordOK(acct, typed) /\ acct.pw < MaxPw
    /\ StartReq(r, [pc |-> "password", pw |-> acct.pw])
    /\ UNCHANGED acct /\ rowOnly
ChangePassword(r) ==
    /\ pending[r].pc = "password"
    /\ acct' = IF acct \in NoRow THEN acct ELSE UpdatePassword(acct, pending[r].pw + 1)
    /\ EndReq(r) /\ rowOnly

\* Refresh: the old jti is refused from now on, a full-length token replaces it
RefreshBegin(r, t) ==
    /\ Parse(t) /\ ~IsBlacklisted(t)
    /\ StartReq(r, [pc |-> "refresh", token |-> t])
    /\ UNCHANGED acct /\ rowOnly
Refresh(r) ==
    /\ pending[r].pc = "refresh" /\ CanIssue
    /\ Blacklist(pending[r].token) /\ Issue(TokenTTL)
    /\ EndReq(r) /\ UNCHANGED <<acct, standby, keysOut, spill, disableMFA, tick>>

\* Logout: an expired token has nothing to revoke
Logout(t) ==
    /\ Parse(t) /\ Blacklist(t)
    /\ UNCHANGED <<acct, pending, token, standby, keysOut, spill, disableMFA, tick>>

\* EnrollMFA: refused once enabled; VerifyMFA: a code of a secret that still opens.  Only
\* the roles that need MFA ever look at what these write.
EnrollMFA(t) ==
    /\ Parse(t) /\ MFARequired(acct) /\ ~acct.totpOn
    /\ acct' = [acct EXCEPT !.totp = acct.pw]
    /\ UNCHANGED pending /\ rowOnly
VerifyMFA(t) ==
    /\ Parse(t) /\ MFARequired(acct) /\ acct.totp # None /\ TOTPOpens(acct)
    /\ acct' = [acct EXCEPT !.totpOn = TRUE]
    /\ UNCHANGED pending /\ rowOnly

\* IssueLecturerToken, IssueStudentToken, IssueCoordinatorToken: asked for by the gateway
\* for an active account of the role
InternalToken(role, ttl) ==
    /\ acct.role = role /\ acct.active /\ CanIssue /\ Issue(ttl)
    /\ UNCHANGED <<acct, pending, blacklist, standby, keysOut, spill, disableMFA, tick>>
IssueLecturerToken == InternalToken("LECTURER", TokenTTL)
IssueStudentToken == InternalToken("STUDENT", TokenTTL)
IssueCoordinatorToken(ttl) == InternalToken("COORDINATOR", ttl)

\* CreateCoordinatorStandby, RevokeCoordinatorStandby
CreateStandby(t) ==
    /\ acct.role = "COORDINATOR" /\ Admitted(t) /\ tick < DayEnd
    /\ standby' = [made |-> TRUE, revoked |-> FALSE]
    /\ UNCHANGED <<acct, pending, token, blacklist, keysOut, spill, disableMFA, tick>>
RevokeStandby(t) ==
    /\ Admitted(t) /\ standby.made
    /\ standby' = [standby EXCEPT !.revoked = TRUE]
    /\ UNCHANGED <<acct, pending, token, blacklist, keysOut, spill, disableMFA, tick>>

\* CoordinatorStandbyLogin: a coordinator token for the whole seconds left of the day
StandbyLogin ==
    /\ standby.made /\ ~standby.revoked /\ tick < DayEnd
    /\ IssueCoordinatorToken(DayEnd - tick - 1)

\* SetUserStatus, DeleteUser, and the lazily created row of ensureStudentLogin and
\* ensureLecturerLogin
SetUserStatus(on) ==
    /\ acct \notin NoRow /\ acct.active # on
    /\ acct' = [acct EXCEPT !.active = on] /\ UNCHANGED pending /\ rowOnly
DeleteUser ==
    /\ acct \notin NoRow /\ acct' = Gone /\ UNCHANGED pending /\ rowOnly
EnsureLogin(role) ==
    /\ acct = Unborn /\ acct' = Row(role) /\ UNCHANGED pending /\ rowOnly

\* The auth service is restarted with the other MFA setting
Redeploy ==
    /\ MFARequired(acct) /\ disableMFA' = ~disableMFA
    /\ UNCHANGED <<acct, pending, token, blacklist, standby, keysOut, spill, tick>>

Second ==
    /\ tick < LastTick /\ tick' = tick + 1
    /\ UNCHANGED <<acct, pending, token, blacklist, standby, keysOut, spill, disableMFA>>

RequestStep(r) ==
    \/ \E typed \in Variant..MaxPw : LoginBegin(r, typed)
    \/ LoginWrong(r) \/ LoginRight(r) \/ ResolveBindingKey(r)
    \/ \E t \in token, typed \in Variant..MaxPw : ChangePasswordBegin(r, t, typed)
    \/ ChangePassword(r)
    \/ \E t \in token : RefreshBegin(r, t)
    \/ Refresh(r)

AccountsNext ==
    \/ \E r \in Req : RequestStep(r)
    \/ \E t \in token : \/ Logout(t) \/ EnrollMFA(t) \/ VerifyMFA(t)
                        \/ CreateStandby(t) \/ RevokeStandby(t)
    \/ IssueLecturerToken \/ IssueStudentToken \/ StandbyLogin \/ Redeploy \/ Second
    \/ \E on \in BOOLEAN : SetUserStatus(on)
    \/ DeleteUser \/ \E role \in {"STUDENT", "LECTURER"} : EnsureLogin(role)

AccountsSpec == AccountsInit /\ [][AccountsNext]_accountVars

-----------------------------------------------------------------------------
\* The requests past the lock check when a student's account locks are the only ones
\* whose failures are still recorded: the lock lets at most that many guesses through.
LockHoldsOffGuesses == spill < Cardinality(Req)

\* A locked student has used up the allowance: nothing but counted failures locks an
\* account, whatever logins, password changes and failures overlap.
LockIsEarned == (acct \notin NoRow /\ acct.lockedUntil > tick) => acct.failed >= FailLimit

\* The lock takes hold when the allowance is used up, neither sooner nor later.
LockIsExact == LockHoldsOffGuesses /\ LockIsEarned

\* A token the gateway once turned away, as expired or as revoked, is never let in again:
\* the entry in Redis outlives the token it revokes.
RefusedStaysRefused ==
    [][\A t \in token : ~Admitted(t) => ~Admitted(t)']_accountVars

\* A coordinator has one binding key: "Issue one on first login and persist it", so that
\* what any of their phones sealed can be opened on upload.
KeyIsStable == Cardinality(keysOut) <= 1
=============================================================================
