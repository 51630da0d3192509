------------------------------ MODULE Accounts ------------------------------
(***************************************************************************)
(* Users, invites, sessions and what keeps a user from being deleted.      *)
(*                                                                         *)
(* A browser is at one step of one request at a time, a step being what    *)
(* pm-api does between two awaits; the installer calls bootstrap beside    *)
(* it.  The tables are those of schema.ts: sessions, passkeys and the      *)
(* invites somebody has made go with their user; an audit entry, or an     *)
(* invite somebody has used, keeps its user in place.                      *)
(***************************************************************************)
EXTENDS Naturals

CONSTANTS
    User,       \* ids of rows of users, the deleted ones included
    Email,      \* addresses
    Root,       \* the address of bootstrap's row
    Token,      \* invites
    Session,    \* session ids
    Browser,    \* browsers
    None,       \* no row, no session, no invite
    Gone,       \* in place of the address of a deleted user
    MaxAborts   \* bound on requests cut off between two awaits

ASSUME AbortsAssumption == MaxAborts \in Nat
ASSUME NamesAssumption ==
    /\ Root \in Email /\ None \notin Email /\ Gone \notin Email /\ None # Gone
    /\ None \notin User \cup Token \cup Session

VARIABLES
    email,      \* users.email, None before the row is inserted
    password,   \* users with a password and a TOTP secret
    passkey,    \* users with a row in webauthn_credentials
    invite,     \* the table of invites
    session,    \* sessions: the user, None when there is none or it has ended
    audited,    \* users named by an entry of the audit log
    browser,    \* what each browser is at, and its cookie
    boot,       \* POST /api/admin/bootstrap
    aborts,     \* requests cut off so far
    born,       \* history: the users each invite has made
    raced,      \* history: invites read by two enrollments at once
    lost,       \* history: users whose enrollment ended without a credential
    gaveUp      \* history: users who removed their only way in

tables == <<email, password, passkey, invite, session, audited>>
history == <<born, raced, lost, gaveUp>>
vars == <<tables, browser, boot, aborts, history>>

-----------------------------------------------------------------------------

Steps == {"away", "form", "insert", "credential", "session", "audit", "handler"}

Invite == [by : User \cup {None}, used : User \cup {None}, fresh : BOOLEAN]
NoInvite == [by |-> None, used |-> None, fresh |-> FALSE]

(* user and sess are the locals of the handler; cookie is pm_session; about *)
(* is the user whose deletion was asked for and, afterwards, reported.      *)
Client == [at : Steps, cookie : Session \cup {None}, sess : Session \cup {None},
           user : User \cup {None}, token : Token \cup {None},
           about : User \cup {None}]
NoClient == [at |-> "away", cookie |-> None, sess |-> None, user |-> None,
             token |-> None, about |-> None]
NoBoot == [at |-> "idle", user |-> None]

Exists(u) == email[u] \in Email
Taken(e) == \E u \in User : email[u] = e

KnowsPassword(u) == u \in password
KnowsPasskey(u) == u \in passkey
CanLogIn(u) == KnowsPassword(u) \/ KnowsPasskey(u)

(* A session that has neither been revoked nor expired. *)
Live(s) == s # None /\ session[s] # None
SignedIn(b) == Live(browser[b].cookie)

(* consumed_at is null and expires_at is not past. *)
Valid(t) == invite[t].by # None /\ invite[t].used = None /\ invite[t].fresh

(* Mutant: the key is ON DELETE SET NULL. *)
HoldsNobody(u) == FALSE

(* The foreign keys without ON DELETE: invites.consumed_by, audit_log. *)
HasUsedInvite(u) == \E t \in Token : invite[t].used = u
HasActed(u) == u \in audited
Deletable(u) == ~HasUsedInvite(u) /\ ~HasActed(u)

(* The others are ON DELETE CASCADE. *)
Cascade(u) ==
    /\ email' = [email EXCEPT ![u] = Gone]
    /\ password' = password \ {u} /\ passkey' = passkey \ {u}
    /\ session' = [s \in Session |-> IF session[s] = u THEN None ELSE session[s]]
    /\ invite' = [t \in Token |-> IF invite[t].by = u THEN NoInvite ELSE invite[t]]

At(b, step) == browser[b].at = step
Goto(b, step) == browser' = [browser EXCEPT ![b].at = step]

(* The reply of a handler that has ended, and the cookie it sets. *)
Reply(b, cookie) ==
    browser' = [browser EXCEPT ![b] =
                    [NoClient EXCEPT !.cookie = cookie, !.about = browser[b].about]]

(* An error: whoever tries again starts from the page. *)
Fails(b) == Reply(b, browser[b].cookie)

Init ==
    /\ email = [u \in User |-> None]
    /\ password = {} /\ passkey = {} /\ audited = {}
    /\ invite = [t \in Token |-> NoInvite]
    /\ session = [s \in Session |-> None]
    /\ browser = [b \in Browser |-> NoClient]
    /\ boot = NoBoot /\ aborts = 0
    /\ born = [t \in Token |-> {}]
    /\ raced = {} /\ lost = {} /\ gaveUp = {}

-----------------------------------------------------------------------------
(* The installer: POST /api/admin/bootstrap *)

BootRead ==
    /\ boot.at = "idle"
    /\ \A u \in User : ~Exists(u)
    /\ boot' = [boot EXCEPT !.at = "insert"]
    /\ UNCHANGED <<tables, browser, aborts, history>>

BootInsert(u) ==
    /\ boot.at = "insert" /\ email[u] = None /\ ~Taken(Root)
    /\ email' = [email EXCEPT ![u] = Root]
    /\ boot' = [at |-> "invite", user |-> u]
    /\ UNCHANGED <<password, passkey, invite, session, audited, browser, aborts, history>>

(* A token is not given out twice. *)
Unused(t) ==
    /\ invite[t].by = None /\ born[t] = {}
    /\ t \notin raced /\ \A b \in Browser : browser[b].token # t
NewInvite(t, u) ==
    /\ Unused(t) /\ Exists(u)
    /\ invite' = [invite EXCEPT ![t] = [by |-> u, used |-> None, fresh |-> TRUE]]

(* Mutant: the answer comes before the invite is stored. *)
BootInviteForgotten(t) ==
    /\ boot.at = "invite" /\ invite[t].by = None
    /\ boot' = NoBoot
    /\ UNCHANGED <<tables, browser, aborts, history>>

BootInvite(t) ==
    /\ boot.at = "invite" /\ NewInvite(t, boot.user)
    /\ boot' = NoBoot
    /\ UNCHANGED <<email, password, passkey, session, audited, browser, aborts, history>>

-----------------------------------------------------------------------------
(* Enrollment: the page /enroll/<token> and its two forms *)

OpenForm(b, t) ==
    /\ At(b, "away") /\ Valid(t)
    /\ browser' = [browser EXCEPT ![b].at = "form", ![b].token = t, ![b].about = None]
    /\ UNCHANGED <<tables, boot, aborts, history>>

(* The passkey tab and the password tab send the same: token and address. *)
AtForm(b) == At(b, "form")

CloseForm(b) ==
    /\ AtForm(b)
    /\ Reply(b, browser[b].cookie)
    /\ UNCHANGED <<tables, boot, aborts, history>>

Reading(t) == \E c \in Browser : At(c, "insert") /\ browser[c].token = t
BeginConsume(b, t) ==
    /\ Goto(b, "insert")
    /\ raced' = IF Reading(t) THEN raced \cup {t} ELSE raced
    /\ UNCHANGED <<tables, boot, aborts, born, lost, gaveUp>>

(* Mutant: the select forgets consumed_at. *)
ReadInviteAgain(b) ==
    LET t == browser[b].token IN
    AtForm(b) /\ invite[t].by # None /\ invite[t].fresh /\ BeginConsume(b, t)

(* InviteService.consume: the transaction begins and reads the invite. *)
ReadInvite(b) ==
    LET t == browser[b].token IN AtForm(b) /\ Valid(t) /\ BeginConsume(b, t)

InviteRefused(b) ==
    /\ AtForm(b) /\ ~Valid(browser[b].token)
    /\ Fails(b)
    /\ UNCHANGED <<tables, boot, aborts, history>>

(* consume goes on: it commits unless the address is taken.  The update of *)
(* the invite goes by its hash alone.                                      *)
Consume(b, u, e) ==
    LET t == browser[b].token IN
    /\ At(b, "insert") /\ email[u] = None /\ ~Taken(e)
    /\ email' = [email EXCEPT ![u] = e]
    /\ invite' = IF invite[t].by = None THEN invite
                 ELSE [invite EXCEPT ![t].used = u]
    /\ browser' = [browser EXCEPT ![b].at = "credential", ![b].user = u]
    /\ born' = [born EXCEPT ![t] = @ \cup {u}]
    /\ UNCHANGED <<password, passkey, session, audited, boot, aborts, raced, lost, gaveUp>>

AddressTaken(b, e) ==
    /\ At(b, "insert") /\ Taken(e)
    /\ Fails(b)
    /\ UNCHANGED <<tables, boot, aborts, history>>

(* The second statement of password/enroll. *)
StorePassword(b) ==
    /\ At(b, "credential") /\ Exists(browser[b].user)
    /\ password' = password \cup {browser[b].user}
    /\ Goto(b, "session")
    /\ UNCHANGED <<email, passkey, invite, session, audited, boot, aborts, history>>

(* finishRegistration succeeds and the passkey is inserted. *)
StorePasskey(b) ==
    /\ At(b, "credential") /\ Exists(browser[b].user)
    /\ passkey' = passkey \cup {browser[b].user}
    /\ Goto(b, "session")
    /\ UNCHANGED <<email, password, invite, session, audited, boot, aborts, history>>

(* Mutant: the handler goes on without a registration. *)
NotVerifiedGoesOn(b) ==
    /\ At(b, "credential")
    /\ Goto(b, "session")
    /\ UNCHANGED <<tables, boot, aborts, history>>

(* It throws, after the invite was used. *)
NotVerified(b) ==
    /\ At(b, "credential")
    /\ Fails(b)
    /\ lost' = lost \cup {browser[b].user}
    /\ UNCHANGED <<tables, boot, aborts, born, raced, gaveUp>>

(* SessionManager.create.  An id is not given out twice. *)
NewSession(b, s) ==
    /\ At(b, "session") /\ Exists(browser[b].user)
    /\ session[s] = None /\ \A c \in Browser : s \notin {browser[c].cookie, browser[c].sess}
    /\ session' = [session EXCEPT ![s] = browser[b].user]
    /\ browser' = [browser EXCEPT ![b].at = "audit", ![b].sess = s]
    /\ UNCHANGED <<email, password, passkey, invite, audited, boot, aborts, history>>

(* The last await of every handler, AuditLog.write, and its reply. *)
WriteAudit(b) ==
    /\ At(b, "audit") /\ Exists(browser[b].user)
    /\ audited' = audited \cup {browser[b].user}
    /\ Reply(b, browser[b].sess)
    /\ UNCHANGED <<email, password, passkey, invite, session, boot, aborts, history>>

-----------------------------------------------------------------------------
(* Logging in, and what a session allows *)

(* The login page sends a browser with a session on to the applications. *)
AtLogin(b) == At(b, "away") /\ ~SignedIn(b)
BeginSession(b, u) ==
    /\ browser' = [browser EXCEPT ![b].at = "session", ![b].user = u, ![b].about = None]
    /\ UNCHANGED <<tables, boot, aborts, history>>

PasswordLogIn(b, u) == AtLogin(b) /\ KnowsPassword(u) /\ BeginSession(b, u)
PasskeyLogIn(b, u) == AtLogin(b) /\ KnowsPasskey(u) /\ BeginSession(b, u)

(* A wrong password or code, which is an entry in the user's name. *)
LoginFails(u) ==
    /\ KnowsPassword(u)
    /\ audited' = audited \cup {u}
    /\ UNCHANGED <<email, password, passkey, invite, session, browser, boot, aborts,
                   history>>

(* requireAuth; the handler goes on with the user that lookup has found. *)
Authenticate(b) ==
    LET c == browser[b].cookie IN
    /\ At(b, "away") /\ SignedIn(b)
    /\ browser' = [browser EXCEPT ![b].at = "handler", ![b].sess = c,
                                  ![b].user = session[c], ![b].about = None]
    /\ UNCHANGED <<tables, boot, aborts, history>>

(* The panel of invites, which every user has. *)
AtInvites(b) == At(b, "handler")
CreateInvite(b, t) ==
    /\ AtInvites(b) /\ NewInvite(t, browser[b].user)
    /\ Goto(b, "audit")
    /\ UNCHANGED <<email, password, passkey, session, audited, boot, aborts, history>>

(* The list offers every user but oneself. *)
Offered(b, v) == At(b, "handler") /\ email[v] # None /\ v # browser[b].user

AskDelete(b, v, step) ==
    browser' = [browser EXCEPT ![b].at = step, ![b].about = v]

DeleteUser(b, v) ==
    /\ Offered(b, v) /\ Exists(v) /\ Deletable(v)
    /\ Cascade(v) /\ AskDelete(b, v, "audit")
    /\ UNCHANGED <<audited, boot, aborts, history>>

(* The row is gone already, or the database refuses.  deleteUserAction    *)
(* returns the error; what it does not throw is "User deleted".           *)
DeleteRefused(b, v) ==
    /\ Offered(b, v) /\ ~(Exists(v) /\ Deletable(v))
    /\ browser' = [browser EXCEPT ![b] =
                       [NoClient EXCEPT !.cookie = browser[b].cookie, !.about = v]]
    /\ UNCHANGED <<tables, boot, aborts, history>>

HasPasskey(b) == KnowsPasskey(browser[b].user)
RemovePasskey(b) ==
    LET u == browser[b].user IN
    /\ At(b, "handler") /\ HasPasskey(b)
    /\ passkey' = passkey \ {u}
    /\ gaveUp' = IF KnowsPassword(u) THEN gaveUp ELSE gaveUp \cup {u}
    /\ Goto(b, "audit")
    /\ UNCHANGED <<email, password, invite, session, audited, boot, aborts, born, raced,
                   lost>>

(* The form is there as long as the user has no password. *)
PasswordForm(b) == At(b, "handler") /\ ~KnowsPassword(browser[b].user)
SetUpPassword(b) ==
    /\ PasswordForm(b) /\ Exists(browser[b].user)
    /\ password' = password \cup {browser[b].user}
    /\ Goto(b, "audit")
    /\ UNCHANGED <<email, passkey, invite, session, audited, boot, aborts, history>>

Revoke(s) == session' = [session EXCEPT ![s] = None]

LogOut(b) ==
    /\ At(b, "handler")
    /\ Revoke(browser[b].cookie)
    /\ browser' = [browser EXCEPT ![b].at = "audit", ![b].sess = None]
    /\ UNCHANGED <<email, password, passkey, invite, audited, boot, aborts, history>>

-----------------------------------------------------------------------------
(* Time, and requests that do not reach their end *)

InviteExpires(t) ==
    /\ Valid(t)
    /\ invite' = [invite EXCEPT ![t].fresh = FALSE]
    /\ UNCHANGED <<email, password, passkey, session, audited, browser, boot, aborts,
                   history>>

SessionExpires(s) ==
    /\ session[s] # None
    /\ Revoke(s)
    /\ UNCHANGED <<email, password, passkey, invite, audited, browser, boot, aborts,
                   history>>

(* What the request is about has gone since: 404, or a foreign key. *)
Refused(b) ==
    LET u == browser[b].user IN
    /\ u # None
    /\ \/ ~Exists(u)
       \/ At(b, "handler") /\ ~HasPasskey(b)
    /\ Reply(b, browser[b].cookie)
    /\ UNCHANGED <<tables, boot, aborts, history>>

(* pm-api or the database goes away between two awaits. *)
Abort(b) ==
    /\ aborts < MaxAborts /\ browser[b].at \notin {"away", "form"}
    /\ aborts' = aborts + 1
    /\ Fails(b)
    /\ lost' = IF At(b, "credential") THEN lost \cup {browser[b].user} ELSE lost
    /\ UNCHANGED <<tables, boot, born, raced, gaveUp>>

BootAbort ==
    /\ aborts < MaxAborts /\ boot.at # "idle"
    /\ aborts' = aborts + 1 /\ boot' = NoBoot
    /\ UNCHANGED <<tables, browser, history>>

-----------------------------------------------------------------------------

Enroll(b) ==
    \/ \E t \in Token : OpenForm(b, t)
    \/ \E e \in Email : AddressTaken(b, e) \/ \E u \in User : Consume(b, u, e)
    \/ CloseForm(b) \/ ReadInvite(b) \/ InviteRefused(b)
    \/ StorePassword(b) \/ StorePasskey(b) \/ NotVerified(b)

Act(b) ==
    \/ Authenticate(b)
    \/ \E t \in Token : CreateInvite(b, t)
    \/ \E v \in User : DeleteUser(b, v) \/ DeleteRefused(b, v)
    \/ RemovePasskey(b) \/ SetUpPassword(b) \/ LogOut(b)

Next ==
    \/ BootRead \/ BootAbort
    \/ \E u \in User : BootInsert(u) \/ LoginFails(u)
    \/ \E t \in Token : BootInvite(t) \/ InviteExpires(t)
    \/ \E s \in Session : SessionExpires(s)
    \/ \E b \in Browser :
        \/ Enroll(b) \/ Act(b)
        \/ \E s \in Session : NewSession(b, s)
        \/ \E u \in User : PasswordLogIn(b, u) \/ PasskeyLogIn(b, u)
        \/ WriteAudit(b) \/ Refused(b) \/ Abort(b)

Spec == Init /\ [][Next]_vars

-----------------------------------------------------------------------------
(* Properties *)

(* Rows, invites, sessions and requests have their types, and no row names  *)
(* a user that is gone (schema.ts: the foreign keys).                      *)
TypeOK ==
    /\ email \in [User -> Email \cup {None, Gone}]
    /\ invite \in [Token -> Invite]
    /\ session \in [Session -> User \cup {None}]
    /\ password \cup passkey \subseteq {u \in User : Exists(u)}
    /\ \A t \in Token : {invite[t].by, invite[t].used} \subseteq
                            {u \in User : Exists(u)} \cup {None}
    /\ \A s \in Session : session[s] # None => Exists(session[s])
    /\ browser \in [Browser -> Client]
    /\ boot \in [at : {"idle", "insert", "invite"}, user : User \cup {None}]
    /\ aborts \in Nat
    /\ born \in [Token -> SUBSET User] /\ raced \subseteq Token
    /\ audited \cup lost \cup gaveUp \subseteq User

(* An invite makes a second user only if two enrollments had read it before *)
(* either wrote (invites.ts:25 locks nothing); otherwise it is single-use.  *)
OneUserPerInvite ==
    \A t \in Token : t \notin raced => \A u, v \in born[t] : u = v

(* A user without a password and without a passkey is bootstrap's row, is   *)
(* being enrolled, was left behind by an enrollment that failed after it    *)
(* had used the invite, or has removed the last passkey.                   *)
EveryUserHasWayIn ==
    \A u \in User : Exists(u) /\ ~CanLogIn(u) =>
        \/ email[u] = Root \/ u \in lost \cup gaveUp
        \/ \E b \in Browser : At(b, "credential") /\ browser[b].user = u

(* Who has ever acted, the first admin among them, can go on logging in:    *)
(* no deletion by another, also two at once, takes that away, only removing *)
(* one's own last passkey does.                                            *)
AdminsStay == \A u \in audited : Exists(u) /\ (CanLogIn(u) \/ u \in gaveUp)

(* Until somebody is in, there is a way in: bootstrap can be called or is   *)
(* running, an invite is good or in use, unless an invite ran out, a        *)
(* request was cut off or an enrollment failed.                            *)
WayToBegin ==
    \/ audited # {} \/ boot.at # "idle" \/ \A u \in User : ~Exists(u)
    \/ \E t \in Token : Valid(t) \/ (invite[t].by # None /\ ~invite[t].fresh)
    \/ \E b \in Browser : browser[b].at \in {"credential", "session", "audit"}
    \/ aborts > 0 \/ lost # {}

-----------------------------------------------------------------------------
(* What is promised and not kept.                                          *)

(* action-result.ts:18, users-list.tsx:21: an action that is refused throws, *)
(* so that "User deleted" is said of a user who is.                        *)
ToldIsDeleted ==
    \A b \in Browser : At(b, "away") /\ browser[b].about # None
                            => ~Exists(browser[b].about)
=============================================================================
