--------------------------- MODULE AccountsProofs ---------------------------
(***************************************************************************)
(* What the tables of users, invites and sessions keep, for any number of  *)
(* browsers, users, invites, sessions and requests cut off.                *)
(*                                                                         *)
(* The invariant ties what a request holds to the tables it has left: its  *)
(* user was inserted before and, once it is past the credential, can log   *)
(* in or has given that up; and nobody has a cookie before the first       *)
(* entry of the audit log, which is why no user is deleted before it.      *)
(***************************************************************************)
EXTENDS Accounts, TLAPS

Working == {"credential", "session", "audit"}
Able(u) == CanLogIn(u) \/ u \in gaveUp

(* A browser, whose user may have been deleted since. *)
ClientInv(c) ==
    /\ c.at \in {"form", "insert"} => c.token \in Token
    /\ c.at \in Working \cup {"handler"} => c.user \in User /\ email[c.user] # None
    /\ c.at \in {"session", "audit", "handler"} /\ Exists(c.user) => Able(c.user)
    /\ audited = {} => c.cookie = None /\ c.at # "handler"

(* An invite that has made a user is marked; of those who have read it one *)
(* alone is left as long as it was not raced.                              *)
Inserting(b, t) == At(b, "insert") /\ browser[b].token = t
InviteInv(t) ==
    /\ born[t] # {} /\ invite[t].by # None => invite[t].used # None
    /\ t \notin raced =>
          \A b \in Browser : Inserting(b, t) =>
              born[t] = {} /\ \A c \in Browser : Inserting(c, t) => b = c

AccountsInv ==
    /\ TypeOK
    /\ boot.at = "invite" => boot.user \in User
    /\ \A b \in Browser : ClientInv(browser[b])
    /\ \A s \in Session : session[s] # None => Able(session[s])
    /\ \A t \in Token : InviteInv(t)
    /\ audited = {} => \A u \in User : email[u] # Gone
    /\ OneUserPerInvite /\ EveryUserHasWayIn /\ AdminsStay /\ WayToBegin

-----------------------------------------------------------------------------
(* Lemmas: what a step has to leave alone, part by part *)

(* Nobody who stays loses a way in without giving it up. *)
Kept ==
    /\ audited \subseteq audited'
    /\ \A u \in User : /\ email[u] # None => email'[u] # None
                       /\ email[u] # None /\ Exists(u)' => Exists(u)
                       /\ Exists(u)' /\ Able(u) => Able(u)'

(* Who is left alone keeps what they had.                                  *)
LEMMA KeptWhenSame ==
    ASSUME UNCHANGED <<email, password, passkey, gaveUp>>, audited \subseteq audited'
    PROVE  Kept
  BY DEF Kept, Exists, Able, CanLogIn, KnowsPassword, KnowsPasskey

(* A step that takes no way in from anybody need only look at the browsers *)
(* it changes.                                                             *)
LEMMA ClientsStep ==
    ASSUME AccountsInv, Kept,
           \A d \in Browser : browser'[d] = browser[d] \/ ClientInv(browser[d])'
    PROVE  \A d \in Browser : ClientInv(browser[d])'
  <1>1. ASSUME NEW d \in Browser, browser'[d] = browser[d] PROVE ClientInv(browser[d])'
    <2>1. ClientInv(browser[d])
      BY DEF AccountsInv
    <2> QED
      BY <1>1, <2>1 DEF ClientInv, Kept, Working
  <1> QED
    BY <1>1

(* Invites stay used, and single-use, if a step adds no one who has read   *)
(* them and takes back no mark.                                            *)
LEMMA InvitesStep ==
    ASSUME AccountsInv, born' = born, raced \subseteq raced',
           \A t \in Token : invite'[t].by # None =>
               (invite[t].by # None /\ invite'[t].used = invite[t].used) \/ born[t] = {},
           \A d \in Browser : At(d, "insert")' => browser'[d] = browser[d]
    PROVE  (\A t \in Token : InviteInv(t))' /\ OneUserPerInvite'
  <1>1. OneUserPerInvite'
    BY DEF AccountsInv, OneUserPerInvite
  <1>2. \A d \in Browser, t \in Token : Inserting(d, t)' => Inserting(d, t)
    BY DEF Inserting, At
  <1>3. ASSUME NEW t \in Token PROVE InviteInv(t)'
    <2>1. InviteInv(t)
      BY DEF AccountsInv
    <2> QED
      BY <1>2, <2>1 DEF InviteInv
  <1> QED
    BY <1>1, <1>3

(* A user without a way in was one before, or this step says why.          *)
LEMMA WaysInStep ==
    ASSUME AccountsInv, lost \subseteq lost', gaveUp \subseteq gaveUp',
           \A u \in User : Exists(u)' /\ ~CanLogIn(u)' =>
               \/ Exists(u) /\ ~CanLogIn(u) /\ email'[u] = email[u]
               \/ email'[u] = Root \/ u \in lost' \cup gaveUp'
               \/ \E d \in Browser : At(d, "credential")' /\ browser'[d].user = u,
           \A d \in Browser, u \in User : At(d, "credential") /\ browser[d].user = u =>
               \/ browser'[d] = browser[d] \/ u \in lost'
               \/ CanLogIn(u)' \/ ~Exists(u)
    PROVE  EveryUserHasWayIn'
  <1> SUFFICES ASSUME NEW u \in User, Exists(u)', ~CanLogIn(u)',
                      email'[u] # Root, u \notin lost' \cup gaveUp'
               PROVE  \E b \in Browser : At(b, "credential")' /\ browser'[b].user = u
    BY DEF EveryUserHasWayIn
  <1>1. CASE \E d \in Browser : At(d, "credential")' /\ browser'[d].user = u
    BY <1>1
  <1>2. CASE Exists(u) /\ ~CanLogIn(u) /\ email'[u] = email[u]
    <2>1. PICK b \in Browser : At(b, "credential") /\ browser[b].user = u
      BY <1>2 DEF AccountsInv, EveryUserHasWayIn
    <2>2. browser'[b] = browser[b]
      BY <1>2, <2>1
    <2> QED
      BY <2>1, <2>2 DEF At
  <1> QED
    BY <1>1, <1>2

(* A new entry of the audit log is about a user who is there and has a way *)
(* in; earlier ones have kept theirs.                                      *)
LEMMA AdminsStep ==
    ASSUME AccountsInv, Kept,
           \A u \in audited' : u \in User /\ Exists(u)' /\ (u \in audited \/ Able(u))
    PROVE  AdminsStay'
  <1>1. \A u \in audited : Able(u)
    BY DEF AccountsInv, AdminsStay, Able
  <1>2. \A u \in audited' : Exists(u)' /\ Able(u)'
    BY <1>1 DEF Kept
  <1> QED
    BY <1>2 DEF AdminsStay, Able

Offers(t) == Valid(t) \/ (invite[t].by # None /\ ~invite[t].fresh)

(* The way to the first account stays open as long as what carries it, the *)
(* invite, an enrollment or the bootstrap, is handed on.                   *)
LEMMA BeginStep ==
    ASSUME AccountsInv, audited \subseteq audited', aborts' \in Nat, aborts' >= aborts,
           lost \subseteq lost',
           \A t \in Token : Offers(t) =>
               \/ Offers(t)' \/ audited # {}
               \/ \E d \in Browser : browser'[d].at \in Working,
           \A d \in Browser : browser[d].at \in Working =>
               browser'[d].at \in Working \/ audited' # {} \/ aborts' > 0 \/ lost' # {},
           boot.at # "idle" => boot'.at # "idle" \/ aborts' > 0 \/ \E t \in Token : Offers(t)',
           (\A u \in User : ~Exists(u)) =>
               \/ \A u \in User : ~Exists(u)'
               \/ boot'.at # "idle" \/ \E d \in Browser : browser'[d].at \in Working
    PROVE  WayToBegin'
  <1>1. aborts \in Nat
    BY DEF AccountsInv, TypeOK
  <1>2. \/ audited # {} \/ boot.at # "idle" \/ \A u \in User : ~Exists(u)
        \/ \E t \in Token : Offers(t)
        \/ \E b \in Browser : browser[b].at \in Working
        \/ aborts > 0 \/ lost # {}
    BY DEF AccountsInv, WayToBegin, Offers, Working
  <1>3. \/ audited' # {} \/ boot'.at # "idle" \/ \A u \in User : ~Exists(u)'
        \/ \E t \in Token : Offers(t)'
        \/ \E b \in Browser : browser'[b].at \in Working
        \/ aborts' > 0 \/ lost' # {}
    <2>1. CASE aborts > 0
      BY <1>1, <2>1
    <2>2. CASE audited # {} \/ lost # {} \/ boot.at # "idle" \/ \A u \in User : ~Exists(u)
      BY <2>2
    <2>3. CASE \E t \in Token : Offers(t)
      BY <2>3
    <2>4. CASE \E b \in Browser : browser[b].at \in Working
      BY <2>4
    <2> QED
      BY <1>2, <2>1, <2>2, <2>3, <2>4
  <1> QED
    BY <1>3 DEF WayToBegin, Offers, Working

-----------------------------------------------------------------------------
(* A step of one browser that leaves the tables alone. *)

(* The fields of a browser.                                                *)
LEMMA ClientTypes ==
    ASSUME TypeOK, NEW b \in Browser
    PROVE  /\ browser[b] \in Client /\ browser[b].at \in Steps
           /\ browser[b].cookie \in Session \cup {None}
           /\ browser[b].sess \in Session \cup {None}
           /\ browser[b].user \in User \cup {None}
           /\ browser[b].token \in Token \cup {None}
           /\ browser[b].about \in User \cup {None}
  BY DEF TypeOK, Client

(* A step that changes one browser and no table, as most do: what the new  *)
(* record says is true, and no enrollment under way is given up silently.  *)
LEMMA LocalStep ==
    ASSUME AccountsInv, NEW b \in Browser, NEW c \in Client,
           browser' = [browser EXCEPT ![b] = c],
           UNCHANGED <<tables, boot, born, gaveUp>>,
           aborts' \in Nat, aborts' >= aborts,
           lost \subseteq lost', lost' \subseteq User,
           raced \subseteq raced', raced' \subseteq Token,
           ClientInv(c),
           c.at = "insert" => \/ c.token \in raced'
                              \/ /\ born[c.token] = {}
                                 /\ \A d \in Browser : ~Inserting(d, c.token),
           \A u \in User : At(b, "credential") /\ browser[b].user = u =>
                                u \in lost' \/ ~Exists(u),
           browser[b].at \in Working =>
               c.at \in Working \/ audited # {} \/ aborts' > 0 \/ lost' # {}
    PROVE  AccountsInv'
  <1>1. browser' \in [Browser -> Client] /\ browser'[b] = c
        /\ \A d \in Browser \ {b} : browser'[d] = browser[d]
    BY DEF AccountsInv, TypeOK
  <1>2. Kept
    BY KeptWhenSame DEF tables
  <1>3. TypeOK'
    BY <1>1 DEF AccountsInv, TypeOK, tables, Exists
  <1>4. \A d \in Browser : ClientInv(browser[d])'
    <2>1. ClientInv(browser[b])'
      BY <1>1 DEF ClientInv, tables, Exists, Able, CanLogIn, KnowsPassword, KnowsPasskey
    <2> QED
      BY <1>1, <1>2, <2>1, ClientsStep
  <1>5. (\A s \in Session : session[s] # None => Able(session[s]))'
    BY DEF AccountsInv, tables, Able, CanLogIn, KnowsPassword, KnowsPasskey
  <1>6. ASSUME NEW t \in Token PROVE InviteInv(t)'
    <2>1. InviteInv(t)
      BY DEF AccountsInv
    <2>2. \A d \in Browser \ {b} : Inserting(d, t)' <=> Inserting(d, t)
      BY <1>1 DEF Inserting, At
    <2>3. Inserting(b, t)' => c.at = "insert" /\ c.token = t
      BY <1>1 DEF Inserting, At
    <2> QED
      BY <2>1, <2>2, <2>3 DEF InviteInv, tables
  <1>7. (audited = {} => \A u \in User : email[u] # Gone)' /\ OneUserPerInvite' /\ AdminsStay'
    BY DEF AccountsInv, tables, OneUserPerInvite, AdminsStay, Exists, CanLogIn,
           KnowsPassword, KnowsPasskey
  <1>8. EveryUserHasWayIn'
    <2>1. \A u \in User : Exists(u)' /\ ~CanLogIn(u)' =>
              Exists(u) /\ ~CanLogIn(u) /\ email'[u] = email[u]
      BY DEF tables, Exists, CanLogIn, KnowsPassword, KnowsPasskey
    <2> QED
      BY <1>1, <2>1, WaysInStep DEF At
  <1>9. WayToBegin'
    <2>1. \A t \in Token : Offers(t) => Offers(t)'
      BY DEF tables, Offers, Valid
    <2>2. \A d \in Browser : browser[d].at \in Working =>
              browser'[d].at \in Working \/ audited' # {} \/ aborts' > 0 \/ lost' # {}
      BY <1>1 DEF tables
    <2>3. (\A u \in User : ~Exists(u)) => \A u \in User : ~Exists(u)'
      BY DEF tables, Exists
    <2> QED
      BY <2>1, <2>2, <2>3, BeginStep DEF tables
  <1>10. (boot.at = "invite" => boot.user \in User)'
    BY DEF AccountsInv
  <1> QED
    BY <1>3, <1>4, <1>5, <1>6, <1>7, <1>8, <1>9, <1>10 DEF AccountsInv

-----------------------------------------------------------------------------
(* The steps of one browser that leave the tables alone *)

(* Back at the page: nothing is left of the request but its cookie. *)
LEMMA RestartFields ==
    ASSUME NEW v \in User \cup {None}, NEW k \in Session \cup {None}, NEW c,
           c = [at |-> "away", cookie |-> k, sess |-> None, user |-> None,
                token |-> None, about |-> v]
    PROVE  c \in Client /\ c.at = "away" /\ c.cookie = k
  BY DEF Client, Steps

(* A browser that starts over keeps no more than a cookie and a name.      *)
LEMMA Restart ==
    ASSUME NEW v \in User \cup {None}, NEW k \in Session \cup {None}, audited = {} => k = None
    PROVE  \E c \in Client : /\ c = [NoClient EXCEPT !.cookie = k, !.about = v]
                             /\ c.at = "away" /\ ClientInv(c)
  <1>1. PICK c : c = [NoClient EXCEPT !.cookie = k, !.about = v]
    OBVIOUS
  <1>2. c = [at |-> "away", cookie |-> k, sess |-> None, user |-> None,
             token |-> None, about |-> v]
    BY <1>1 DEF NoClient
  <1>3. c \in Client /\ c.at = "away" /\ c.cookie = k
    BY <1>2, RestartFields
  <1>4. ClientInv(c)
    BY <1>3 DEF ClientInv, Working
  <1> QED
    BY <1>1, <1>3, <1>4

(* Nobody has a cookie before the first entry of the audit log.            *)
LEMMA CookieInv ==
    ASSUME AccountsInv, NEW b \in Browser
    PROVE  audited = {} => browser[b].cookie = None /\ browser[b].at # "handler"
  BY DEF AccountsInv, ClientInv

(* A request that ends without effect leaves its enrollment, if it was one, *)
(* among those that were lost.                                             *)
LEMMA BackAtThePage ==
    ASSUME AccountsInv, NEW b \in Browser, Fails(b),
           UNCHANGED <<tables, boot, born, gaveUp, raced>>,
           aborts' \in Nat, aborts' >= aborts,
           lost \subseteq lost', lost' \subseteq User,
           \A u \in User : At(b, "credential") /\ browser[b].user = u =>
                                u \in lost' \/ ~Exists(u),
           browser[b].at \in Working => audited # {} \/ aborts' > 0 \/ lost' # {}
    PROVE  AccountsInv'
  <1> DEFINE k == browser[b].cookie
             v == browser[b].about
  <1>1. TypeOK
    BY DEF AccountsInv
  <1>2. k \in Session \cup {None} /\ v \in User \cup {None} /\ (audited = {} => k = None)
    BY <1>1, ClientTypes, CookieInv
  <1>3. PICK c \in Client : /\ c = [NoClient EXCEPT !.cookie = k, !.about = v]
                            /\ c.at = "away" /\ ClientInv(c)
    BY <1>2, Restart
  <1>5. browser' = [browser EXCEPT ![b] = c]
    BY <1>3, Zenon DEF Fails, Reply
  <1>4. raced' \subseteq Token
    BY <1>1 DEF TypeOK
  <1> QED
    BY <1>3, <1>4, <1>5, LocalStep

(* A step between requests, or one that begins or refuses one. *)
LEMMA QuietStep ==
    ASSUME AccountsInv, NEW b \in Browser, NEW c \in Client,
           browser' = [browser EXCEPT ![b] = c], ClientInv(c),
           UNCHANGED <<tables, boot, aborts, history>>,
           browser[b].at \in {"away", "handler"}, c.at # "insert"
    PROVE  AccountsInv'
  <1>1. aborts' \in Nat /\ aborts' >= aborts /\ lost \subseteq lost' /\ lost' \subseteq User
        /\ raced \subseteq raced' /\ raced' \subseteq Token
    BY DEF AccountsInv, TypeOK, history
  <1>2. ~At(b, "credential") /\ browser[b].at \notin Working
    BY DEF At, Working
  <1> QED
    BY <1>1, <1>2, LocalStep DEF history

(* A form that is opened holds an invite and nothing else.                 *)
LEMMA OpenFormInv ==
    ASSUME AccountsInv, NEW b \in Browser, NEW t \in Token, OpenForm(b, t) PROVE AccountsInv'
  <1>1. TypeOK /\ None \notin User \cup Token \cup Session
    BY NamesAssumption DEF AccountsInv
  <1>2. PICK c : c = [browser[b] EXCEPT !.at = "form", !.token = t, !.about = None]
    OBVIOUS
  <1>3. c \in Client /\ c.at = "form" /\ c.token = t /\ c.cookie = browser[b].cookie
    BY <1>1, <1>2, ClientTypes DEF Client, Steps
  <1>4. browser' = [browser EXCEPT ![b] = c]
    BY <1>1, <1>2 DEF OpenForm, TypeOK, Client
  <1>5. ClientInv(c)
    BY <1>3, CookieInv DEF ClientInv, Working
  <1>6. browser[b].at = "away"
    BY DEF OpenForm, At
  <1> QED
    BY <1>3, <1>4, <1>5, <1>6, QuietStep DEF OpenForm

(* A form that is closed, or refused, has read no invite.                  *)
LEMMA CloseFormInv ==
    ASSUME AccountsInv, NEW b \in Browser,
           CloseForm(b) \/ InviteRefused(b) \/ \E e \in Email : AddressTaken(b, e)
    PROVE  AccountsInv'
  <1>1. Fails(b) /\ browser[b].at \in {"form", "insert"}
        /\ UNCHANGED <<tables, boot, aborts, history>>
    BY DEF CloseForm, InviteRefused, AddressTaken, AtForm, At, Fails
  <1>2. aborts \in Nat /\ lost \subseteq User
    BY DEF AccountsInv, TypeOK
  <1> QED
    BY <1>1, <1>2, BackAtThePage DEF history, At, Working

(* The second to read an invite before it is used makes it raced.          *)
LEMMA ReadInviteInv ==
    ASSUME AccountsInv, NEW b \in Browser, ReadInvite(b) PROVE AccountsInv'
  <1> DEFINE t == browser[b].token
  <1>1. TypeOK /\ browser[b].at = "form" /\ t \in Token /\ Valid(t)
    BY DEF AccountsInv, ReadInvite, AtForm, At, ClientInv
  <1>2. PICK c : c = [browser[b] EXCEPT !.at = "insert"]
    OBVIOUS
  <1>3. c \in Client /\ c.at = "insert" /\ c.token = t /\ c.cookie = browser[b].cookie
    BY <1>1, <1>2, ClientTypes DEF Client, Steps
  <1>4. browser' = [browser EXCEPT ![b] = c]
    BY <1>1, <1>2 DEF ReadInvite, BeginConsume, Goto, TypeOK, Client
  <1>5. ClientInv(c)
    BY <1>1, <1>3, CookieInv DEF ClientInv, Working
  <1>6. raced' = (IF Reading(t) THEN raced \cup {t} ELSE raced)
        /\ UNCHANGED <<tables, boot, aborts, born, lost, gaveUp>>
    BY DEF ReadInvite, BeginConsume
  <1>7. aborts \in Nat /\ lost \subseteq User /\ raced' \subseteq Token /\ raced \subseteq raced'
    BY <1>1, <1>6 DEF TypeOK
  <1>8. born[t] = {}
    BY <1>1 DEF Valid, AccountsInv, InviteInv
  <1>9. t \in raced' \/ \A d \in Browser : ~Inserting(d, t)
    BY <1>6 DEF Reading, Inserting
  <1>10. ~At(b, "credential") /\ browser[b].at \notin Working
    BY <1>1 DEF At, Working
  <1>11. c.token \in raced' \/ (born[c.token] = {} /\ \A d \in Browser : ~Inserting(d, c.token))
    BY <1>3, <1>8, <1>9
  <1>12. aborts' \in Nat /\ aborts' >= aborts /\ lost' \subseteq User /\ lost \subseteq lost'
    BY <1>6, <1>7
  <1> QED
    BY <1>3, <1>4, <1>5, <1>6, <1>7, <1>10, <1>11, <1>12, LocalStep

(* The user of an enrollment that is not verified is lost, and known to be. *)
LEMMA NotVerifiedInv ==
    ASSUME AccountsInv, NEW b \in Browser, NotVerified(b) PROVE AccountsInv'
  <1>1. browser[b].at = "credential" /\ browser[b].user \in User
    BY DEF NotVerified, At, AccountsInv, ClientInv, Working
  <1>2. lost' = lost \cup {browser[b].user} /\ lost' \subseteq User /\ aborts \in Nat
    BY <1>1 DEF NotVerified, AccountsInv, TypeOK
  <1> QED
    BY <1>1, <1>2, BackAtThePage DEF NotVerified

(* So is the user of one that is cut off.                                  *)
LEMMA AbortInv ==
    ASSUME AccountsInv, NEW b \in Browser, Abort(b) PROVE AccountsInv'
  <1>1. aborts \in Nat /\ lost \subseteq User
    BY DEF AccountsInv, TypeOK
  <1>2. At(b, "credential") => browser[b].user \in User
    BY DEF At, AccountsInv, ClientInv, Working
  <1>3. lost \subseteq lost' /\ lost' \subseteq User /\ aborts' = aborts + 1
        /\ \A u \in User : At(b, "credential") /\ browser[b].user = u => u \in lost'
    BY <1>1, <1>2 DEF Abort
  <1> QED
    BY <1>1, <1>3, BackAtThePage DEF Abort

(* A handler whose session or user is gone changes nothing.                *)
LEMMA RefusedInv ==
    ASSUME AccountsInv, NEW b \in Browser, Refused(b) PROVE AccountsInv'
  <1>1. aborts \in Nat /\ lost \subseteq User /\ browser[b].user \in User \cup {None}
    BY ClientTypes DEF AccountsInv, TypeOK
  <1>2. browser[b].at \in Working => ~Exists(browser[b].user)
    BY DEF Refused, At, Working
  <1>3. browser[b].at \in Working => audited # {}
    <2> SUFFICES ASSUME browser[b].at \in Working, audited = {} PROVE FALSE
      OBVIOUS
    <2>1. browser[b].user \in User /\ email[browser[b].user] # None
          /\ email[browser[b].user] # Gone
      BY DEF AccountsInv, ClientInv
    <2> QED
      BY <1>2, <2>1 DEF AccountsInv, TypeOK, Exists
  <1> QED
    BY <1>1, <1>2, <1>3, BackAtThePage DEF Refused, Fails, history, At, Working

(* A deletion the foreign keys refuse only tells the page.                 *)
LEMMA DeleteRefusedInv ==
    ASSUME AccountsInv, NEW b \in Browser, NEW v \in User, DeleteRefused(b, v)
    PROVE  AccountsInv'
  <1>1. TypeOK /\ browser[b].at = "handler"
    BY DEF AccountsInv, DeleteRefused, Offered, At
  <1> DEFINE k == browser[b].cookie
  <1>2. k \in Session \cup {None} /\ (audited = {} => k = None)
    BY <1>1, ClientTypes, CookieInv
  <1>3. PICK c \in Client : /\ c = [NoClient EXCEPT !.cookie = k, !.about = v]
                            /\ c.at = "away" /\ ClientInv(c)
    BY <1>2, Restart
  <1>4. browser' = [browser EXCEPT ![b] = c]
    BY <1>3, Zenon DEF DeleteRefused
  <1> QED
    BY <1>1, <1>3, <1>4, QuietStep DEF DeleteRefused

(* Whoever logs in has a way in.                                           *)
LEMMA LogInInv ==
    ASSUME AccountsInv, NEW b \in Browser, NEW u \in User,
           PasswordLogIn(b, u) \/ PasskeyLogIn(b, u)
    PROVE  AccountsInv'
  <1>1. TypeOK /\ browser[b].at = "away" /\ BeginSession(b, u) /\ Able(u) /\ Exists(u)
    BY DEF AccountsInv, PasswordLogIn, PasskeyLogIn, AtLogin, At, Able, CanLogIn,
           KnowsPassword, KnowsPasskey, TypeOK
  <1>2. PICK c : c = [browser[b] EXCEPT !.at = "session", !.user = u, !.about = None]
    OBVIOUS
  <1>3. c \in Client /\ c.at = "session" /\ c.user = u /\ c.cookie = browser[b].cookie
    BY <1>1, <1>2, ClientTypes DEF Client, Steps
  <1>4. browser' = [browser EXCEPT ![b] = c]
    BY <1>1, <1>2 DEF BeginSession, TypeOK, Client
  <1>5. ClientInv(c)
    BY <1>1, <1>3, CookieInv, NamesAssumption DEF ClientInv, Working, Exists
  <1> QED
    BY <1>1, <1>3, <1>4, <1>5, QuietStep DEF BeginSession

(* A session that is found is of a user with a way in.                     *)
LEMMA AuthenticateInv ==
    ASSUME AccountsInv, NEW b \in Browser, Authenticate(b) PROVE AccountsInv'
  <1> DEFINE k == browser[b].cookie
  <1>1. TypeOK /\ browser[b].at = "away" /\ k \in Session /\ session[k] \in User
        /\ Able(session[k]) /\ Exists(session[k]) /\ audited # {}
    BY ClientTypes, CookieInv, NamesAssumption
       DEF AccountsInv, Authenticate, SignedIn, Live, At, TypeOK
  <1>2. PICK c : c = [browser[b] EXCEPT !.at = "handler", !.sess = k, !.user = session[k],
                                       !.about = None]
    OBVIOUS
  <1>3. c \in Client /\ c.at = "handler" /\ c.user = session[k]
    BY <1>1, <1>2, ClientTypes DEF Client, Steps
  <1>4. browser' = [browser EXCEPT ![b] = c]
    BY <1>1, <1>2 DEF Authenticate, TypeOK, Client
  <1>5. ClientInv(c)
    BY <1>1, <1>3, NamesAssumption DEF ClientInv, Working, Exists
  <1> QED
    BY <1>1, <1>3, <1>4, <1>5, QuietStep DEF Authenticate

-----------------------------------------------------------------------------
(* The steps that write a credential *)

(* A handler that goes on keeps its locals.                                *)
LEMMA GotoStep ==
    ASSUME TypeOK, NEW b \in Browser, NEW step \in Steps, Goto(b, step)
    PROVE  /\ browser' \in [Browser -> Client]
           /\ browser'[b].at = step /\ browser'[b].user = browser[b].user
           /\ browser'[b].token = browser[b].token /\ browser'[b].cookie = browser[b].cookie
           /\ \A d \in Browser \ {b} : browser'[d] = browser[d]
  <1>1. browser[b] \in Client /\ browser \in [Browser -> Client]
    BY DEF TypeOK
  <1>2. PICK c : c = [browser[b] EXCEPT !.at = step]
    OBVIOUS
  <1>3. c \in Client /\ c.at = step /\ c.user = browser[b].user
        /\ c.token = browser[b].token /\ c.cookie = browser[b].cookie
    BY <1>1, <1>2 DEF Client
  <1>4. browser' = [browser EXCEPT ![b] = c]
    BY <1>1, <1>2 DEF Goto, Client
  <1> QED
    BY <1>1, <1>3, <1>4

(* A step that gives its user a credential, or takes their last one with   *)
(* their consent.                                                          *)
LEMMA CredentialStep ==
    ASSUME AccountsInv, NEW b \in Browser, NEW step \in {"session", "audit"}, Goto(b, step),
           browser[b].at \in {"credential", "handler"},
           UNCHANGED <<email, invite, session, audited, boot, aborts, born, raced, lost>>,
           gaveUp \subseteq gaveUp', gaveUp' \subseteq User,
           password' \cup passkey' \subseteq {u \in User : Exists(u)},
           \A u \in User : CanLogIn(u) => CanLogIn(u)' \/ u \in gaveUp',
           \A u \in User : browser[b].user = u =>
               Able(u)' /\ (At(b, "credential") => CanLogIn(u)')
    PROVE  AccountsInv'
  <1>1. TypeOK
    BY DEF AccountsInv
  <1>2. /\ browser' \in [Browser -> Client]
        /\ browser'[b].at = step /\ browser'[b].user = browser[b].user
        /\ browser'[b].cookie = browser[b].cookie
        /\ \A d \in Browser \ {b} : browser'[d] = browser[d]
    BY <1>1, GotoStep DEF Steps
  <1>3. Kept
    BY DEF Kept, Exists, Able
  <1>4. TypeOK'
    BY <1>1, <1>2 DEF TypeOK, Exists
  <1>5. browser[b].user \in User /\ email[browser[b].user] # None
    BY DEF AccountsInv, ClientInv, Working
  <1>6. \A d \in Browser : ClientInv(browser[d])'
    <2>1. ClientInv(browser[b])'
      BY <1>2, <1>5, CookieInv DEF ClientInv, Working
    <2> QED
      BY <1>2, <1>3, <2>1, ClientsStep
  <1>7. (\A s \in Session : session[s] # None => Able(session[s]))'
    <2>1. \A s \in Session : session[s] # None => session[s] \in User /\ Able(session[s])
      BY <1>1 DEF AccountsInv, TypeOK
    <2>2. \A s \in Session : session[s] # None => Able(session[s])'
      BY <2>1 DEF Able
    <2> QED
      BY <2>2
  <1>8. (\A t \in Token : InviteInv(t))' /\ OneUserPerInvite'
    BY <1>2, InvitesStep DEF At
  <1>9. AdminsStay'
    <2>1. \A u \in audited' : u \in User /\ Exists(u)'
      BY <1>1 DEF AccountsInv, AdminsStay, TypeOK, Exists
    <2> QED
      BY <1>3, <2>1, AdminsStep
  <1>10. EveryUserHasWayIn'
    <2>1. \A u \in User : Exists(u)' /\ ~CanLogIn(u)' =>
              Exists(u) /\ ((~CanLogIn(u) /\ email'[u] = email[u]) \/ u \in gaveUp')
      BY DEF Exists
    <2>2. \A d \in Browser, u \in User : At(d, "credential") /\ browser[d].user = u =>
              browser'[d] = browser[d] \/ CanLogIn(u)'
      BY <1>2
    <2> QED
      BY <2>1, <2>2, WaysInStep
  <1>11. WayToBegin'
    <2>1. \A t \in Token : Offers(t) => Offers(t)'
      BY DEF Offers, Valid
    <2>2. \A d \in Browser : browser[d].at \in Working => browser'[d].at \in Working
      BY <1>2 DEF Working
    <2>3. aborts' \in Nat /\ aborts' >= aborts
      BY <1>1 DEF TypeOK
    <2>4. (\A u \in User : ~Exists(u)) => \A u \in User : ~Exists(u)'
      BY DEF Exists
    <2> QED
      BY <2>1, <2>2, <2>3, <2>4, BeginStep
  <1>12. (boot.at = "invite" => boot.user \in User)'
         /\ (audited = {} => \A u \in User : email[u] # Gone)'
    BY DEF AccountsInv
  <1> QED
    BY <1>4, <1>6, <1>7, <1>8, <1>9, <1>10, <1>11, <1>12 DEF AccountsInv

(* A credential that is stored is of the user the request is for.          *)
LEMMA StoreInv ==
    ASSUME AccountsInv, NEW b \in Browser,
           StorePassword(b) \/ SetUpPassword(b) \/ StorePasskey(b)
    PROVE  AccountsInv'
  <1>1. PICK step \in {"session", "audit"} : Goto(b, step)
    BY DEF StorePassword, SetUpPassword, StorePasskey
  <1>2. browser[b].at \in {"credential", "handler"} /\ Exists(browser[b].user)
    BY DEF StorePassword, SetUpPassword, StorePasskey, PasswordForm, At
  <1>3. browser[b].user \in User
    BY <1>2 DEF AccountsInv, ClientInv, Working
  <1>4. \/ password' = password \cup {browser[b].user} /\ passkey' = passkey
        \/ passkey' = passkey \cup {browser[b].user} /\ password' = password
    BY DEF StorePassword, SetUpPassword, StorePasskey
  <1>5. UNCHANGED <<email, invite, session, audited, boot, aborts, born, raced, lost, gaveUp>>
    BY DEF StorePassword, SetUpPassword, StorePasskey, history
  <1>6. \A u \in User : (CanLogIn(u) => CanLogIn(u)') /\ (browser[b].user = u => CanLogIn(u)')
    BY <1>4 DEF CanLogIn, KnowsPassword, KnowsPasskey
  <1>7. password' \cup passkey' \subseteq {u \in User : Exists(u)} /\ gaveUp' \subseteq User
    BY <1>2, <1>3, <1>4, <1>5 DEF AccountsInv, TypeOK
  <1> QED
    BY <1>1, <1>2, <1>5, <1>6, <1>7, CredentialStep DEF Able

(* Who removes the last passkey has given up their way in.                 *)
LEMMA RemovePasskeyInv ==
    ASSUME AccountsInv, NEW b \in Browser, RemovePasskey(b) PROVE AccountsInv'
  <1> DEFINE w == browser[b].user
  <1>1. TypeOK /\ Goto(b, "audit") /\ browser[b].at = "handler" /\ w \in passkey
        /\ UNCHANGED <<email, password, invite, session, audited, boot, aborts, born, raced, lost>>
    BY DEF AccountsInv, RemovePasskey, At, HasPasskey, KnowsPasskey
  <1>2. passkey' = passkey \ {w}
        /\ gaveUp' = IF w \in password THEN gaveUp ELSE gaveUp \cup {w}
    BY DEF RemovePasskey, KnowsPassword
  <1>3. gaveUp \subseteq gaveUp' /\ gaveUp' \subseteq User
        /\ password' \cup passkey' \subseteq {u \in User : Exists(u)}
    BY <1>1, <1>2 DEF TypeOK
  <1>4. \A u \in User : CanLogIn(u) => CanLogIn(u)' \/ u \in gaveUp'
    BY <1>1, <1>2 DEF CanLogIn, KnowsPassword, KnowsPasskey
  <1>5. \A u \in User : w = u => Able(u)'
    BY <1>1, <1>2 DEF Able, CanLogIn, KnowsPassword, KnowsPasskey
  <1>6. ~At(b, "credential")
    BY <1>1 DEF At
  <1> QED
    BY <1>1, <1>3, <1>4, <1>5, <1>6, CredentialStep

-----------------------------------------------------------------------------
(* The steps that write an invite, a session, an entry or the boot request *)

(* A step that touches sessions, invites or the audit log and no user.     *)
LEMMA SideStep ==
    ASSUME AccountsInv, TypeOK', UNCHANGED <<email, password, passkey, history>>,
           audited \subseteq audited', aborts' >= aborts,
           \A u \in audited' : u \in User /\ Exists(u) /\ (u \in audited \/ Able(u)),
           \A d \in Browser :
               \/ browser'[d] = browser[d]
               \/ /\ ClientInv(browser[d])'
                  /\ browser'[d].at # "insert" /\ browser[d].at # "credential",
           \A s \in Session : session'[s] # None =>
               session'[s] = session[s] \/ Able(session'[s]),
           \A t \in Token : invite'[t].by # None =>
               (invite[t].by # None /\ invite'[t].used = invite[t].used) \/ born[t] = {},
           \A t \in Token : Offers(t) => Offers(t)',
           \A d \in Browser : browser[d].at \in Working =>
               browser'[d].at \in Working \/ audited' # {},
           boot.at # "idle" => boot'.at # "idle" \/ aborts' > 0 \/ \E t \in Token : Offers(t)',
           boot'.at = "invite" => boot'.user \in User
    PROVE  AccountsInv'
  <1>1. Kept /\ aborts' \in Nat
    BY KeptWhenSame DEF history, TypeOK
  <1>2. \A d \in Browser : ClientInv(browser[d])'
    BY <1>1, ClientsStep
  <1>3. (\A s \in Session : session[s] # None => Able(session[s]))'
    <2>1. \A s \in Session : session'[s] # None => Able(session'[s])
      BY DEF AccountsInv
    <2>2. ASSUME NEW s \in Session, session'[s] # None PROVE Able(session[s])'
      BY <2>1, <2>2 DEF Able, CanLogIn, KnowsPassword, KnowsPasskey, history
    <2> QED
      BY <2>2
  <1>4. (\A t \in Token : InviteInv(t))' /\ OneUserPerInvite'
    BY InvitesStep DEF At, history
  <1>5. AdminsStay'
    <2>1. \A u \in audited' : u \in User /\ Exists(u)' /\ (u \in audited \/ Able(u))
      BY DEF Exists
    <2> QED
      BY <1>1, <2>1, AdminsStep
  <1>6. EveryUserHasWayIn'
    <2>1. \A u \in User : Exists(u)' /\ ~CanLogIn(u)' =>
              Exists(u) /\ ~CanLogIn(u) /\ email'[u] = email[u]
      BY DEF Exists, CanLogIn, KnowsPassword, KnowsPasskey
    <2>2. \A d \in Browser : At(d, "credential") => browser'[d] = browser[d]
      BY DEF At
    <2> QED
      BY <2>1, <2>2, WaysInStep DEF history
  <1>7. WayToBegin'
    <2>1. (\A u \in User : ~Exists(u)) => \A u \in User : ~Exists(u)'
      BY DEF Exists
    <2> QED
      BY <1>1, <2>1, BeginStep DEF history
  <1>8. (boot.at = "invite" => boot.user \in User)'
        /\ (audited = {} => \A u \in User : email[u] # Gone)'
    BY DEF AccountsInv
  <1> QED
    BY <1>2, <1>3, <1>4, <1>5, <1>6, <1>7, <1>8 DEF AccountsInv

(* The facts about users in the log that most of these steps leave alone. *)
LEMMA AuditedAble == ASSUME AccountsInv PROVE \A u \in audited : u \in User /\ Exists(u)
  BY DEF AccountsInv, AdminsStay, TypeOK

(* Bootstrap reads, or is cut off.                                         *)
LEMMA BootInv ==
    ASSUME AccountsInv, BootRead \/ BootAbort PROVE AccountsInv'
  <1>1. UNCHANGED <<tables, browser, history>> /\ aborts \in Nat
    BY DEF BootRead, BootAbort, AccountsInv, TypeOK
  <1>2. boot \in [at : {"idle", "insert", "invite"}, user : User \cup {None}]
    BY DEF AccountsInv, TypeOK
  <1>3. \/ boot' = [boot EXCEPT !.at = "insert"] /\ aborts' = aborts
        \/ boot' = NoBoot /\ aborts' = aborts + 1
    BY DEF BootRead, BootAbort
  <1>4. boot' \in [at : {"idle", "insert", "invite"}, user : User \cup {None}]
        /\ boot'.at # "invite" /\ (boot'.at # "idle" \/ aborts' > 0)
    BY <1>1, <1>2, <1>3 DEF NoBoot
  <1>5. TypeOK'
    BY <1>1, <1>3, <1>4 DEF AccountsInv, TypeOK, tables, history, Exists
  <1>6. aborts' >= aborts
    BY <1>1, <1>3
  <1>7. \A t \in Token : Offers(t) => Offers(t)'
    BY <1>1 DEF tables, Offers, Valid
  <1> QED
    BY <1>1, <1>4, <1>5, <1>6, <1>7, AuditedAble, SideStep DEF tables

(* A new invite has made nobody yet.                                       *)
LEMMA InviteRow ==
    ASSUME TypeOK, NEW t \in Token, NEW v \in User, NewInvite(t, v)
    PROVE  /\ invite' \in [Token -> Invite] /\ born[t] = {} /\ Exists(v)
           /\ invite'[t] = [by |-> v, used |-> None, fresh |-> TRUE]
           /\ \A r \in Token \ {t} : invite'[r] = invite[r]
           /\ \A r \in Token : Offers(r) => Offers(r)'
           /\ Offers(t)'
  <1>1. [by |-> v, used |-> None, fresh |-> TRUE] \in Invite /\ invite \in [Token -> Invite]
    BY DEF Invite, TypeOK
  <1>2. /\ invite' \in [Token -> Invite]
        /\ invite'[t] = [by |-> v, used |-> None, fresh |-> TRUE]
        /\ \A r \in Token \ {t} : invite'[r] = invite[r]
    BY <1>1 DEF NewInvite
  <1>3. v # None
    BY NamesAssumption
  <1>4. Offers(t)'
    BY <1>2, <1>3 DEF Offers, Valid
  <1>5. \A r \in Token \ {t} : Offers(r) => Offers(r)'
    BY <1>2 DEF Offers, Valid
  <1> QED
    BY <1>2, <1>4, <1>5 DEF NewInvite, Unused

(* Bootstrap's invite is the first way in.                                 *)
LEMMA BootInviteInv ==
    ASSUME AccountsInv, NEW t \in Token, BootInvite(t) PROVE AccountsInv'
  <1>1. TypeOK /\ boot.user \in User /\ NewInvite(t, boot.user)
    BY DEF AccountsInv, BootInvite
  <1>2. UNCHANGED <<email, password, passkey, session, audited, browser, aborts, history>>
        /\ boot' = NoBoot
    BY DEF BootInvite
  <1>3. /\ invite' \in [Token -> Invite] /\ born[t] = {} /\ Exists(boot.user)
        /\ invite'[t] = [by |-> boot.user, used |-> None, fresh |-> TRUE]
        /\ \A r \in Token \ {t} : invite'[r] = invite[r]
        /\ \A r \in Token : Offers(r) => Offers(r)'
        /\ Offers(t)'
    BY <1>1, InviteRow
  <1>4. boot' \in [at : {"idle", "insert", "invite"}, user : User \cup {None}]
        /\ boot'.at # "invite"
    BY <1>2 DEF NoBoot
  <1>5. TypeOK'
    BY <1>1, <1>2, <1>3, <1>4 DEF TypeOK, history, Exists
  <1>6. aborts' >= aborts
    BY <1>1, <1>2 DEF TypeOK
  <1> QED
    BY <1>2, <1>3, <1>4, <1>5, <1>6, AuditedAble, SideStep

(* An invite is made by a user who is there.                               *)
LEMMA CreateInviteInv ==
    ASSUME AccountsInv, NEW b \in Browser, NEW t \in Token, CreateInvite(b, t)
    PROVE  AccountsInv'
  <1> DEFINE v == browser[b].user
  <1>1. TypeOK /\ v \in User /\ NewInvite(t, v) /\ browser[b].at = "handler" /\ Goto(b, "audit")
    BY DEF AccountsInv, CreateInvite, AtInvites, At, ClientInv
  <1>2. UNCHANGED <<email, password, passkey, session, audited, boot, aborts, history>>
    BY DEF CreateInvite
  <1>3. /\ invite' \in [Token -> Invite] /\ born[t] = {} /\ Exists(v)
        /\ invite'[t] = [by |-> v, used |-> None, fresh |-> TRUE]
        /\ \A r \in Token \ {t} : invite'[r] = invite[r]
        /\ \A r \in Token : Offers(r) => Offers(r)'
        /\ Offers(t)'
    BY <1>1, InviteRow
  <1>4. /\ browser' \in [Browser -> Client]
        /\ browser'[b].at = "audit" /\ browser'[b].user = v
        /\ browser'[b].cookie = browser[b].cookie
        /\ \A d \in Browser \ {b} : browser'[d] = browser[d]
    BY <1>1, GotoStep DEF Steps
  <1>5. TypeOK'
    BY <1>1, <1>2, <1>3, <1>4 DEF TypeOK, history, Exists
  <1>6. ClientInv(browser[b])'
    <2>1. Able(v) /\ audited # {} /\ email[v] # None
      BY <1>1, <1>3, CookieInv DEF AccountsInv, ClientInv, Working
    <2>2. (browser[b].user)' = v /\ (browser[b].at)' = "audit"
      BY <1>4
    <2> QED
      BY <1>1, <1>2, <2>1, <2>2
         DEF ClientInv, Working, Able, CanLogIn, KnowsPassword, KnowsPasskey, history
  <1>7. aborts' >= aborts /\ (boot.at = "invite" => boot.user \in User)
    BY <1>1, <1>2 DEF TypeOK, AccountsInv
  <1>8. browser[b].at \notin {"insert", "credential"} \cup Working /\ browser'[b].at # "insert"
    BY <1>1, <1>4 DEF Working
  <1> QED
    BY <1>2, <1>3, <1>4, <1>5, <1>6, <1>7, <1>8, AuditedAble, SideStep

(* An invite that has expired is still seen to have been the way in.       *)
LEMMA InviteExpiresInv ==
    ASSUME AccountsInv, NEW t \in Token, InviteExpires(t) PROVE AccountsInv'
  <1>1. TypeOK /\ invite[t] \in Invite
    BY DEF AccountsInv, TypeOK
  <1>2. UNCHANGED <<email, password, passkey, session, audited, browser, boot, aborts, history>>
        /\ invite' = [invite EXCEPT ![t].fresh = FALSE]
    BY DEF InviteExpires
  <1>3. /\ invite' \in [Token -> Invite]
        /\ \A r \in Token : invite'[r].by = invite[r].by /\ invite'[r].used = invite[r].used
        /\ invite'[t].fresh = FALSE /\ \A r \in Token \ {t} : invite'[r] = invite[r]
    BY <1>1, <1>2 DEF TypeOK, Invite
  <1>4. \A r \in Token : Offers(r) => Offers(r)'
    BY <1>3 DEF Offers, Valid
  <1>5. TypeOK'
    BY <1>1, <1>2, <1>3 DEF TypeOK, history, Exists
  <1>6. aborts' >= aborts /\ (boot.at = "invite" => boot.user \in User)
    BY <1>1, <1>2 DEF TypeOK, AccountsInv
  <1> QED
    BY <1>2, <1>3, <1>4, <1>5, <1>6, AuditedAble, SideStep

(* A session is made for the user of the request.                          *)
LEMMA NewSessionInv ==
    ASSUME AccountsInv, NEW b \in Browser, NEW s \in Session, NewSession(b, s)
    PROVE  AccountsInv'
  <1> DEFINE v == browser[b].user
  <1>1. TypeOK /\ browser[b].at = "session" /\ v \in User /\ Exists(v) /\ Able(v)
    BY DEF AccountsInv, NewSession, At, ClientInv, Working
  <1>2. UNCHANGED <<email, password, passkey, invite, audited, boot, aborts, history>>
        /\ session' = [session EXCEPT ![s] = v]
    BY DEF NewSession
  <1>3. PICK c : c = [browser[b] EXCEPT !.at = "audit", !.sess = s]
    OBVIOUS
  <1>4. c \in Client /\ c.at = "audit" /\ c.user = v /\ c.cookie = browser[b].cookie
    BY <1>1, <1>3, ClientTypes DEF Client, Steps
  <1>5. browser' = [browser EXCEPT ![b] = c]
    BY <1>1, <1>3 DEF NewSession, TypeOK, Client
  <1>6. browser' \in [Browser -> Client] /\ browser'[b] = c
        /\ \A d \in Browser \ {b} : browser'[d] = browser[d]
    BY <1>1, <1>4, <1>5 DEF TypeOK
  <1>7. session' \in [Session -> User \cup {None}] /\ session'[s] = v
        /\ \A r \in Session \ {s} : session'[r] = session[r]
    BY <1>1, <1>2 DEF TypeOK
  <1>8. TypeOK'
    BY <1>1, <1>2, <1>6, <1>7 DEF TypeOK, history, Exists
  <1>9. ClientInv(browser[b])'
    <2>1. email[v] # None /\ (audited = {} => browser[b].cookie = None)
      BY <1>1, CookieInv, NamesAssumption DEF Exists
    <2>2. (browser[b].user)' = v /\ (browser[b].at)' = "audit"
          /\ (browser[b].cookie)' = browser[b].cookie
      BY <1>4, <1>6
    <2> QED
      BY <1>1, <1>2, <2>1, <2>2
         DEF ClientInv, Working, Able, CanLogIn, KnowsPassword, KnowsPasskey, history
  <1>10. aborts' >= aborts /\ (boot.at = "invite" => boot.user \in User)
    BY <1>1, <1>2 DEF TypeOK, AccountsInv
  <1>11. browser'[b].at \in Working /\ browser'[b].at # "insert" /\ browser[b].at # "credential"
    BY <1>1, <1>4, <1>6 DEF Working
  <1>12. \A t \in Token : Offers(t) => Offers(t)'
    BY <1>2 DEF Offers, Valid
  <1> QED
    BY <1>1, <1>2, <1>6, <1>7, <1>8, <1>9, <1>10, <1>11, <1>12, AuditedAble, SideStep

(* A session that expires takes nothing else along.                        *)
LEMMA SessionExpiresInv ==
    ASSUME AccountsInv, NEW s \in Session, SessionExpires(s) PROVE AccountsInv'
  <1>1. TypeOK
    BY DEF AccountsInv
  <1>2. UNCHANGED <<email, password, passkey, invite, audited, browser, boot, aborts, history>>
        /\ session' = [session EXCEPT ![s] = None]
    BY DEF SessionExpires, Revoke
  <1>3. session' \in [Session -> User \cup {None}]
        /\ \A r \in Session : session'[r] # None => session'[r] = session[r]
    BY <1>1, <1>2 DEF TypeOK
  <1>4. TypeOK'
    BY <1>1, <1>2, <1>3 DEF TypeOK, history, Exists
  <1>5. aborts' >= aborts /\ (boot.at = "invite" => boot.user \in User)
    BY <1>1, <1>2 DEF TypeOK, AccountsInv
  <1>6. \A t \in Token : Offers(t) => Offers(t)'
    BY <1>2 DEF Offers, Valid
  <1> QED
    BY <1>2, <1>3, <1>4, <1>5, <1>6, AuditedAble, SideStep

(* Nor does one that is ended.                                             *)
LEMMA LogOutInv ==
    ASSUME AccountsInv, NEW b \in Browser, LogOut(b) PROVE AccountsInv'
  <1> DEFINE v == browser[b].user
  <1>1. TypeOK /\ browser[b].at = "handler" /\ v \in User
        /\ email[v] # None /\ (Exists(v) => Able(v)) /\ audited # {}
    BY CookieInv DEF AccountsInv, LogOut, At, ClientInv, Working
  <1>2. UNCHANGED <<email, password, passkey, invite, audited, boot, aborts, history>>
        /\ session' = [session EXCEPT ![browser[b].cookie] = None]
    BY DEF LogOut, Revoke
  <1>3. PICK c : c = [browser[b] EXCEPT !.at = "audit", !.sess = None]
    OBVIOUS
  <1>4. c \in Client /\ c.at = "audit" /\ c.user = v
    BY <1>1, <1>3, ClientTypes DEF Client, Steps
  <1>5. browser' = [browser EXCEPT ![b] = c]
    BY <1>1, <1>3 DEF LogOut, TypeOK, Client
  <1>6. browser' \in [Browser -> Client] /\ browser'[b] = c
        /\ \A d \in Browser \ {b} : browser'[d] = browser[d]
    BY <1>1, <1>4, <1>5 DEF TypeOK
  <1>7. session' \in [Session -> User \cup {None}]
        /\ \A r \in Session : session'[r] # None => session'[r] = session[r]
    BY <1>1, <1>2 DEF TypeOK
  <1>8. TypeOK'
    BY <1>1, <1>2, <1>6, <1>7 DEF TypeOK, history, Exists
  <1>9. ClientInv(browser[b])'
    <2>1. (browser[b].user)' = v /\ (browser[b].at)' = "audit"
      BY <1>4, <1>6
    <2> QED
      BY <1>1, <1>2, <2>1
         DEF ClientInv, Working, Exists, Able, CanLogIn, KnowsPassword, KnowsPasskey, history
  <1>10. aborts' >= aborts /\ (boot.at = "invite" => boot.user \in User)
    BY <1>1, <1>2 DEF TypeOK, AccountsInv
  <1>11. browser'[b].at # "insert" /\ browser[b].at \notin Working \cup {"credential"}
    BY <1>1, <1>4, <1>6 DEF Working
  <1>12. \A t \in Token : Offers(t) => Offers(t)'
    BY <1>2 DEF Offers, Valid
  <1> QED
    BY <1>1, <1>2, <1>6, <1>7, <1>8, <1>9, <1>10, <1>11, <1>12, AuditedAble, SideStep

(* The entry that ends a handler names a user who can log in: from here on *)
(* the foreign key keeps them.                                             *)
LEMMA WriteAuditInv ==
    ASSUME AccountsInv, NEW b \in Browser, WriteAudit(b) PROVE AccountsInv'
  <1> DEFINE v == browser[b].user
             k == browser[b].sess
             a == browser[b].about
  <1>1. TypeOK /\ browser[b].at = "audit" /\ v \in User /\ Exists(v) /\ Able(v)
        /\ k \in Session \cup {None} /\ a \in User \cup {None}
    BY ClientTypes DEF AccountsInv, WriteAudit, At, ClientInv, Working
  <1>2. UNCHANGED <<email, password, passkey, invite, session, boot, aborts, history>>
        /\ audited' = audited \cup {v}
    BY DEF WriteAudit
  <1>3. PICK c : c = [NoClient EXCEPT !.cookie = k, !.about = a]
    OBVIOUS
  <1>4. c \in Client /\ c.at = "away"
    <2>1. c = [at |-> "away", cookie |-> k, sess |-> None, user |-> None,
               token |-> None, about |-> a]
      BY <1>3 DEF NoClient
    <2> QED
      BY <1>1, <2>1, RestartFields
  <1>5. browser' = [browser EXCEPT ![b] = c]
    BY <1>3 DEF WriteAudit, Reply
  <1>6. browser' \in [Browser -> Client] /\ browser'[b] = c
        /\ \A d \in Browser \ {b} : browser'[d] = browser[d]
    BY <1>1, <1>4, <1>5 DEF TypeOK
  <1>7. TypeOK'
    BY <1>1, <1>2, <1>6 DEF TypeOK, history, Exists
  <1>8. ClientInv(browser[b])'
    <2>1. (browser[b].at)' = "away" /\ audited' # {}
      BY <1>2, <1>4, <1>6
    <2> QED
      BY <2>1 DEF ClientInv, Working
  <1>9. aborts' >= aborts /\ (boot.at = "invite" => boot.user \in User)
    BY <1>1, <1>2 DEF TypeOK, AccountsInv
  <1>10. browser'[b].at # "insert" /\ browser[b].at # "credential"
    BY <1>1, <1>4, <1>6
  <1>11. \A t \in Token : Offers(t) => Offers(t)'
    BY <1>2 DEF Offers, Valid
  <1> QED
    BY <1>1, <1>2, <1>6, <1>7, <1>8, <1>9, <1>10, <1>11, AuditedAble, SideStep

(* A failed login names a user who is there and has a password.            *)
LEMMA LoginFailsInv ==
    ASSUME AccountsInv, NEW u \in User, LoginFails(u) PROVE AccountsInv'
  <1>1. TypeOK /\ Exists(u) /\ Able(u)
    BY DEF AccountsInv, LoginFails, TypeOK, Able, CanLogIn, KnowsPassword
  <1>2. UNCHANGED <<email, password, passkey, invite, session, browser, boot, aborts, history>>
        /\ audited' = audited \cup {u}
    BY DEF LoginFails
  <1>3. TypeOK'
    BY <1>1, <1>2 DEF TypeOK, history, Exists
  <1>4. aborts' >= aborts /\ (boot.at = "invite" => boot.user \in User)
    BY <1>1, <1>2 DEF TypeOK, AccountsInv
  <1>5. \A t \in Token : Offers(t) => Offers(t)'
    BY <1>2 DEF Offers, Valid
  <1> QED
    BY <1>1, <1>2, <1>3, <1>4, <1>5, AuditedAble, SideStep

-----------------------------------------------------------------------------
(* The steps that insert and delete a user *)

(* A user who is inserted is new, and nobody else changes.                 *)
LEMMA NewUser ==
    ASSUME AccountsInv, NEW u \in User, NEW e \in Email, email[u] = None,
           email' = [email EXCEPT ![u] = e],
           UNCHANGED <<password, passkey, session, audited, gaveUp>>
    PROVE  /\ email' \in [User -> Email \cup {None, Gone}] /\ email'[u] = e
           /\ Kept /\ Exists(u)' /\ \A v \in User : Exists(v) => Exists(v)'
           /\ \A v \in User : Exists(v)' => v = u \/ Exists(v)
           /\ \A v \in User : CanLogIn(v)' <=> CanLogIn(v)
           /\ password' \cup passkey' \subseteq {v \in User : Exists(v)'}
           /\ (\A s \in Session : session[s] # None => Exists(session[s]) /\ Able(session[s]))'
           /\ (audited = {} => \A v \in User : email[v] # Gone)'
           /\ AdminsStay'
  <1>1. email \in [User -> Email \cup {None, Gone}]
        /\ password \cup passkey \subseteq {v \in User : Exists(v)}
        /\ session \in [Session -> User \cup {None}]
        /\ \A s \in Session : session[s] # None => Exists(session[s]) /\ Able(session[s])
    BY DEF AccountsInv, TypeOK
  <1>2. email' \in [User -> Email \cup {None, Gone}] /\ email'[u] = e
        /\ \A v \in User \ {u} : email'[v] = email[v]
    BY <1>1
  <1>3. Exists(u)' /\ (\A v \in User : Exists(v) => Exists(v)')
        /\ \A v \in User : Exists(v)' => v = u \/ Exists(v)
    BY <1>2, NamesAssumption DEF Exists
  <1>4. \A v \in User : (CanLogIn(v)' <=> CanLogIn(v)) /\ (Able(v)' <=> Able(v))
    BY DEF CanLogIn, KnowsPassword, KnowsPasskey, Able
  <1>5. Kept
    BY <1>2, <1>3, <1>4, NamesAssumption DEF Kept
  <1>6. password' \cup passkey' \subseteq {v \in User : Exists(v)'}
    BY <1>1, <1>3
  <1>7. ASSUME NEW s \in Session, session'[s] # None
        PROVE  (Exists(session[s]) /\ Able(session[s]))'
    <2>1. session'[s] = session[s] /\ session[s] \in User
          /\ Exists(session[s]) /\ Able(session[s])
      BY <1>1, <1>7
    <2>2. \A v \in User : v = session[s] => Exists(v)' /\ Able(v)'
      BY <1>3, <1>4, <2>1
    <2>3. ASSUME NEW v \in User, v = session'[s], Exists(v)', Able(v)'
          PROVE  (Exists(session[s]) /\ Able(session[s]))'
      BY <2>3 DEF Exists, Able, CanLogIn, KnowsPassword, KnowsPasskey
    <2> QED
      BY <2>1, <2>2, <2>3
  <1>8. (audited = {} => \A v \in User : email[v] # Gone)'
    BY <1>2, NamesAssumption DEF AccountsInv
  <1>9. AdminsStay'
    BY <1>3, <1>5, AuditedAble, AdminsStep
  <1> QED
    BY <1>2, <1>3, <1>4, <1>5, <1>6, <1>7, <1>8, <1>9

(* The sentinel is a user without a way in, known by the address Root.     *)
LEMMA BootInsertInv ==
    ASSUME AccountsInv, NEW u \in User, BootInsert(u) PROVE AccountsInv'
  <1>1. TypeOK /\ email[u] = None /\ email' = [email EXCEPT ![u] = Root]
        /\ Root \in Email
    BY NamesAssumption DEF AccountsInv, BootInsert
  <1>2. UNCHANGED <<password, passkey, invite, session, audited, browser, aborts, history>>
        /\ boot' = [at |-> "invite", user |-> u]
    BY DEF BootInsert
  <1>3. /\ email' \in [User -> Email \cup {None, Gone}] /\ email'[u] = Root
        /\ Kept /\ Exists(u)' /\ \A v \in User : Exists(v) => Exists(v)'
        /\ \A v \in User : Exists(v)' => v = u \/ Exists(v)
        /\ \A v \in User : CanLogIn(v)' <=> CanLogIn(v)
        /\ password' \cup passkey' \subseteq {v \in User : Exists(v)'}
        /\ (\A s \in Session : session[s] # None => Exists(session[s]) /\ Able(session[s]))'
        /\ (audited = {} => \A v \in User : email[v] # Gone)'
        /\ AdminsStay'
    BY <1>1, <1>2, NewUser DEF history
  <1>4. boot' \in [at : {"idle", "insert", "invite"}, user : User \cup {None}]
        /\ boot'.at = "invite" /\ boot'.user = u
    BY <1>2
  <1>5. TypeOK'
    <2>1. \A t \in Token : {invite'[t].by, invite'[t].used} \subseteq
                               {v \in User : Exists(v)'} \cup {None}
      BY <1>1, <1>2, <1>3 DEF TypeOK
    <2> QED
      BY <1>1, <1>2, <1>3, <1>4, <2>1 DEF TypeOK, history
  <1>6. \A d \in Browser : ClientInv(browser[d])'
    BY <1>2, <1>3, ClientsStep
  <1>7. (\A t \in Token : InviteInv(t))' /\ OneUserPerInvite'
    BY <1>2, InvitesStep DEF history, At
  <1>8. EveryUserHasWayIn'
    <2>1. \A v \in User : Exists(v)' /\ ~CanLogIn(v)' =>
              (Exists(v) /\ ~CanLogIn(v) /\ email'[v] = email[v]) \/ email'[v] = Root
      BY <1>1, <1>3 DEF TypeOK
    <2> QED
      BY <1>2, <2>1, WaysInStep DEF history
  <1>9. WayToBegin'
    BY <1>4 DEF WayToBegin
  <1> QED
    BY <1>3, <1>4, <1>5, <1>6, <1>7, <1>8, <1>9 DEF AccountsInv

(* The user and the mark on the invite are written together.               *)
LEMMA ConsumeInv ==
    ASSUME AccountsInv, NEW b \in Browser, NEW u \in User, NEW e \in Email, Consume(b, u, e)
    PROVE  AccountsInv'
  <1> DEFINE t == browser[b].token
  <1>1. TypeOK /\ browser[b].at = "insert" /\ t \in Token /\ email[u] = None
        /\ email' = [email EXCEPT ![u] = e]
    BY DEF AccountsInv, Consume, At, ClientInv
  <1>2. UNCHANGED <<password, passkey, session, audited, boot, aborts, raced, lost, gaveUp>>
        /\ born' = [born EXCEPT ![t] = @ \cup {u}]
        /\ invite' = IF invite[t].by = None THEN invite ELSE [invite EXCEPT ![t].used = u]
    BY DEF Consume
  <1>3. /\ email' \in [User -> Email \cup {None, Gone}] /\ email'[u] = e
        /\ Kept /\ Exists(u)' /\ \A v \in User : Exists(v) => Exists(v)'
        /\ \A v \in User : Exists(v)' => v = u \/ Exists(v)
        /\ \A v \in User : CanLogIn(v)' <=> CanLogIn(v)
        /\ password' \cup passkey' \subseteq {v \in User : Exists(v)'}
        /\ (\A s \in Session : session[s] # None => Exists(session[s]) /\ Able(session[s]))'
        /\ (audited = {} => \A v \in User : email[v] # Gone)'
        /\ AdminsStay'
    BY <1>1, <1>2, NewUser
  <1>4. PICK c : c = [browser[b] EXCEPT !.at = "credential", !.user = u]
    OBVIOUS
  <1>5. c \in Client /\ c.at = "credential" /\ c.user = u /\ c.cookie = browser[b].cookie
    BY <1>1, <1>4, ClientTypes DEF Client, Steps
  <1>6. browser' = [browser EXCEPT ![b] = c]
    BY <1>1, <1>4 DEF Consume, TypeOK, Client
  <1>7. browser' \in [Browser -> Client] /\ browser'[b] = c
        /\ \A d \in Browser \ {b} : browser'[d] = browser[d]
    BY <1>1, <1>5, <1>6 DEF TypeOK
  <1>8. /\ invite' \in [Token -> Invite] /\ \A r \in Token \ {t} : invite'[r] = invite[r]
        /\ \A r \in Token : invite'[r].by = invite[r].by
        /\ invite'[t].by # None => invite'[t].used = u
        /\ \A r \in Token : invite'[r].used \in {u, invite[r].used}
    BY <1>1, <1>2 DEF TypeOK, Invite
  <1>9. born' \in [Token -> SUBSET User] /\ born'[t] = born[t] \cup {u}
        /\ \A r \in Token \ {t} : born'[r] = born[r]
    BY <1>1, <1>2 DEF TypeOK
  <1>10. TypeOK'
    <2>1. \A r \in Token : {invite'[r].by, invite'[r].used} \subseteq
                               {v \in User : Exists(v)'} \cup {None}
      BY <1>1, <1>3, <1>8 DEF TypeOK
    <2> QED
      BY <1>1, <1>2, <1>3, <1>7, <1>8, <1>9, <2>1 DEF TypeOK
  <1>11. \A d \in Browser : ClientInv(browser[d])'
    <2>1. ClientInv(browser[b])'
      <3>1. (browser[b].at)' = "credential" /\ (browser[b].user)' = u
            /\ (browser[b].cookie)' = browser[b].cookie /\ email'[u] # None
        BY <1>3, <1>5, <1>7, NamesAssumption
      <3> QED
        BY <1>2, <3>1, CookieInv DEF ClientInv, Working
    <2> QED
      BY <1>3, <1>7, <2>1, ClientsStep
  <1>12. ASSUME NEW r \in Token PROVE InviteInv(r)'
    <2>1. InviteInv(r) /\ InviteInv(t)
      BY <1>1 DEF AccountsInv
    <2>2. \A d \in Browser : Inserting(d, r)' => d # b /\ Inserting(d, r)
      BY <1>5, <1>7 DEF Inserting, At
    <2>3. CASE r = t
      <3>1. r \notin raced => \A d \in Browser : ~Inserting(d, r)'
        BY <1>1, <2>1, <2>2, <2>3 DEF InviteInv, Inserting, At
      <3> QED
        BY <1>2, <1>8, <2>3, <3>1, NamesAssumption DEF InviteInv
    <2>4. CASE r # t
      BY <1>2, <1>8, <1>9, <2>1, <2>2, <2>4 DEF InviteInv
    <2> QED
      BY <2>3, <2>4
  <1>13. OneUserPerInvite'
    <2>1. t \notin raced => born[t] = {}
      <3>1. InviteInv(t) /\ Inserting(b, t)
        BY <1>1 DEF AccountsInv, Inserting, At
      <3> QED
        BY <3>1 DEF InviteInv
    <2> QED
      BY <1>2, <1>9, <2>1 DEF AccountsInv, OneUserPerInvite
  <1>14. EveryUserHasWayIn'
    <2>1. At(b, "credential")' /\ browser'[b].user = u
      BY <1>5, <1>7 DEF At
    <2>2. \A v \in User : Exists(v)' /\ ~CanLogIn(v)' =>
              \/ Exists(v) /\ ~CanLogIn(v) /\ email'[v] = email[v]
              \/ \E d \in Browser : At(d, "credential")' /\ browser'[d].user = v
      BY <1>1, <1>3, <2>1 DEF TypeOK
    <2>3. ~At(b, "credential")
      BY <1>1 DEF At
    <2> QED
      BY <1>2, <1>7, <2>2, <2>3, WaysInStep
  <1>15. WayToBegin'
    BY <1>5, <1>7 DEF WayToBegin
  <1>16. (boot.at = "invite" => boot.user \in User)'
    BY <1>2 DEF AccountsInv
  <1> QED
    BY <1>3, <1>10, <1>11, <1>12, <1>13, <1>14, <1>15, <1>16 DEF AccountsInv

(* A user who is deleted is named by no entry of the audit log, and takes  *)
(* along what the foreign keys let go: nobody else loses a way in.         *)
LEMMA DeleteUserInv ==
    ASSUME AccountsInv, NEW b \in Browser, NEW v \in User, DeleteUser(b, v)
    PROVE  AccountsInv'
  <1>0. PICK w : w = browser[b].user
    OBVIOUS
  <1>1. TypeOK /\ browser[b].at = "handler" /\ audited # {} /\ Exists(v) /\ v # w
        /\ w \in User /\ email[w] # None /\ (Exists(w) => Able(w))
    BY <1>0, CookieInv DEF AccountsInv, DeleteUser, Offered, At, ClientInv, Working
  <1>2. v \notin audited /\ \A t \in Token : invite[t].used # v
    BY DEF DeleteUser, Deletable, HasUsedInvite, HasActed
  <1>3. UNCHANGED <<audited, boot, aborts, history>>
        /\ email' = [email EXCEPT ![v] = Gone]
        /\ password' = password \ {v} /\ passkey' = passkey \ {v}
        /\ session' = [s \in Session |-> IF session[s] = v THEN None ELSE session[s]]
        /\ invite' = [t \in Token |-> IF invite[t].by = v THEN NoInvite ELSE invite[t]]
    BY DEF DeleteUser, Cascade
  <1>4. PICK c : c = [browser[b] EXCEPT !.at = "audit", !.about = v]
    OBVIOUS
  <1>5. c \in Client /\ c.at = "audit" /\ c.user = w
    BY <1>0, <1>1, <1>4, ClientTypes DEF Client, Steps
  <1>6. browser' = [browser EXCEPT ![b] = c]
    BY <1>1, <1>4 DEF DeleteUser, AskDelete, TypeOK, Client
  <1>7. browser' \in [Browser -> Client] /\ browser'[b] = c
        /\ \A d \in Browser \ {b} : browser'[d] = browser[d]
    BY <1>1, <1>5, <1>6 DEF TypeOK
  <1>8. email' \in [User -> Email \cup {None, Gone}] /\ email'[v] = Gone
        /\ \A u \in User \ {v} : email'[u] = email[u]
    BY <1>1, <1>3 DEF TypeOK
  <1>9. ~Exists(v)' /\ \A u \in User \ {v} : Exists(u)' <=> Exists(u)
    BY <1>8, NamesAssumption DEF Exists
  <1>10. \A u \in User \ {v} : (CanLogIn(u)' <=> CanLogIn(u)) /\ (Able(u)' <=> Able(u))
    BY <1>3 DEF CanLogIn, KnowsPassword, KnowsPasskey, Able, history
  <1>11. Kept
    BY <1>3, <1>8, <1>9, <1>10, NamesAssumption DEF Kept
  <1>12. /\ invite' \in [Token -> Invite]
         /\ \A t \in Token :
                \/ invite'[t] = invite[t] /\ invite[t].by # v
                \/ invite'[t].by = None /\ invite'[t].used = None
    BY <1>1, <1>3 DEF TypeOK, Invite, NoInvite
  <1>13. session' \in [Session -> User \cup {None}]
         /\ \A s \in Session : session'[s] # None =>
                session'[s] = session[s] /\ session[s] \in User \ {v}
    BY <1>1, <1>3 DEF TypeOK
  <1>14. \A s \in Session : session'[s] # None =>
             (Exists(session[s]))' /\ (Able(session[s]))'
    <2> SUFFICES ASSUME NEW s \in Session, session'[s] # None
                 PROVE  (Exists(session[s]))' /\ (Able(session[s]))'
      OBVIOUS
    <2>1. PICK u \in User \ {v} : u = session[s] /\ u = session'[s]
      BY <1>13
    <2>2. Exists(u)' /\ Able(u)'
      BY <1>9, <1>10, <1>13, <2>1 DEF AccountsInv, TypeOK
    <2> QED
      BY <2>1, <2>2 DEF Exists, Able, CanLogIn, KnowsPassword, KnowsPasskey
  <1>15. TypeOK'
    <2>1. \A t \in Token : {invite'[t].by, invite'[t].used} \subseteq
                               {u \in User : Exists(u)'} \cup {None}
      BY <1>1, <1>2, <1>9, <1>12 DEF TypeOK
    <2>2. password' \cup passkey' \subseteq {u \in User : Exists(u)'}
      BY <1>1, <1>3, <1>9 DEF TypeOK
    <2> QED
      BY <1>1, <1>3, <1>7, <1>8, <1>12, <1>13, <1>14, <2>1, <2>2 DEF TypeOK, history
  <1>16. \A d \in Browser : ClientInv(browser[d])'
    <2>1. ClientInv(browser[b])'
      <3>1. (browser[b].at)' = "audit" /\ (browser[b].user)' = w
        BY <1>5, <1>7
      <3>2. email'[w] # None /\ (Exists(w)' => Able(w)')
        BY <1>1, <1>8, <1>9, <1>10
      <3> QED
        BY <1>1, <1>3, <3>1, <3>2
           DEF ClientInv, Working, Exists, Able, CanLogIn, KnowsPassword, KnowsPasskey
    <2> QED
      BY <1>7, <1>11, <2>1, ClientsStep
  <1>17. (\A t \in Token : InviteInv(t))' /\ OneUserPerInvite'
    <2>1. \A t \in Token : invite'[t].by # None =>
              invite[t].by # None /\ invite'[t].used = invite[t].used
      BY <1>12
    <2>2. \A d \in Browser : At(d, "insert")' => browser'[d] = browser[d]
      BY <1>5, <1>7 DEF At
    <2> QED
      BY <1>3, <2>1, <2>2, InvitesStep DEF history
  <1>18. EveryUserHasWayIn'
    <2>1. \A u \in User : Exists(u)' /\ ~CanLogIn(u)' =>
              Exists(u) /\ ~CanLogIn(u) /\ email'[u] = email[u]
      BY <1>8, <1>9, <1>10
    <2>2. ~At(b, "credential")
      BY <1>1 DEF At
    <2> QED
      BY <1>3, <1>7, <2>1, <2>2, WaysInStep DEF history
  <1>19. AdminsStay'
    <2>1. \A u \in audited' : u \in User /\ Exists(u)' /\ u \in audited
      BY <1>2, <1>3, <1>9, AuditedAble
    <2> QED
      BY <1>11, <2>1, AdminsStep
  <1>20. WayToBegin' /\ (audited = {} => \A u \in User : email[u] # Gone)'
    BY <1>1, <1>3 DEF WayToBegin
  <1>21. (boot.at = "invite" => boot.user \in User)'
    BY <1>3 DEF AccountsInv
  <1> QED
    BY <1>14, <1>15, <1>16, <1>17, <1>18, <1>19, <1>20, <1>21 DEF AccountsInv

-----------------------------------------------------------------------------
(* Theorems *)

(* The invariant holds of the empty tables.                                *)
LEMMA InitInv == Init => AccountsInv
  <1> SUFFICES ASSUME Init PROVE AccountsInv
    OBVIOUS
  <1>1. NoClient \in Client /\ NoClient.at = "away" /\ NoClient.cookie = None
    BY DEF NoClient, Client, Steps
  <1>2. NoInvite \in Invite /\ NoInvite.by = None /\ NoInvite.used = None
    BY DEF NoInvite, Invite
  <1>3. NoBoot \in [at : {"idle", "insert", "invite"}, user : User \cup {None}]
        /\ NoBoot.at = "idle"
    BY DEF NoBoot
  <1>4. TypeOK
    BY <1>1, <1>2, <1>3 DEF Init, TypeOK, Exists
  <1>5. \A b \in Browser : browser[b] = NoClient /\ ClientInv(browser[b])
    BY <1>1 DEF Init, ClientInv, Working
  <1>6. \A u \in User : ~Exists(u) /\ email[u] # Gone
    BY NamesAssumption DEF Init, Exists
  <1>7. (\A t \in Token : InviteInv(t)) /\ OneUserPerInvite
    BY <1>1, <1>5 DEF Init, InviteInv, OneUserPerInvite, Inserting, At
  <1>8. EveryUserHasWayIn /\ AdminsStay /\ WayToBegin
    BY <1>6 DEF Init, EveryUserHasWayIn, AdminsStay, WayToBegin
  <1> QED
    BY <1>3, <1>4, <1>5, <1>6, <1>7, <1>8 DEF Init, AccountsInv

(* Every step keeps the invariant.                                         *)
LEMMA StepInv == AccountsInv /\ [Next]_vars => AccountsInv'
  <1> SUFFICES ASSUME AccountsInv, [Next]_vars PROVE AccountsInv'
    OBVIOUS
  <1>1. CASE BootRead \/ BootAbort
    BY <1>1, BootInv
  <1>2. CASE \E u \in User : BootInsert(u) \/ LoginFails(u)
    BY <1>2, BootInsertInv, LoginFailsInv
  <1>3. CASE \E t \in Token : BootInvite(t) \/ InviteExpires(t)
    BY <1>3, BootInviteInv, InviteExpiresInv
  <1>4. CASE \E s \in Session : SessionExpires(s)
    BY <1>4, SessionExpiresInv
  <1>5. CASE \E b \in Browser : Enroll(b)
    <2>1. PICK b \in Browser : Enroll(b)
      BY <1>5
    <2>2. CASE \E t \in Token : OpenForm(b, t)
      BY <2>2, OpenFormInv
    <2>3. CASE \E e \in Email : AddressTaken(b, e) \/ \E u \in User : Consume(b, u, e)
      BY <2>3, CloseFormInv, ConsumeInv
    <2>4. CASE CloseForm(b) \/ InviteRefused(b)
      BY <2>4, CloseFormInv
    <2>5. CASE ReadInvite(b) \/ StorePassword(b) \/ StorePasskey(b) \/ NotVerified(b)
      BY <2>5, ReadInviteInv, StoreInv, NotVerifiedInv
    <2> QED
      BY <2>1, <2>2, <2>3, <2>4, <2>5 DEF Enroll
  <1>6. CASE \E b \in Browser : Act(b)
    <2>1. PICK b \in Browser : Act(b)
      BY <1>6
    <2>2. CASE Authenticate(b) \/ \E t \in Token : CreateInvite(b, t)
      BY <2>2, AuthenticateInv, CreateInviteInv
    <2>3. CASE \E v \in User : DeleteUser(b, v) \/ DeleteRefused(b, v)
      BY <2>3, DeleteUserInv, DeleteRefusedInv
    <2>4. CASE RemovePasskey(b) \/ SetUpPassword(b) \/ LogOut(b)
      BY <2>4, RemovePasskeyInv, StoreInv, LogOutInv
    <2> QED
      BY <2>1, <2>2, <2>3, <2>4 DEF Act
  <1>7. CASE \E b \in Browser :
               \/ \E s \in Session : NewSession(b, s)
               \/ \E u \in User : PasswordLogIn(b, u) \/ PasskeyLogIn(b, u)
    BY <1>7, NewSessionInv, LogInInv
  <1>8. CASE \E b \in Browser : WriteAudit(b) \/ Refused(b) \/ Abort(b)
    BY <1>8, WriteAuditInv, RefusedInv, AbortInv
  <1>9. CASE UNCHANGED vars
    BY <1>9 DEF vars, tables, history, AccountsInv, TypeOK, ClientInv, InviteInv, Inserting,
                At, Exists, Able, CanLogIn, KnowsPassword, KnowsPasskey, OneUserPerInvite,
                EveryUserHasWayIn, AdminsStay, WayToBegin, Valid
  <1> QED
    BY <1>1, <1>2, <1>3, <1>4, <1>5, <1>6, <1>7, <1>8, <1>9 DEF Next

(* Whatever browsers, the installer and aborted requests do, the tables     *)
(* keep the invariant.                                                     *)
THEOREM AccountsInvariant == Spec => []AccountsInv
  BY InitInv, StepInv, PTL DEF Spec

(* Rows, sessions and requests keep their types, and no row names a user    *)
(* that is gone (schema.ts: the foreign keys).                             *)
THEOREM TypeCorrect == Spec => []TypeOK
  <1>1. AccountsInv => TypeOK
    BY DEF AccountsInv
  <1> QED
    BY <1>1, AccountsInvariant, PTL

(* An invite no two enrollments have read at once makes one user at most    *)
(* (invites.ts:22-37).                                                     *)
THEOREM InviteMakesOneUser == Spec => []OneUserPerInvite
  <1>1. AccountsInv => OneUserPerInvite
    BY DEF AccountsInv
  <1> QED
    BY <1>1, AccountsInvariant, PTL

(* A user without a way in is one of the four kinds the code makes          *)
(* (auth.ts:146-172, users.ts:33-53, bootstrap.ts).                        *)
THEOREM UsersHaveWayIn == Spec => []EveryUserHasWayIn
  <1>1. AccountsInv => EveryUserHasWayIn
    BY DEF AccountsInv
  <1> QED
    BY <1>1, AccountsInvariant, PTL

(* Whoever has acted stays and can log in, unless they gave that up         *)
(* themselves (schema.ts:175-187, users.ts:65-79).                         *)
THEOREM ActedUsersStay == Spec => []AdminsStay
  <1>1. AccountsInv => AdminsStay
    BY DEF AccountsInv
  <1> QED
    BY <1>1, AccountsInvariant, PTL

(* Until somebody is in, an installation that loses no request and no       *)
(* invite can be begun (bootstrap.ts:16-37).                               *)
THEOREM BeginningStaysPossible == Spec => []WayToBegin
  <1>1. AccountsInv => WayToBegin
    BY DEF AccountsInv
  <1> QED
    BY <1>1, AccountsInvariant, PTL

=============================================================================
