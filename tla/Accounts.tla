------------------------------ MODULE Accounts ------------------------------
(***************************************************************************)
(* The accounts of flyc-control: users, memberships of a tenant, sessions  *)
(* and OIDC states (control/internal/auth, api/session.go), the first      *)
(* administrator that bootstrap creates, and the hourly purge.             *)
(*                                                                         *)
(* An action is one SQL statement or one operation on a file.  A request   *)
(* is authenticated in a statement of its own and acts in later ones.  A   *)
(* request that is refused has the effects of a "look": its session may    *)
(* have been prolonged.  Passwords and TOTP secrets are named by the       *)
(* request that made them, accounts, sessions and states by their order.   *)
(***************************************************************************)
EXTENDS Integers, Sequences, FiniteSets

CONSTANTS
    Email,          \* addresses
    AdminEmail,     \* FLYC_OIDC_ADMIN_EMAILS
    Localhost,      \* admin@localhost
    Claims,         \* what the OIDC provider answers: subjects and addresses
    Starts,         \* accounts, sessions and OIDC states of an installation
    Handlers,       \* how many requests may be in flight
    Edits,          \* how many requests
    Ages,           \* how often a session or a state gets older
    Faults          \* how many lost statements and restarts

Subject == {c.sub : c \in Claims}
NoOne == 0                  \* no subject, no password, no secret, no session
ASSUME ProviderAssumption ==
    /\ Localhost \in Email /\ AdminEmail \subseteq Email
    /\ \A c \in Claims : c.email \in Email /\ c.sub # NoOne
ASSUME LimitsAssumption == Handlers \in Nat /\ Edits \in Nat /\ Ages \in Nat /\ Faults \in Nat

Gone == [gone |-> TRUE]     \* a row that was deleted
NoClaim == [sub |-> NoOne, email |-> Localhost]
Account == [email : Email, pw : Nat, sub : Subject \cup {NoOne}, secret : Nat,
            enabled : BOOLEAN, admin : BOOLEAN]
Cookie == [user : Nat, age : {"fresh", "due", "expired"}]
Trip == [age : {"open", "old"}]     \* a row of oidc_states

\* The passwords bootstrap makes, a new one for every attempt.
FirstPasswords == (Edits + 1)..(Edits + 1 + Faults)

\* What an installation holds when control is started: rows as the tables allow
\* them, an administrator if there is any account, a secret where TOTP is
\* enabled, and passwords other than those still to be made.
ASSUME StartsAssumption ==
    \A s \in Starts :
        /\ s.users \in Seq(Account) /\ s.sessions \in Seq(Cookie) /\ s.states \in Seq(Trip)
        /\ \A u, v \in DOMAIN s.users : u # v =>
              /\ s.users[u].email # s.users[v].email
              /\ s.users[u].sub = s.users[v].sub => s.users[u].sub = NoOne
        /\ \A i \in DOMAIN s.sessions : s.sessions[i].user \in DOMAIN s.users
        /\ s.users # <<>> => \E u \in DOMAIN s.users : s.users[u].admin
        /\ \A u \in DOMAIN s.users :
              /\ s.users[u].enabled => s.users[u].secret # NoOne
              /\ s.users[u].pw \notin FirstPasswords

VARIABLES
    users,      \* table users
    member,     \* table memberships, of one tenant: users
    sessions,   \* table sessions
    states,     \* table oidc_states
    boot,       \* where main is: bootstrap, or serving
    file,       \* initial-admin-password.txt
    req,        \* the handlers in flight
    proved,     \* history: secrets whose code was checked
    past,       \* history: what the code does not guard against, see Mishaps
    left        \* the requests, ageings and faults still to come

db == <<users, member, sessions, states>>
process == <<boot, file>>
vars == <<db, process, req, proved, past, left>>

Rows(table) == {i \in DOMAIN table : table[i] # Gone}
Owned(u) == {s \in Rows(sessions) : sessions[s].user = u}
Admins == {u \in Rows(users) : users[u].admin}

\* A statement of a handler was lost on the way to the database; an administrator
\* was deleted by a key, or by one whose own account was gone by then; one deleted
\* himself under another spelling of his id; the secret was replaced between the
\* check of its code and the statement that enables it; the insertion of the
\* first administrator went through and its answer did not.
Mishaps == {"lost", "unattended", "disguised", "overtaken", "unanswered"}

Spend(kind) == left[kind] > 0 /\ left' = [left EXCEPT ![kind] = @ - 1]

Init ==
    /\ \E s \in Starts : users = s.users /\ sessions = s.sessions /\ states = s.states
    /\ member = {}
    /\ boot = "count" /\ file = NoOne
    /\ req = {}
    /\ proved = {users[u].secret : u \in {v \in DOMAIN users : users[v].enabled}}
    /\ past = {}
    /\ left = [edits |-> Edits, ages |-> Ages, faults |-> Faults]

-----------------------------------------------------------------------------
(***************************************************************************)
(* The start: ensureAdmin.                                                 *)
(***************************************************************************)

\* Mutant: the accounts are not counted.
CountUsersNot == "write"

\* An administrator is made only if there is no account at all.
CountUsers == IF Rows(users) = {} THEN "write" ELSE "up"

Count ==
    /\ boot = "count" /\ boot' = CountUsers
    /\ UNCHANGED <<db, file, req, proved, past, left>>

\* randHex: a password of its own for every attempt.
FirstPassword == Edits + 1 + left.faults

\* The file comes before the row.
WriteFile ==
    /\ boot = "write" /\ boot' = "insert"
    /\ file' = FirstPassword
    /\ UNCHANGED <<db, req, proved, past, left>>

\* Mutant: no index.
ClashNone(email, sub) == FALSE

\* The unique indexes on lower(email) and oidc_subject.
Clash(email, sub) ==
    \E v \in Rows(users) :
        users[v].email = email \/ (sub # NoOne /\ users[v].sub = sub)

Inserted(email, pw, sub, admin) ==
    Append(users, [email |-> email, pw |-> pw, sub |-> sub, secret |-> NoOne,
                   enabled |-> FALSE, admin |-> admin])

InsertAdmin ==
    /\ boot = "insert" /\ boot' = "up"
    /\ users' = Inserted(Localhost, file, NoOne, TRUE)
    /\ UNCHANGED <<member, sessions, states, file, req, proved, past, left>>

\* An error removes the file again and ends the process, which is started anew;
\* the insertion may have been carried out.
InsertAdminErr ==
    /\ boot = "insert" /\ boot' = "count"
    /\ file' = NoOne
    /\ Spend("faults")
    /\ \/ UNCHANGED <<users, past>>
       \/ /\ users' = Inserted(Localhost, file, NoOne, TRUE)
          /\ past' = past \cup {"unanswered"}
    /\ UNCHANGED <<member, sessions, states, req, proved>>

\* Control dies, anywhere.
Restart ==
    /\ Spend("faults")
    /\ boot' = "count" /\ req' = {}
    /\ UNCHANGED <<db, file, proved, past>>

-----------------------------------------------------------------------------
(***************************************************************************)
(* Time, and the purge of every hour.                                      *)
(***************************************************************************)

\* Half an hour: due to be prolonged.  Twelve hours: over.
Age ==
    /\ Spend("ages")
    /\ \E s \in Rows(sessions), next \in {"due", "expired"} :
          /\ sessions[s].age # next
          /\ next = "due" => sessions[s].age = "fresh"
          /\ sessions' = [sessions EXCEPT ![s].age = next]
    /\ UNCHANGED <<users, member, states, process, req, proved, past>>

\* Fifteen minutes.
StateAges ==
    /\ Spend("ages")
    /\ \E t \in Rows(states) : states[t].age = "open" /\ states' = [states EXCEPT ![t].age = "old"]
    /\ UNCHANGED <<users, member, sessions, process, req, proved, past>>

Without(table, ids) == [i \in DOMAIN table |-> IF i \in ids THEN Gone ELSE table[i]]

Expired(s) == sessions[s].age = "expired"

\* Mutant: once, at the start.
PurgeOnce ==
    /\ boot = "up" /\ left.edits = Edits
    /\ sessions' = Without(sessions, {s \in Rows(sessions) : Expired(s)})
    /\ states' = Without(states, {t \in Rows(states) : states[t].age = "old"})
    /\ UNCHANGED <<users, member, process, req, proved, past, left>>

\* Its two statements touch different tables and ignore their errors: one that
\* fails is made up for by the next.
Purge ==
    /\ boot = "up"
    /\ sessions' = Without(sessions, {s \in Rows(sessions) : Expired(s)})
    /\ states' = Without(states, {t \in Rows(states) : states[t].age = "old"})
    /\ UNCHANGED <<users, member, process, req, proved, past, left>>

-----------------------------------------------------------------------------
(***************************************************************************)
(* Requests: who asks (by, a session; NoOne for an API key or for a        *)
(* visitor who is not connected), about whom (user), the statement it is   *)
(* at, and its locals.  before is history: the sessions of the account     *)
(* when its password was changed.                                          *)
(***************************************************************************)

Own == {"look", "password", "setup", "enable", "disable"}               \* session
Platform == {"create", "delete", "reset", "put member", "delete member"} \* platform

Begin(op, by, user, at) ==
    /\ boot = "up" /\ Cardinality(req) < Handlers
    /\ Spend("edits")
    /\ req' = req \cup {[id |-> left.edits, op |-> op, by |-> by, user |-> user, at |-> at,
                         claims |-> NoClaim, secret |-> NoOne, before |-> {}]}

Answer(r) == req' = req \ {r}
Proceed(r, next) == req' = (req \ {r}) \cup {next}
Continue(r, at) == Proceed(r, [r EXCEPT !.at = at])

\* Mutant: the expiry is not looked at.
ValidAny(s) == s \in Rows(sessions)

\* The select of Current.
Valid(s) == s \in Rows(sessions) /\ ~Expired(s)

\* authenticateSession: who is connected, read once for the whole request.
Authenticate ==
    /\ \E s \in DOMAIN sessions, op \in Own \cup Platform :
          /\ Valid(s)
          /\ op \in Platform => sessions[s].user \in Admins
          /\ Begin(op, s, sessions[s].user,
                   IF sessions[s].age = "fresh" THEN "act" ELSE "slide")
    /\ UNCHANGED <<db, process, proved, past>>

\* An API key of the platform.
AuthenticateKey ==
    /\ \E op \in Platform : Begin(op, NoOne, NoOne, "act")
    /\ UNCHANGED <<db, process, proved, past>>

\* The second statement of Current: twelve hours from now, if the row is there.
Slide(r) ==
    /\ r.at = "slide"
    /\ sessions' = IF r.by \in Rows(sessions) THEN [sessions EXCEPT ![r.by].age = "fresh"]
                   ELSE sessions
    /\ Continue(r, "act")
    /\ UNCHANGED <<users, member, states, process, proved, past, left>>

\* Nothing to do: GET, or a refusal.
Look(r) ==
    /\ r.op = "look" /\ r.at = "act"
    /\ Answer(r)
    /\ UNCHANGED <<db, process, proved, past, left>>

Logout ==
    /\ boot = "up" /\ Spend("edits")
    /\ \E s \in Rows(sessions) : sessions' = Without(sessions, {s})
    /\ UNCHANGED <<users, member, states, process, req, proved, past>>

\* Sessions.Create.  The foreign key refuses a session of an account that is gone.
Create(r) ==
    /\ r.at = "session"
    /\ sessions' = IF r.user \in Rows(users)
                   THEN Append(sessions, [user |-> r.user, age |-> "fresh"]) ELSE sessions
    /\ Answer(r)
    /\ UNCHANGED <<users, member, states, process, proved, past, left>>

\* A password that is set, and with TOTP a secret to check a code against.
Login ==
    /\ \E u \in Rows(users) :
          /\ users[u].pw # NoOne
          /\ users[u].enabled => users[u].secret # NoOne
          /\ Begin("login", NoOne, u, "session")
    /\ UNCHANGED <<db, process, proved, past>>

-----------------------------------------------------------------------------
(* OIDC *)

OidcStart ==
    /\ boot = "up" /\ Spend("edits")
    /\ states' = Append(states, [age |-> "open"])
    /\ UNCHANGED <<users, member, sessions, process, req, proved, past>>

\* delete ... returning: whoever gets the row goes on.
Callback ==
    /\ \E t \in Rows(states) : states[t].age = "open" /\ states' = Without(states, {t})
    /\ Begin("callback", NoOne, NoOne, "find")
    /\ UNCHANGED <<users, member, sessions, process, proved, past>>

\* Exchange, then the account of the subject or of the address; if two accounts
\* match, either.
Find(r) ==
    /\ r.at = "find"
    /\ \/ Answer(r)
       \/ \E c \in Claims :
             LET found == {u \in Rows(users) : users[u].sub = c.sub \/ users[u].email = c.email} IN
             \/ found = {} /\ Proceed(r, [r EXCEPT !.at = "insert", !.claims = c])
             \/ \E u \in found : Proceed(r, [r EXCEPT !.at = "bind", !.claims = c, !.user = u])
    /\ UNCHANGED <<db, process, proved, past, left>>

InsertUser(r) ==
    /\ r.at = "insert"
    /\ IF Clash(r.claims.email, r.claims.sub) THEN Answer(r) /\ UNCHANGED users
       ELSE /\ users' = Inserted(r.claims.email, NoOne, r.claims.sub, r.claims.email \in AdminEmail)
            /\ Proceed(r, [r EXCEPT !.at = "session", !.user = Len(users')])
    /\ UNCHANGED <<member, sessions, states, process, proved, past, left>>

AfterBind(r) == IF r.claims.email \in AdminEmail THEN "grant" ELSE "session"

\* Amend the row of u, if there is one.
Amended(u, row) == IF u \in Rows(users) THEN [users EXCEPT ![u] = row] ELSE users

\* The subject may be another account's: that error is ignored.
Bind(r) ==
    /\ r.at = "bind"
    /\ users' = IF \E v \in Rows(users) \ {r.user} : users[v].sub = r.claims.sub THEN users
                ELSE Amended(r.user, [users[r.user] EXCEPT !.sub = r.claims.sub])
    /\ Continue(r, AfterBind(r))
    /\ UNCHANGED <<member, sessions, states, process, proved, past, left>>

Grant(r) ==
    /\ r.at = "grant"
    /\ users' = Amended(r.user, [users[r.user] EXCEPT !.admin = TRUE])
    /\ Continue(r, "session")
    /\ UNCHANGED <<member, sessions, states, process, proved, past, left>>

-----------------------------------------------------------------------------
(* The account of the one who is connected *)

ChangePassword(r) ==
    /\ r.op = "password" /\ r.at = "act"
    /\ users' = Amended(r.user, [users[r.user] EXCEPT !.pw = r.id])
    /\ Proceed(r, [r EXCEPT !.at = "destroy", !.before = Owned(r.user)])
    /\ UNCHANGED <<member, sessions, states, process, proved, past, left>>

\* A password that was reset opens no session.
AfterDestroy(r) ==
    IF r.op = "password" THEN Continue(r, "session") ELSE Answer(r)

\* Mutant: only the session of the request.
DestroyedOwn(r) == {r.by} \cap Rows(sessions)

Destroyed(r) == Owned(r.user)

DestroyAll(r) ==
    /\ r.at = "destroy"
    /\ sessions' = Without(sessions, Destroyed(r))
    /\ AfterDestroy(r)
    /\ UNCHANGED <<users, member, states, process, proved, past, left>>

\* Mutant: what was enabled stays so.
WithSecretOnly(row, id) == [row EXCEPT !.secret = id]

\* A new secret is not enabled yet.
WithSecret(row, id) == [row EXCEPT !.secret = id, !.enabled = FALSE]

TotpSetup(r) ==
    /\ r.op = "setup" /\ r.at = "act"
    /\ users' = Amended(r.user, WithSecret(users[r.user], r.id))
    /\ Answer(r)
    /\ UNCHANGED <<member, sessions, states, process, proved, past, left>>

\* The secret is read and a code checked against it ...
TotpCheck(r) ==
    /\ r.op = "enable" /\ r.at = "act"
    /\ IF r.user \notin Rows(users) \/ users[r.user].secret = NoOne
       THEN Answer(r) /\ UNCHANGED proved
       ELSE /\ Proceed(r, [r EXCEPT !.at = "enable", !.secret = users[r.user].secret])
            /\ proved' = proved \cup {users[r.user].secret}
    /\ UNCHANGED <<db, process, past, left>>

\* ... and whatever the secret is by now is enabled.
TotpEnable(r) ==
    /\ r.at = "enable"
    /\ users' = Amended(r.user, [users[r.user] EXCEPT !.enabled = TRUE])
    /\ past' = IF r.user \in Rows(users) /\ users[r.user].secret # r.secret
               THEN past \cup {"overtaken"} ELSE past
    /\ Answer(r)
    /\ UNCHANGED <<member, sessions, states, process, proved, left>>

TotpDisable(r) ==
    /\ r.op = "disable" /\ r.at = "act"
    /\ users' = Amended(r.user, [users[r.user] EXCEPT !.enabled = FALSE, !.secret = NoOne])
    /\ Answer(r)
    /\ UNCHANGED <<member, sessions, states, process, proved, past, left>>

-----------------------------------------------------------------------------
(* The accounts of others; the target is chosen when it is used. *)

\* The tenant is optional.
CreateUser(r) ==
    /\ r.op = "create" /\ r.at = "act"
    /\ \E e \in Email, admin \in BOOLEAN :
          IF Clash(e, NoOne) THEN Answer(r) /\ UNCHANGED users
          ELSE /\ users' = Inserted(e, r.id, NoOne, admin)
               /\ Answer(r) \/ Proceed(r, [r EXCEPT !.at = "join", !.user = Len(users')])
    /\ UNCHANGED <<member, sessions, states, process, proved, past, left>>

\* The foreign key refuses an account that is gone; no tenant of the name, no row.
JoinTenant(r) ==
    /\ r.at = "join"
    /\ member' \in {member, member \cup ({r.user} \cap Rows(users))}
    /\ Answer(r)
    /\ UNCHANGED <<users, sessions, states, process, proved, past, left>>

\* Mutant: one may delete oneself.
MayDeleteAny(r, u, canonical) == TRUE

\* The id in the path is compared as a text: in capitals or without hyphens it is
\* not one's own.
MayDelete(r, u, canonical) == canonical => u # r.user

\* The statement takes the text for a uuid, however it is spelt.  Memberships and
\* sessions go with the account.
DeleteUser(r) ==
    /\ r.op = "delete" /\ r.at = "act"
    /\ \E u \in Rows(users), canonical \in BOOLEAN :
          /\ MayDelete(r, u, canonical)
          /\ users' = Without(users, {u})
          /\ sessions' = Without(sessions, Owned(u))
          /\ member' = member \ {u}
          /\ past' = past \cup (IF r.user \notin Rows(users) THEN {"unattended"} ELSE {})
                         \cup (IF u = r.user /\ ~canonical THEN {"disguised"} ELSE {})
    /\ Answer(r)
    /\ UNCHANGED <<states, process, proved, left>>

ResetUserPassword(r) ==
    /\ r.op = "reset" /\ r.at = "act"
    /\ \E u \in Rows(users) :
          /\ users' = [users EXCEPT ![u].pw = r.id, ![u].enabled = FALSE, ![u].secret = NoOne]
          /\ Proceed(r, [r EXCEPT !.at = "destroy", !.user = u, !.before = Owned(u)])
    /\ UNCHANGED <<member, sessions, states, process, proved, past, left>>

PutMember(r) ==
    /\ r.op = "put member" /\ r.at = "act"
    /\ \E u \in Rows(users) : member' = member \cup {u}
    /\ Answer(r)
    /\ UNCHANGED <<users, sessions, states, process, proved, past, left>>

DeleteMember(r) ==
    /\ r.op = "delete member" /\ r.at = "act"
    /\ \E u \in Rows(users) : member' = member \ {u}
    /\ Answer(r)
    /\ UNCHANGED <<users, sessions, states, process, proved, past, left>>

\* The statement a request is at is lost: where the code ignores that the request
\* goes on, elsewhere it ends in an error.
Lost(r) ==
    /\ Spend("faults")
    /\ past' = past \cup {"lost"}
    /\ CASE r.at = "slide" -> Continue(r, "act")
         [] r.at = "bind" -> Continue(r, AfterBind(r))
         [] r.at = "grant" -> Continue(r, "session")
         [] r.at = "destroy" -> AfterDestroy(r)
         [] OTHER -> Answer(r)
    /\ UNCHANGED <<db, process, proved>>

-----------------------------------------------------------------------------
EnsureAdmin == Count \/ WriteFile \/ InsertAdmin \/ InsertAdminErr

Statement(r) ==
    \/ Slide(r) \/ Look(r) \/ Create(r)
    \/ Find(r) \/ InsertUser(r) \/ Bind(r) \/ Grant(r)
    \/ ChangePassword(r) \/ DestroyAll(r)
    \/ TotpSetup(r) \/ TotpCheck(r) \/ TotpEnable(r) \/ TotpDisable(r)
    \/ CreateUser(r) \/ JoinTenant(r) \/ DeleteUser(r) \/ ResetUserPassword(r)
    \/ PutMember(r) \/ DeleteMember(r)
    \/ Lost(r)

Next ==
    \/ EnsureAdmin \/ Restart
    \/ Age \/ StateAges \/ Purge
    \/ Authenticate \/ AuthenticateKey \/ Login \/ Logout \/ OidcStart \/ Callback
    \/ \E r \in req : Statement(r)

Spec == Init /\ [][Next]_vars

\* main is started and goes on, and purges every hour.
FairSpec == Spec /\ WF_vars(EnsureAdmin) /\ WF_vars(Purge)

-----------------------------------------------------------------------------
Request ==
    [id : Nat, op : Own \cup Platform \cup {"login", "callback"}, by : Nat, user : Nat,
     at : {"slide", "act", "session", "find", "insert", "bind", "grant", "destroy", "enable",
           "join"},
     claims : Claims \cup {NoClaim}, secret : Nat, before : SUBSET Nat]

TablesOK ==
    /\ users \in Seq(Account \cup {Gone})
    /\ sessions \in Seq(Cookie \cup {Gone})
    /\ states \in Seq(Trip \cup {Gone})

OneAccountEach ==
    \A u, v \in Rows(users) : u # v =>
        /\ users[u].email # users[v].email
        /\ users[u].sub = users[v].sub => users[u].sub = NoOne

NoOrphans ==
    /\ \A s \in Rows(sessions) : sessions[s].user \in Rows(users)
    /\ member \subseteq Rows(users)

ProcessOK ==
    /\ boot \in {"count", "write", "insert", "up"} /\ file \in Nat
    /\ req \subseteq Request
    /\ proved \subseteq Nat \ {NoOne} /\ past \subseteq Mishaps
    /\ left \in [edits : 0..Edits, ages : 0..Ages, faults : 0..Faults]

\* The type of every variable.  Addresses and subjects lead to one account, and
\* sessions and memberships to one that exists, however insertions, callbacks
\* and deletions interleave.
AccountsTypeOK == TablesOK /\ OneAccountEach /\ NoOrphans /\ ProcessOK

Over(s) == s \notin Rows(sessions) \/ Expired(s)
Asking(s) == {r.id : r \in {x \in req : x.by = s}}

\* A session that is deleted does not come back, and one that has expired does
\* not either, but for a request that found it valid before: prolonging is a
\* statement of its own, which may come after a logout, a change of password, a
\* deletion or the purge.  No request is let in with it.
SessionOver ==
    [][\A s \in DOMAIN sessions :
          /\ sessions[s] = Gone => sessions'[s] = Gone
          /\ Over(s) => Asking(s)' \subseteq Asking(s)
          /\ Over(s) /\ (\A r \in req : r.by = s => r.at # "slide") => Over(s)']_vars

\* When a change of password is answered, by the owner or by an administrator,
\* every session the account had when the password changed is gone, whatever
\* requests with it have done since.  That the statement was not lost is a
\* premise: DestroyAll ignores its error.
ChangeRevokes ==
    [][\A r \in req : "lost" \notin past' /\ boot' = "up" /\ r.op \in {"password", "reset"}
          /\ {x \in req' : x.id = r.id} = {} =>
              \A s \in r.before : sessions'[s] = Gone]_vars

\* Short of a deletion by an API key, by one who was deleted meanwhile, or of
\* oneself under another spelling of the id, a platform administrator is left:
\* whoever deletes an account is an administrator who stays.
AdminRemains == boot = "up" /\ past \cap {"unattended", "disguised"} = {} => Admins # {}

\* As long as the first administrator has the password bootstrap gave him, the
\* file holds it, wherever control dies at the start and however often it starts:
\* nothing else in the system knows it.  A lost answer of the insertion is the
\* premise: the file is removed and the account stays.
FirstPasswordKept ==
    "unanswered" \notin past =>
        \A u \in Rows(users) : users[u].pw \in FirstPasswords => file = users[u].pw

\* An account that asks for a code can be entered: there is a secret, and its
\* owner has shown a code made with it.  The check and the statement that enables
\* it must not be overtaken by another change of the secret; the code does not
\* prevent that.
TotpUsable ==
    "overtaken" \notin past =>
        \A u \in Rows(users) : users[u].enabled => users[u].secret \in proved

\* Expired sessions and states do not pile up.
Purged ==
    /\ \A s \in 1..(Edits + 2) :
          []<>(s \in Rows(sessions) => ~Expired(s))
    /\ \A t \in 1..(Edits + 2) : []<>(t \in Rows(states) => states[t].age # "old")
=============================================================================
