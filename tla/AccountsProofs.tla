---------------------------- MODULE AccountsProofs ----------------------------
(***************************************************************************)
(* Theorems about Accounts, for any addresses, claims and installations,   *)
(* and any number of requests in flight, restarts and lost statements.     *)
(***************************************************************************)
EXTENDS Accounts, SequenceTheorems, TLAPS

\* Nothing is served before bootstrap is done, and the first administrator is
\* made where there is no account.
BootInv ==
    /\ boot # "up" => req = {}
    /\ boot \in {"write", "insert"} => Rows(users) = {}

Federated == {"find", "insert", "bind", "grant"}

\* Which statements which request is at, and what it knows there.
Lawful(r) ==
    /\ r.id \in 1..Edits
    /\ r.user \in 0..Len(users)
    /\ r.at \in Federated => r.op = "callback"
    /\ r.at = "session" => r.op \in {"login", "callback", "password"}
    /\ r.at = "destroy" => r.op \in {"password", "reset"}
    /\ r.at = "join" => r.op = "create"
    /\ r.at = "enable" => r.op = "enable" /\ r.secret \in proved
    /\ r.op = "delete" /\ r.user \in Rows(users) => users[r.user].admin

RequestInv == \A r \in req : Lawful(r)

\* Where there is an account there is an administrator, and control that serves
\* has one.
AdminInv ==
    past \cap {"unattended", "disguised"} = {} /\ (boot = "up" \/ Rows(users) # {}) => Admins # {}

\* How far a request has got with the sessions it has to revoke.
Revoking(r) ==
    "lost" \notin past /\ r.op \in {"password", "reset"} =>
        /\ r.at \in {"slide", "act"} => r.before = {}
        /\ r.at = "destroy" =>
              \A s \in r.before : /\ s \in DOMAIN sessions
                                  /\ sessions[s] = Gone \/ sessions[s].user = r.user
        /\ r.at = "session" => \A s \in r.before : s \in DOMAIN sessions /\ sessions[s] = Gone

RevokeInv == \A r \in req : Revoking(r)

AccountsInv ==
    /\ BootInv /\ RequestInv /\ AdminInv /\ RevokeInv
    /\ FirstPasswordKept /\ TotpUsable

-----------------------------------------------------------------------------
(* Tables *)

\* A row that is there is not one that was deleted.
LEMMA RowIsNotGone ==
    /\ \A row \in Account : row # Gone
    /\ \A row \in Cookie : row # Gone
    /\ \A row \in Trip : row # Gone
<1>1. DOMAIN Gone = {"gone"}
  BY DEF Gone
<1>2. \A row \in Account : "email" \in DOMAIN row
  BY DEF Account
<1>3. \A row \in Cookie : "user" \in DOMAIN row
  BY DEF Cookie
<1>4. \A row \in Trip : "age" \in DOMAIN row
  BY DEF Trip
<1>5. "email" # "gone" /\ "user" # "gone" /\ "age" # "gone"
  OBVIOUS
<1> QED
  BY <1>1, <1>2, <1>3, <1>4, <1>5

NewId(table) == Len(table) + 1
Added(table, row) == Append(table, row)
Put(table, u, row) == [table EXCEPT ![u] = row]

\* An insertion adds one row at the end.
LEMMA AppendRow ==
    ASSUME NEW S, NEW table \in Seq(S), NEW row \in S \ {Gone}
    PROVE  /\ Added(table, row) \in Seq(S) /\ Len(Added(table, row)) = NewId(table)
           /\ Added(table, row)[NewId(table)] = row
           /\ \A i \in DOMAIN table : Added(table, row)[i] = table[i]
           /\ Rows(Added(table, row)) = Rows(table) \cup {NewId(table)}
<1>0. PICK n : n = Len(table) + 1
  OBVIOUS
<1> DEFINE new == Added(table, row)
<1>1. /\ new \in Seq(S) /\ Len(new) = Len(table) + 1
      /\ \A i \in 1..Len(table) : new[i] = table[i]
      /\ new[Len(table) + 1] = row
  BY AppendProperties DEF Added
<1>2. Len(table) \in Nat /\ DOMAIN table = 1..Len(table) /\ DOMAIN new = 1..Len(new)
  BY <1>1, LenProperties
<1>3. DOMAIN new = DOMAIN table \cup {n} /\ n \notin DOMAIN table
  BY <1>0, <1>1, <1>2
<1> HIDE DEF new
<1>4. Rows(new) = Rows(table) \cup {n}
  BY <1>0, <1>1, <1>2, <1>3 DEF Rows
<1> QED
  BY <1>0, <1>1, <1>2, <1>3, <1>4 DEF new, NewId

\* An update of a row changes that row.
LEMMA AmendRow ==
    ASSUME NEW S, NEW table \in Seq(S), NEW u \in Rows(table), NEW row \in S \ {Gone}
    PROVE  LET new == Put(table, u, row)
           IN  /\ new \in Seq(S) /\ Len(new) = Len(table)
               /\ DOMAIN new = DOMAIN table /\ new[u] = row
               /\ \A i \in DOMAIN table : i # u => new[i] = table[i]
               /\ Rows(new) = Rows(table)
<1> DEFINE new == Put(table, u, row)
<1>1. u \in 1..Len(table) /\ DOMAIN table = 1..Len(table) /\ Len(table) \in Nat
  BY LenProperties DEF Rows
<1>2. new \in Seq(S) /\ Len(new) = Len(table) /\ DOMAIN new = DOMAIN table
  BY <1>1, ExceptSeq DEF Put
<1>3. new[u] = row /\ \A i \in DOMAIN table : i # u => new[i] = table[i]
  BY <1>1 DEF Put
<1> HIDE DEF new
<1>4. Rows(new) = Rows(table)
  BY <1>1, <1>2, <1>3 DEF Rows
<1> QED
  BY <1>2, <1>3, <1>4 DEF new

\* A deletion leaves the other rows.
LEMMA DeleteRows ==
    ASSUME NEW S, Gone \in S, NEW table \in Seq(S), NEW ids
    PROVE  LET new == Without(table, ids)
           IN  /\ new \in Seq(S) /\ Len(new) = Len(table)
               /\ DOMAIN new = DOMAIN table
               /\ \A i \in DOMAIN table : new[i] = IF i \in ids THEN Gone ELSE table[i]
               /\ Rows(new) = Rows(table) \ ids
<1> DEFINE new == Without(table, ids)
<1>1. DOMAIN table = 1..Len(table) /\ Len(table) \in Nat
      /\ \A i \in 1..Len(table) : table[i] \in S
  BY LenProperties, ElementOfSeq
<1>2. new = [i \in 1..Len(table) |-> IF i \in ids THEN Gone ELSE table[i]]
  BY <1>1 DEF Without
<1>3. new \in Seq(S)
  BY <1>1, <1>2, IsASeq
<1>4. DOMAIN new = 1..Len(table) /\ \A i \in 1..Len(table) : new[i] = IF i \in ids THEN Gone ELSE table[i]
  BY <1>2
<1>5. Len(new) = Len(table)
  BY <1>1, <1>3, <1>4, LenProperties
<1> HIDE DEF new
<1>6. Rows(new) = Rows(table) \ ids
  BY <1>1, <1>4 DEF Rows
<1> QED
  BY <1>1, <1>3, <1>4, <1>5, <1>6 DEF new

-----------------------------------------------------------------------------
(* What a step does to the table users *)

Inserts(row) ==
    /\ row \in Account /\ users' = Append(users, row)
    /\ row.enabled = FALSE
    /\ boot # "up" => row.admin
    /\ row.pw \in FirstPasswords /\ "unanswered" \notin past' => file' = row.pw
    /\ \A v \in Rows(users) : /\ users[v].email # row.email
                              /\ users[v].sub = row.sub => row.sub = NoOne

\* Nothing but bootstrap makes a first password, and what is enabled was proved.
Prudent(u, row) ==
    /\ row.pw = users[u].pw \/ row.pw \notin FirstPasswords
    /\ row.enabled /\ "overtaken" \notin past' =>
          row.secret \in proved' \/ (users[u].enabled /\ row.secret = users[u].secret)

Updates(u, row) ==
    /\ u \in Rows(users) /\ row \in Account /\ users' = [users EXCEPT ![u] = row]
    /\ row.email = users[u].email
    /\ users[u].admin => row.admin
    /\ \/ row.sub = users[u].sub
       \/ \A v \in Rows(users) \ {u} : users[v].sub # row.sub
    /\ Prudent(u, row)

Deletes(u) ==
    /\ u \in Rows(users) /\ users' = Without(users, {u})
    /\ sessions' = Without(sessions, Owned(u)) /\ member' = member \ {u}
    /\ \E r \in req : /\ r.op = "delete"
                      /\ u # r.user \/ "disguised" \in past'
                      /\ r.user \in Rows(users) \/ "unattended" \in past'

\* One row at a time is inserted, updated or deleted.
OneRow ==
    \/ users' = users
    \/ \E row : Inserts(row)
    \/ \E u, row : Updates(u, row)
    \/ \E u : Deletes(u)

\* The rows of accounts are well typed.
LEMMA AccountRows ==
    ASSUME AccountsTypeOK, NEW u \in Rows(users)
    PROVE  /\ users[u] \in Account /\ u \in 1..Len(users) /\ Len(users) \in Nat
           /\ users[u].email \in Email /\ users[u].pw \in Nat /\ users[u].secret \in Nat
           /\ users[u].sub \in Subject \cup {NoOne}
           /\ users[u].enabled \in BOOLEAN /\ users[u].admin \in BOOLEAN
<1>1. users \in Seq(Account \cup {Gone}) /\ u \in DOMAIN users /\ users[u] # Gone
  BY DEF AccountsTypeOK, TablesOK, Rows
<1>2. u \in 1..Len(users) /\ Len(users) \in Nat
  BY <1>1, LenProperties
<1>3. users[u] \in Account
  BY <1>1, <1>2, ElementOfSeq
<1> QED
  BY <1>2, <1>3 DEF Account

\* An update that leaves address, subject and administrator alone.
LEMMA PlainUpdate ==
    ASSUME AccountsTypeOK, NEW u, NEW row,
           users' = Amended(u, row),
           u \in Rows(users) =>
              /\ row \in Account /\ row.email = users[u].email
              /\ row.sub = users[u].sub
              /\ users[u].admin => row.admin
              /\ Prudent(u, row)
    PROVE  OneRow
<1>1. CASE u \in Rows(users)
  <2>1. Updates(u, row)
    <3>1. users' = [users EXCEPT ![u] = row]
      BY <1>1 DEF Amended
    <3> QED
      BY <1>1, <3>1, Zenon DEF Updates
  <2> QED
    BY <2>1 DEF OneRow
<1>2. CASE u \notin Rows(users)
  BY <1>2 DEF Amended, OneRow
<1> QED
  BY <1>1, <1>2

\* An insertion that the unique indexes allow.
LEMMA PlainInsert ==
    ASSUME AccountsTypeOK, NEW email \in Email, NEW pw \in Nat, NEW sub \in Subject \cup {NoOne},
           NEW admin \in BOOLEAN, ~Clash(email, sub), users' = Inserted(email, pw, sub, admin),
           boot # "up" => admin,
           pw \in FirstPasswords /\ "unanswered" \notin past' => file' = pw
    PROVE  \E row : Inserts(row)
<1> DEFINE row == [email |-> email, pw |-> pw, sub |-> sub, secret |-> NoOne,
                   enabled |-> FALSE, admin |-> admin]
<1>1. row \in Account
  BY DEF Account, NoOne
<1>2. row.email = email /\ row.sub = sub /\ row.pw = pw /\ row.admin = admin
      /\ row.enabled = FALSE /\ row.secret = NoOne
  OBVIOUS
<1>3. users' = Append(users, row)
  BY DEF Inserted
<1> HIDE DEF row
<1>4. Inserts(row)
  BY <1>1, <1>2, <1>3 DEF Inserts, Clash
<1> QED
  BY <1>2, <1>4

\* The fields of a request.
LEMMA RequestFields ==
    ASSUME AccountsTypeOK, NEW r \in req
    PROVE  /\ r \in Request /\ r.id \in Nat /\ r.by \in Nat /\ r.user \in Nat /\ r.secret \in Nat
           /\ r.op \in Own \cup Platform \cup {"login", "callback"}
           /\ r.before \in SUBSET Nat
           /\ r.claims.sub \in Subject \cup {NoOne} /\ r.claims.email \in Email
<1>1. r \in Request
  BY DEF AccountsTypeOK, ProcessOK
<1>2. r.claims \in Claims \cup {NoClaim}
  BY <1>1 DEF Request
<1>3. r.claims.sub \in Subject \cup {NoOne} /\ r.claims.email \in Email
  BY <1>2, ProviderAssumption DEF NoClaim, Subject
<1> QED
  BY <1>1, <1>3 DEF Request

\* The first administrator clashes with nobody.
LEMMA FirstInsert ==
    ASSUME AccountsTypeOK, BootInv, boot = "insert",
           users' = Inserted(Localhost, file, NoOne, TRUE),
           file' = file \/ "unanswered" \in past'
    PROVE  \E row : Inserts(row)
<1>1. file \in Nat /\ Localhost \in Email
  BY ProviderAssumption DEF AccountsTypeOK, ProcessOK
<1>2. ~Clash(Localhost, NoOne)
  BY DEF BootInv, Clash
<1> QED
  BY <1>1, <1>2, PlainInsert

\* Every step treats the table one row at a time, and keeps its indexes.
LEMMA OneRowStep ==
    ASSUME AccountsTypeOK, BootInv, RequestInv, [Next]_vars
    PROVE  OneRow
<1>0. ASSUME NEW r \in req
      PROVE  /\ boot = "up" /\ r.id \notin FirstPasswords /\ NoOne \notin FirstPasswords
             /\ r.at = "enable" => r.secret \in proved
  <2>1. r.id \in 1..Edits /\ (r.at = "enable" => r.secret \in proved) /\ boot = "up"
    BY DEF RequestInv, Lawful, BootInv
  <2> QED
    BY <2>1, LimitsAssumption DEF FirstPasswords, NoOne
<1>1. ASSUME users' = users PROVE OneRow
  BY <1>1 DEF OneRow
<1>2. ASSUME InsertAdmin \/ InsertAdminErr PROVE OneRow
  BY <1>1, <1>2, FirstInsert DEF InsertAdmin, InsertAdminErr, OneRow
<1>3. ASSUME NEW r \in req, InsertUser(r) PROVE OneRow
  <2>1. CASE Clash(r.claims.email, r.claims.sub)
    BY <1>1, <1>3, <2>1 DEF InsertUser
  <2>2. CASE ~Clash(r.claims.email, r.claims.sub)
    <3>1. users' = Inserted(r.claims.email, NoOne, r.claims.sub, r.claims.email \in AdminEmail)
      BY <1>3, <2>2 DEF InsertUser
    <3>2. r.claims.sub \in Subject \cup {NoOne} /\ r.claims.email \in Email
      BY RequestFields
    <3>3. NoOne \in Nat /\ (r.claims.email \in AdminEmail) \in BOOLEAN
      BY DEF NoOne
    <3> QED
      BY <1>0, <2>2, <3>1, <3>2, <3>3, PlainInsert DEF OneRow
  <2> QED
    BY <2>1, <2>2
<1>4. ASSUME NEW r \in req, Bind(r) PROVE OneRow
  <2>1. CASE users' = users
    BY <1>1, <2>1
  <2>2. CASE users' # users
    <3>1. /\ r.user \in Rows(users)
          /\ users' = [users EXCEPT ![r.user] = [users[r.user] EXCEPT !.sub = r.claims.sub]]
          /\ \A v \in Rows(users) \ {r.user} : users[v].sub # r.claims.sub
      BY <1>4, <2>2 DEF Bind, Amended
    <3>2. users[r.user] \in Account /\ r.claims.sub \in Subject \cup {NoOne}
      BY <3>1, AccountRows, RequestFields
    <3> DEFINE row == [users[r.user] EXCEPT !.sub = r.claims.sub]
    <3>3. row \in Account
      BY <3>2, Zenon DEF Account
    <3>4. /\ row.email = users[r.user].email /\ row.admin = users[r.user].admin
          /\ row.sub = r.claims.sub /\ users' = [users EXCEPT ![r.user] = row]
          /\ row.pw = users[r.user].pw /\ row.secret = users[r.user].secret
          /\ row.enabled = users[r.user].enabled
      BY <3>1, <3>2 DEF Account
    <3> HIDE DEF row
    <3>5. Updates(r.user, row)
      BY <3>1, <3>3, <3>4 DEF Updates, Prudent
    <3> QED
      BY <3>5 DEF OneRow
  <2> QED
    BY <2>1, <2>2
<1>5. ASSUME NEW r \in req, Grant(r) PROVE OneRow
  <2>1. ASSUME r.user \in Rows(users)
        PROVE  LET row == [users[r.user] EXCEPT !.admin = TRUE]
               IN  /\ row \in Account /\ row.email = users[r.user].email
                   /\ row.sub = users[r.user].sub /\ row.admin
                   /\ row.pw = users[r.user].pw
                   /\ row.secret = users[r.user].secret
                   /\ row.enabled = users[r.user].enabled
    BY <2>1, AccountRows DEF Account
  <2>2. ASSUME r.user \in Rows(users)
        PROVE  Prudent(r.user, [users[r.user] EXCEPT !.admin = TRUE])
    BY <1>0, <2>1, <2>2 DEF Prudent
  <2> QED
    BY <1>5, <2>1, <2>2, PlainUpdate DEF Grant
<1>6. ASSUME NEW r \in req, ChangePassword(r) PROVE OneRow
  <2>1. ASSUME r.user \in Rows(users)
        PROVE  LET row == [users[r.user] EXCEPT !.pw = r.id]
               IN  /\ row \in Account /\ row.email = users[r.user].email
                   /\ row.sub = users[r.user].sub /\ row.admin = users[r.user].admin
                   /\ row.pw = r.id
                   /\ row.secret = users[r.user].secret
                   /\ row.enabled = users[r.user].enabled
    BY <2>1, AccountRows, RequestFields DEF Account
  <2>2. ASSUME r.user \in Rows(users)
        PROVE  Prudent(r.user, [users[r.user] EXCEPT !.pw = r.id])
    BY <1>0, <2>1, <2>2 DEF Prudent
  <2> QED
    BY <1>6, <2>1, <2>2, PlainUpdate DEF ChangePassword
<1>7. ASSUME NEW r \in req, TotpSetup(r) PROVE OneRow
  <2>1. ASSUME r.user \in Rows(users)
        PROVE  LET row == WithSecret(users[r.user], r.id)
               IN  /\ row \in Account /\ row.email = users[r.user].email
                   /\ row.sub = users[r.user].sub /\ row.admin = users[r.user].admin
                   /\ row.pw = users[r.user].pw
                   /\ row.enabled = FALSE
    BY <2>1, AccountRows, RequestFields DEF Account, WithSecret
  <2>2. ASSUME r.user \in Rows(users)
        PROVE  Prudent(r.user, WithSecret(users[r.user], r.id))
    BY <1>0, <2>1, <2>2 DEF Prudent
  <2> QED
    BY <1>7, <2>1, <2>2, PlainUpdate DEF TotpSetup
<1>8. ASSUME NEW r \in req, TotpEnable(r) PROVE OneRow
  <2>1. ASSUME r.user \in Rows(users)
        PROVE  LET row == [users[r.user] EXCEPT !.enabled = TRUE]
               IN  /\ row \in Account /\ row.email = users[r.user].email
                   /\ row.sub = users[r.user].sub /\ row.admin = users[r.user].admin
                   /\ row.pw = users[r.user].pw
                   /\ row.secret = users[r.user].secret
    BY <2>1, AccountRows DEF Account
  <2>2. ASSUME r.user \in Rows(users)
        PROVE  Prudent(r.user, [users[r.user] EXCEPT !.enabled = TRUE])
    BY <1>0, <1>8, <2>1, <2>2 DEF Prudent, TotpEnable
  <2> QED
    BY <1>8, <2>1, <2>2, PlainUpdate DEF TotpEnable
<1>9. ASSUME NEW r \in req, TotpDisable(r) PROVE OneRow
  <2>1. ASSUME r.user \in Rows(users)
        PROVE  LET row == [users[r.user] EXCEPT !.enabled = FALSE, !.secret = NoOne]
               IN  /\ row \in Account /\ row.email = users[r.user].email
                   /\ row.sub = users[r.user].sub /\ row.admin = users[r.user].admin
                   /\ row.pw = users[r.user].pw
                   /\ row.enabled = FALSE
    BY <2>1, AccountRows DEF Account, NoOne
  <2>2. ASSUME r.user \in Rows(users)
        PROVE  Prudent(r.user, [users[r.user] EXCEPT !.enabled = FALSE, !.secret = NoOne])
    BY <1>0, <2>1, <2>2 DEF Prudent
  <2> QED
    BY <1>9, <2>1, <2>2, PlainUpdate DEF TotpDisable
<1>10. ASSUME NEW r \in req, CreateUser(r) PROVE OneRow
  <2>1. PICK e \in Email, admin \in BOOLEAN :
            IF Clash(e, NoOne) THEN UNCHANGED users ELSE users' = Inserted(e, r.id, NoOne, admin)
    BY <1>10 DEF CreateUser
  <2>2. CASE Clash(e, NoOne)
    BY <1>1, <2>1, <2>2
  <2>3. CASE ~Clash(e, NoOne)
    BY <1>0, <2>1, <2>3, RequestFields, PlainInsert DEF OneRow
  <2> QED
    BY <2>2, <2>3
<1>11. ASSUME NEW r \in req, DeleteUser(r) PROVE OneRow
  BY <1>11 DEF DeleteUser, MayDelete, OneRow, Deletes
<1>12. ASSUME NEW r \in req, ResetUserPassword(r) PROVE OneRow
  <2>1. PICK u \in Rows(users) :
            users' = [users EXCEPT ![u].pw = r.id, ![u].enabled = FALSE, ![u].secret = NoOne]
    BY <1>12 DEF ResetUserPassword
  <2> DEFINE row == [users[u] EXCEPT !.pw = r.id, !.enabled = FALSE, !.secret = NoOne]
  <2>2. users' = [users EXCEPT ![u] = row]
    <3>1. DOMAIN users = 1..Len(users) /\ u \in DOMAIN users
      BY LenProperties DEF AccountsTypeOK, TablesOK, Rows
    <3> QED
      BY <2>1, <3>1
  <2>3. /\ row \in Account /\ row.email = users[u].email
        /\ row.sub = users[u].sub /\ row.admin = users[u].admin
        /\ row.pw = r.id /\ row.enabled = FALSE
    BY AccountRows, RequestFields DEF Account, NoOne
  <2> HIDE DEF row
  <2> QED
    BY <1>0, <2>2, <2>3 DEF OneRow, Updates, Prudent
<1>13. ASSUME NEW r \in req, Statement(r) PROVE OneRow
  BY <1>1, <1>3, <1>4, <1>5, <1>6, <1>7, <1>8, <1>9, <1>10, <1>11, <1>12, <1>13
  DEF Statement, Slide, Look, Create, Find, DestroyAll, TotpCheck, JoinTenant, PutMember,
      DeleteMember, Lost, db
<1>14. CASE UNCHANGED vars
  BY <1>1, <1>14 DEF vars, db
<1> QED
  BY <1>1, <1>2, <1>13, <1>14
  DEF Next, EnsureAdmin, Count, WriteFile, Restart, Age, StateAges, Purge, Authenticate,
      AuthenticateKey, Login, Logout, OidcStart, Callback, db

\* What follows for the table: its rows and its indexes.
LEMMA UsersAfter ==
    ASSUME AccountsTypeOK, OneRow
    PROVE  /\ users' \in Seq(Account \cup {Gone}) /\ OneAccountEach'
           /\ Len(users) \in Nat /\ Len(users') \in Nat /\ Len(users) <= Len(users')
           /\ \A u \in 0..Len(users) : u \in Rows(users') =>
                 u \in Rows(users) /\ (users[u].admin => users'[u].admin)
           /\ \/ Rows(users) \subseteq Rows(users')
              \/ \E u : Deletes(u) /\ Rows(users') = Rows(users) \ {u}
<1>0. /\ users \in Seq(Account \cup {Gone}) /\ OneAccountEach
      /\ Len(users) \in Nat /\ DOMAIN users = 1..Len(users)
      /\ Rows(users) \subseteq 1..Len(users)
  <2>1. users \in Seq(Account \cup {Gone}) /\ OneAccountEach
    BY DEF AccountsTypeOK, TablesOK
  <2> QED
    BY <2>1, LenProperties DEF Rows
<1>1. CASE users' = users
  BY <1>0, <1>1 DEF OneAccountEach, Rows
<1>2. ASSUME NEW row, Inserts(row)
      PROVE  /\ users' \in Seq(Account \cup {Gone}) /\ OneAccountEach'
             /\ Len(users') = Len(users) + 1
             /\ \A u \in 0..Len(users) : u \in Rows(users') =>
                   u \in Rows(users) /\ users'[u] = users[u]
             /\ Rows(users) \subseteq Rows(users')
  <2>1. row \in (Account \cup {Gone}) \ {Gone}
    BY <1>2, RowIsNotGone DEF Inserts
  <2>2. /\ users' \in Seq(Account \cup {Gone}) /\ Len(users') = Len(users) + 1
        /\ users'[Len(users) + 1] = row
        /\ \A i \in DOMAIN users : users'[i] = users[i]
        /\ Rows(users') = Rows(users) \cup {Len(users) + 1}
    <3>1. users' = Added(users, row)
      BY <1>2 DEF Inserts, Added
    <3>2. /\ Added(users, row) \in Seq(Account \cup {Gone})
          /\ Len(Added(users, row)) = NewId(users) /\ Added(users, row)[NewId(users)] = row
          /\ \A i \in DOMAIN users : Added(users, row)[i] = users[i]
          /\ Rows(Added(users, row)) = Rows(users) \cup {NewId(users)}
      BY <1>0, <2>1, AppendRow, SMT
    <3> QED
      BY <3>1, <3>2 DEF NewId
  <2>3. \A v \in Rows(users) : users'[v] = users[v] /\ v # Len(users) + 1
    BY <1>0, <2>2
  <2>4. OneAccountEach'
    BY <1>0, <1>2, <2>2, <2>3 DEF OneAccountEach, Inserts
  <2> QED
    BY <1>0, <2>2, <2>3, <2>4
<1>3. ASSUME NEW u, NEW row, Updates(u, row)
      PROVE  /\ users' \in Seq(Account \cup {Gone}) /\ OneAccountEach'
             /\ Len(users') = Len(users) /\ Rows(users') = Rows(users)
             /\ \A v \in Rows(users) : users[v].admin => users'[v].admin
  <2>1. row \in (Account \cup {Gone}) \ {Gone} /\ u \in Rows(users)
    BY <1>3, RowIsNotGone DEF Updates
  <2>2. /\ users' \in Seq(Account \cup {Gone}) /\ Len(users') = Len(users)
        /\ users'[u] = row /\ Rows(users') = Rows(users)
        /\ \A v \in DOMAIN users : v # u => users'[v] = users[v]
    <3>1. users' = Put(users, u, row)
      BY <1>3 DEF Updates, Put
    <3>2. LET new == Put(users, u, row)
          IN  /\ new \in Seq(Account \cup {Gone}) /\ Len(new) = Len(users)
              /\ new[u] = row /\ Rows(new) = Rows(users)
              /\ \A v \in DOMAIN users : v # u => new[v] = users[v]
      BY <1>0, <2>1, AmendRow
    <3> QED
      BY <3>1, <3>2
  <2>3. \A v \in Rows(users) : users[v].admin => users'[v].admin
    <3> SUFFICES ASSUME NEW v \in Rows(users), users[v].admin PROVE users'[v].admin
      OBVIOUS
    <3>1. CASE v = u
      BY <1>3, <2>2, <3>1 DEF Updates
    <3>2. CASE v # u
      BY <1>0, <2>2, <3>2
    <3> QED
      BY <3>1, <3>2
  <2>4. OneAccountEach'
    <3> SUFFICES ASSUME NEW v \in Rows(users), NEW w \in Rows(users), v # w
                 PROVE  /\ users'[v].email # users'[w].email
                        /\ users'[v].sub = users'[w].sub => users'[v].sub = NoOne
      BY <2>2 DEF OneAccountEach
    <3>1. /\ users[v].email # users[w].email
          /\ users[v].sub = users[w].sub => users[v].sub = NoOne
      BY <1>0 DEF OneAccountEach
    <3>2. CASE v = u
      <4>1. users'[v] = row /\ users'[w] = users[w]
        BY <1>0, <2>2, <3>2
      <4> QED
        BY <1>3, <3>1, <3>2, <4>1 DEF Updates
    <3>3. CASE w = u
      <4>1. users'[w] = row /\ users'[v] = users[v]
        BY <1>0, <2>2, <3>3
      <4> QED
        BY <1>3, <3>1, <3>3, <4>1 DEF Updates
    <3>4. CASE v # u /\ w # u
      BY <1>0, <2>2, <3>1, <3>4
    <3> QED
      BY <3>2, <3>3, <3>4
  <2> QED
    BY <2>2, <2>3, <2>4
<1>4. ASSUME NEW u, Deletes(u)
      PROVE  /\ users' \in Seq(Account \cup {Gone}) /\ OneAccountEach'
             /\ Len(users') = Len(users) /\ Rows(users') = Rows(users) \ {u}
             /\ \A v \in Rows(users') : users'[v] = users[v]
  <2>1. /\ users' \in Seq(Account \cup {Gone}) /\ Len(users') = Len(users)
        /\ Rows(users') = Rows(users) \ {u}
        /\ \A v \in DOMAIN users : users'[v] = IF v \in {u} THEN Gone ELSE users[v]
    <3>1. users' = Without(users, {u})
      BY <1>4 DEF Deletes
    <3>2. LET new == Without(users, {u})
          IN  /\ new \in Seq(Account \cup {Gone}) /\ Len(new) = Len(users)
              /\ Rows(new) = Rows(users) \ {u}
              /\ \A v \in DOMAIN users : new[v] = IF v \in {u} THEN Gone ELSE users[v]
      BY <1>0, DeleteRows
    <3> QED
      BY <3>1, <3>2
  <2>2. \A v \in Rows(users') : users'[v] = users[v]
    BY <1>0, <2>1
  <2> QED
    BY <1>0, <2>1, <2>2 DEF OneAccountEach
<1>5. CASE \E row : Inserts(row)
  BY <1>0, <1>2, <1>5
<1>6. CASE \E u, row : Updates(u, row)
  BY <1>0, <1>3, <1>6
<1>7. CASE \E u : Deletes(u)
  <2>1. PICK u : Deletes(u)
    BY <1>7
  <2> QED
    BY <1>0, <1>4, <2>1
<1> QED
  BY <1>1, <1>5, <1>6, <1>7 DEF OneRow

-----------------------------------------------------------------------------
(* What a step does to the other tables *)

Opens(u) == /\ u \in Rows(users) /\ users' = users
            /\ sessions' = Append(sessions, [user |-> u, age |-> "fresh"])

\* A request found s valid and is about to prolong it.
Sliding(s) == \E r \in req : r.by = s /\ r.at = "slide"

Ages1(s, age) == /\ s \in Rows(sessions) /\ age \in {"fresh", "due", "expired"}
                 /\ sessions' = [sessions EXCEPT ![s].age = age]
                 /\ Expired(s) => Sliding(s)

Closes(ids) == sessions' = Without(sessions, ids)

OneSession ==
    \/ sessions' = sessions
    \/ \E u : Opens(u)
    \/ \E s, age : Ages1(s, age)
    \/ \E ids : Closes(ids)

\* Every step opens a session, ages or prolongs one, or deletes some.
LEMMA OneSessionStep ==
    ASSUME [Next]_vars
    PROVE  OneSession
<1>1. ASSUME sessions' = sessions PROVE OneSession
  BY <1>1 DEF OneSession
<1>2. ASSUME NEW ids, Closes(ids) PROVE OneSession
  BY <1>2 DEF OneSession
<1>3. CASE Age
  BY <1>3 DEF Age, OneSession, Ages1, Expired
<1>4. CASE Purge \/ Logout
  BY <1>2, <1>4 DEF Purge, Logout, Closes
<1>5. ASSUME NEW r \in req, Slide(r) PROVE OneSession
  BY <1>1, <1>5 DEF Slide, OneSession, Ages1, Sliding
<1>6. ASSUME NEW r \in req, Create(r) PROVE OneSession
  BY <1>1, <1>6 DEF Create, OneSession, Opens
<1>7. ASSUME NEW r \in req, DestroyAll(r) \/ DeleteUser(r) PROVE OneSession
  BY <1>2, <1>7 DEF DestroyAll, DeleteUser, Closes
<1>8. ASSUME NEW r \in req, Statement(r) PROVE OneSession
  BY <1>1, <1>5, <1>6, <1>7, <1>8
  DEF Statement, Look, Find, InsertUser, Bind, Grant, ChangePassword, TotpSetup, TotpCheck,
      TotpEnable, TotpDisable, CreateUser, JoinTenant, ResetUserPassword, PutMember,
      DeleteMember, Lost, db
<1>9. CASE UNCHANGED vars
  BY <1>1, <1>9 DEF vars, db
<1> QED
  BY <1>1, <1>3, <1>4, <1>8, <1>9
  DEF Next, EnsureAdmin, Count, WriteFile, InsertAdmin, InsertAdminErr, Restart, StateAges,
      Authenticate, AuthenticateKey, Login, OidcStart, Callback, db

\* The rows of sessions are well typed.
LEMMA SessionRows ==
    ASSUME AccountsTypeOK, NEW s \in Rows(sessions)
    PROVE  sessions[s] \in Cookie /\ s \in 1..Len(sessions)
<1>1. sessions \in Seq(Cookie \cup {Gone}) /\ s \in DOMAIN sessions /\ sessions[s] # Gone
  BY DEF AccountsTypeOK, TablesOK, Rows
<1>2. s \in 1..Len(sessions)
  BY <1>1, LenProperties
<1> QED
  BY <1>1, <1>2, ElementOfSeq

\* What follows for the table: no session comes back or changes hands.
LEMMA SessionsAfter ==
    ASSUME AccountsTypeOK, OneSession
    PROVE  /\ sessions' \in Seq(Cookie \cup {Gone})
           /\ DOMAIN sessions \subseteq DOMAIN sessions'
           /\ \A s \in DOMAIN sessions :
                 /\ sessions[s] = Gone => sessions'[s] = Gone
                 /\ sessions'[s] # Gone => sessions'[s].user = sessions[s].user
                 /\ sessions'[s] # Gone /\ Expired(s) => Sliding(s) \/ sessions'[s].age = "expired"
           /\ \A s \in Rows(sessions') : s \notin DOMAIN sessions =>
                 sessions'[s].user \in Rows(users) /\ users' = users
<1>0. /\ sessions \in Seq(Cookie \cup {Gone}) /\ Len(sessions) \in Nat
      /\ DOMAIN sessions = 1..Len(sessions)
  <2>1. sessions \in Seq(Cookie \cup {Gone})
    BY DEF AccountsTypeOK, TablesOK
  <2> QED
    BY <2>1, LenProperties
<1>1. CASE sessions' = sessions
  BY <1>0, <1>1 DEF Rows, Expired
<1>2. ASSUME NEW u, Opens(u)
      PROVE  /\ sessions' \in Seq(Cookie \cup {Gone})
             /\ DOMAIN sessions \subseteq DOMAIN sessions'
             /\ \A s \in DOMAIN sessions : sessions'[s] = sessions[s]
             /\ \A s \in Rows(sessions') : s \notin DOMAIN sessions => sessions'[s].user = u
  <2>1. PICK row : row = [user |-> u, age |-> "fresh"]
    OBVIOUS
  <2>2. row \in Cookie
    BY <1>2, <2>1, AccountRows DEF Cookie, Opens
  <2>3. row \in (Cookie \cup {Gone}) \ {Gone}
    BY <2>2, RowIsNotGone
  <2>4. /\ Added(sessions, row) \in Seq(Cookie \cup {Gone})
        /\ Len(Added(sessions, row)) = NewId(sessions) /\ Added(sessions, row)[NewId(sessions)] = row
        /\ \A i \in DOMAIN sessions : Added(sessions, row)[i] = sessions[i]
        /\ Rows(Added(sessions, row)) = Rows(sessions) \cup {NewId(sessions)}
    BY <1>0, <2>3, AppendRow, SMT
  <2>5. sessions' = Added(sessions, row)
    BY <1>2, <2>1 DEF Opens, Added
  <2>6. sessions' \in Seq(Cookie \cup {Gone}) /\ Len(sessions') = Len(sessions) + 1
    BY <2>4, <2>5 DEF NewId
  <2>7. DOMAIN sessions' = 1..(Len(sessions) + 1)
    BY <2>6, LenProperties
  <2>8. \A s \in Rows(sessions') : s \notin DOMAIN sessions => sessions'[s].user = u
    BY <2>1, <2>4, <2>5 DEF Rows
  <2> QED
    BY <1>0, <2>4, <2>5, <2>6, <2>7, <2>8
<1>3. ASSUME NEW s, NEW age, Ages1(s, age)
      PROVE  /\ sessions' \in Seq(Cookie \cup {Gone})
             /\ DOMAIN sessions' = DOMAIN sessions
             /\ \A t \in DOMAIN sessions :
                   /\ t # s => sessions'[t] = sessions[t]
                   /\ t = s => sessions'[t].user = sessions[t].user /\ sessions[t] # Gone
                   /\ t = s => (Expired(t) => Sliding(t))
  <2>0. s \in Rows(sessions) /\ sessions[s] \in Cookie
    BY <1>3, SessionRows DEF Ages1
  <2>1. PICK row : row = [sessions[s] EXCEPT !.age = age]
    OBVIOUS
  <2>2. row \in Cookie /\ row.user = sessions[s].user
    BY <1>3, <2>0, <2>1 DEF Cookie, Ages1
  <2>3. row \in (Cookie \cup {Gone}) \ {Gone}
    BY <2>2, RowIsNotGone
  <2>4. LET new == Put(sessions, s, row)
        IN  /\ new \in Seq(Cookie \cup {Gone}) /\ DOMAIN new = DOMAIN sessions
            /\ new[s] = row
            /\ \A t \in DOMAIN sessions : t # s => new[t] = sessions[t]
    BY <1>0, <2>0, <2>3, AmendRow
  <2>5. sessions' = Put(sessions, s, row)
    BY <1>0, <1>3, <2>1 DEF Ages1, Put
  <2> QED
    BY <1>3, <2>0, <2>2, <2>4, <2>5 DEF Rows, Ages1
<1>4. ASSUME NEW ids, Closes(ids)
      PROVE  /\ sessions' \in Seq(Cookie \cup {Gone})
             /\ DOMAIN sessions' = DOMAIN sessions
             /\ \A t \in DOMAIN sessions : sessions'[t] = IF t \in ids THEN Gone ELSE sessions[t]
  <2>1. LET new == Without(sessions, ids)
        IN  /\ new \in Seq(Cookie \cup {Gone}) /\ DOMAIN new = DOMAIN sessions
            /\ \A t \in DOMAIN sessions : new[t] = IF t \in ids THEN Gone ELSE sessions[t]
    BY <1>0, DeleteRows
  <2> QED
    BY <1>4, <2>1 DEF Closes
<1>5. CASE \E u : Opens(u)
  BY <1>2, <1>5 DEF Opens, Expired
<1>6. CASE \E s, age : Ages1(s, age)
  BY <1>3, <1>6 DEF Rows, Expired
<1>7. CASE \E ids : Closes(ids)
  BY <1>4, <1>7 DEF Rows, Expired
<1> QED
  BY <1>1, <1>5, <1>6, <1>7 DEF OneSession

\* The table of the OIDC states stays well typed.
LEMMA StatesAfter ==
    ASSUME AccountsTypeOK, [Next]_vars
    PROVE  states' \in Seq(Trip \cup {Gone})
<1>0. states \in Seq(Trip \cup {Gone})
  BY DEF AccountsTypeOK, TablesOK
<1>1. ASSUME states' = states PROVE states' \in Seq(Trip \cup {Gone})
  BY <1>0, <1>1
<1>2. ASSUME NEW ids, states' = Without(states, ids) PROVE states' \in Seq(Trip \cup {Gone})
  <2>1. Without(states, ids) \in Seq(Trip \cup {Gone})
    BY <1>0, DeleteRows
  <2> QED
    BY <1>2, <2>1
<1>3. CASE StateAges
  <2>1. PICK t \in Rows(states) : states' = [states EXCEPT ![t].age = "old"]
    BY <1>3 DEF StateAges
  <2>2. t \in 1..Len(states) /\ states[t] \in Trip
    BY <1>0, LenProperties, ElementOfSeq DEF Rows
  <2>3. [states[t] EXCEPT !.age = "old"] \in Trip
    BY <2>2 DEF Trip
  <2>4. states' = [states EXCEPT ![t] = [states[t] EXCEPT !.age = "old"]]
    BY <2>1
  <2> QED
    BY <1>0, <2>2, <2>3, <2>4, ExceptSeq
<1>4. CASE OidcStart
  <2>1. [age |-> "open"] \in Trip
    BY DEF Trip
  <2> QED
    BY <1>0, <1>4, <2>1, AppendProperties DEF OidcStart
<1>5. CASE Purge
  BY <1>2, <1>5 DEF Purge
<1>6. CASE Callback
  BY <1>2, <1>6 DEF Callback
<1>7. ASSUME NEW r \in req, Statement(r) PROVE states' \in Seq(Trip \cup {Gone})
  BY <1>1, <1>7
  DEF Statement, Slide, Look, Create, Find, InsertUser, Bind, Grant, ChangePassword, DestroyAll,
      TotpSetup, TotpCheck, TotpEnable, TotpDisable, CreateUser, JoinTenant, DeleteUser,
      ResetUserPassword, PutMember, DeleteMember, Lost, db
<1>8. CASE UNCHANGED vars
  BY <1>1, <1>8 DEF vars, db
<1> QED
  BY <1>1, <1>3, <1>4, <1>5, <1>6, <1>7, <1>8
  DEF Next, EnsureAdmin, Count, WriteFile, InsertAdmin, InsertAdminErr, Restart, Age,
      Authenticate, AuthenticateKey, Login, Logout, db

\* Who is made a member has an account.
LEMMA MembersAfter ==
    ASSUME AccountsTypeOK, [Next]_vars
    PROVE  member' \subseteq Rows(users)
<1>0. member \subseteq Rows(users)
  BY DEF AccountsTypeOK, NoOrphans
<1>1. ASSUME member' = member PROVE member' \subseteq Rows(users)
  BY <1>0, <1>1
<1>2. ASSUME NEW r \in req, JoinTenant(r) \/ DeleteUser(r) \/ PutMember(r) \/ DeleteMember(r)
      PROVE  member' \subseteq Rows(users)
  BY <1>0, <1>2 DEF JoinTenant, DeleteUser, PutMember, DeleteMember
<1>3. ASSUME NEW r \in req, Statement(r) PROVE member' \subseteq Rows(users)
  BY <1>1, <1>2, <1>3
  DEF Statement, Slide, Look, Create, Find, InsertUser, Bind, Grant, ChangePassword, DestroyAll,
      TotpSetup, TotpCheck, TotpEnable, TotpDisable, CreateUser, ResetUserPassword, Lost, db
<1>4. CASE UNCHANGED vars
  BY <1>1, <1>4 DEF vars, db
<1> QED
  BY <1>1, <1>3, <1>4
  DEF Next, EnsureAdmin, Count, WriteFile, InsertAdmin, InsertAdminErr, Restart, Age, StateAges,
      Purge, Authenticate, AuthenticateKey, Login, Logout, OidcStart, Callback, db

\* The tables stay well typed, their indexes and foreign keys too.
LEMMA TablesStep ==
    ASSUME AccountsTypeOK, BootInv, RequestInv, [Next]_vars
    PROVE  TablesOK' /\ OneAccountEach' /\ NoOrphans'
<1>1. OneRow /\ OneSession
  BY OneRowStep, OneSessionStep
<1>2. TablesOK' /\ OneAccountEach'
  BY <1>1, UsersAfter, SessionsAfter, StatesAfter DEF TablesOK
<1>3. ASSUME NEW s \in Rows(sessions')
      PROVE  sessions'[s].user \in Rows(users) /\ (s \in Rows(sessions) \/ users' = users)
  <2>1. CASE s \in DOMAIN sessions
    <3>1. sessions'[s] # Gone
      BY DEF Rows
    <3>2. s \in Rows(sessions) /\ sessions'[s].user = sessions[s].user
      BY <1>1, <2>1, <3>1, SessionsAfter DEF Rows
    <3> QED
      BY <3>2 DEF AccountsTypeOK, NoOrphans
  <2>2. CASE s \notin DOMAIN sessions
    BY <1>1, <2>2, SessionsAfter
  <2> QED
    BY <2>1, <2>2
<1>4. ASSUME Rows(users) \subseteq Rows(users') PROVE NoOrphans'
  BY <1>3, <1>4, MembersAfter DEF NoOrphans
<1>5. ASSUME NEW u, Deletes(u), Rows(users') = Rows(users) \ {u} PROVE NoOrphans'
  <2>1. member' \subseteq Rows(users')
    BY <1>5 DEF Deletes, AccountsTypeOK, NoOrphans
  <2>2. ASSUME NEW s \in Rows(sessions') PROVE sessions'[s].user \in Rows(users')
    <3>1. sessions \in Seq(Cookie \cup {Gone})
      BY DEF AccountsTypeOK, TablesOK
    <3>2. LET new == Without(sessions, Owned(u))
          IN  /\ Rows(new) = Rows(sessions) \ Owned(u)
              /\ \A t \in DOMAIN sessions : new[t] = IF t \in Owned(u) THEN Gone ELSE sessions[t]
      BY <3>1, DeleteRows
    <3>3. s \in Rows(sessions) \ Owned(u) /\ sessions' = Without(sessions, Owned(u))
      BY <1>5, <3>2 DEF Deletes
    <3>4. s \in DOMAIN sessions /\ sessions'[s] = sessions[s] /\ sessions[s].user # u
      BY <3>2, <3>3 DEF Rows, Owned
    <3> QED
      BY <1>3, <1>5, <3>4
  <2> QED
    BY <2>1, <2>2 DEF NoOrphans
<1>6. NoOrphans'
  BY <1>1, <1>4, <1>5, UsersAfter
<1> QED
  BY <1>2, <1>6

-----------------------------------------------------------------------------
(* What a step does to the requests *)

Lines == {"slide", "act", "session", "find", "insert", "bind", "grant", "destroy", "enable", "join"}

\* A request with other values in some of its locals.
LEMMA RequestTypes ==
    ASSUME NEW r \in Request, NEW at \in Lines
    PROVE  /\ [r EXCEPT !.at = at] \in Request
           /\ \A c \in Claims : [r EXCEPT !.at = at, !.claims = c] \in Request
           /\ \A c \in Claims, u \in Nat : [r EXCEPT !.at = at, !.claims = c, !.user = u] \in Request
           /\ \A u \in Nat : [r EXCEPT !.at = at, !.user = u] \in Request
           /\ \A S \in SUBSET Nat : [r EXCEPT !.at = at, !.before = S] \in Request
           /\ \A u \in Nat, S \in SUBSET Nat : [r EXCEPT !.at = at, !.user = u, !.before = S] \in Request
           /\ \A n \in Nat : [r EXCEPT !.at = at, !.secret = n] \in Request
<1>1. [r EXCEPT !.at = at] \in Request
  BY Zenon DEF Request, Lines
<1>2. \A c \in Claims : [r EXCEPT !.at = at, !.claims = c] \in Request
  BY Zenon DEF Request, Lines
<1>3. \A c \in Claims, u \in Nat : [r EXCEPT !.at = at, !.claims = c, !.user = u] \in Request
  BY Zenon DEF Request, Lines
<1>4. \A u \in Nat : [r EXCEPT !.at = at, !.user = u] \in Request
  BY Zenon DEF Request, Lines
<1>5. \A S \in SUBSET Nat : [r EXCEPT !.at = at, !.before = S] \in Request
  BY Zenon DEF Request, Lines
<1>6. \A u \in Nat, S \in SUBSET Nat : [r EXCEPT !.at = at, !.user = u, !.before = S] \in Request
  BY Zenon DEF Request, Lines
<1>7. \A n \in Nat : [r EXCEPT !.at = at, !.secret = n] \in Request
  BY Zenon DEF Request, Lines
<1> QED
  BY <1>1, <1>2, <1>3, <1>4, <1>5, <1>6, <1>7

\* What the locals then are.
LEMMA RequestDomain ==
    \A r \in Request : DOMAIN r = {"id", "op", "by", "user", "at", "claims", "secret", "before"}
BY DEF Request

\* A request others do not touch stays lawful: accounts do not come back, and
\* administrators stay so.
LEMMA LawfulKept ==
    ASSUME AccountsTypeOK, OneRow, proved \subseteq proved', NEW r \in Request, Lawful(r)
    PROVE  Lawful(r)'
<1>1. /\ Len(users) \in Nat /\ Len(users') \in Nat /\ Len(users) <= Len(users')
      /\ \A u \in 0..Len(users) : u \in Rows(users') =>
            u \in Rows(users) /\ (users[u].admin => users'[u].admin)
  BY UsersAfter
<1>2. r.user \in 0..Len(users) /\ r.user \in 0..Len(users')
  BY <1>1 DEF Lawful
<1>3. r.op = "delete" /\ r.user \in Rows(users') => users'[r.user].admin
  BY <1>1, <1>2 DEF Lawful
<1> QED
  BY <1>2, <1>3 DEF Lawful

\* The request that a statement leaves, if it does not answer.
Next1(r, x) ==
    /\ req' = (req \ {r}) \cup {x}
    /\ x \in Request /\ x.id = r.id /\ x.by = r.by /\ x.op = r.op /\ Lawful(x)'

Moves(r) == req' = req \ {r} \/ \E x : Next1(r, x)

\* A request that only goes on to another statement.
LEMMA ContinueMoves ==
    ASSUME AccountsTypeOK, RequestInv, OneRow, proved \subseteq proved', NEW r \in req,
           NEW at \in Lines, Continue(r, at),
           at \notin {"join", "enable", "destroy"},
           at \in Federated => r.op = "callback",
           at = "session" => r.op \in {"login", "callback", "password"}
    PROVE  Moves(r)
<1>1. r \in Request /\ Lawful(r)'
  BY RequestFields, LawfulKept DEF RequestInv
<1> DEFINE x == [r EXCEPT !.at = at]
<1>2. x \in Request
  BY <1>1, RequestTypes
<1>3. /\ x.id = r.id /\ x.by = r.by /\ x.op = r.op /\ x.user = r.user /\ x.at = at
      /\ x.secret = r.secret
  BY <1>1, RequestDomain
<1>4. req' = (req \ {r}) \cup {x}
  BY DEF Continue, Proceed
<1> HIDE DEF x
<1>5. Lawful(x)'
  BY <1>1, <1>3 DEF Lawful, Federated
<1> QED
  BY <1>2, <1>3, <1>4, <1>5 DEF Moves, Next1

\* Codes that were checked stay checked.
LEMMA ProvedGrows ==
    ASSUME [Next]_vars
    PROVE  proved \subseteq proved'
<1>1. ASSUME NEW r \in req, Statement(r) PROVE proved \subseteq proved'
  BY <1>1
  DEF Statement, Slide, Look, Create, Find, InsertUser, Bind, Grant, ChangePassword, DestroyAll,
      TotpSetup, TotpCheck, TotpEnable, TotpDisable, CreateUser, JoinTenant, DeleteUser,
      ResetUserPassword, PutMember, DeleteMember, Lost
<1>2. CASE UNCHANGED vars
  BY <1>2 DEF vars
<1> QED
  BY <1>1, <1>2
  DEF Next, EnsureAdmin, Count, WriteFile, InsertAdmin, InsertAdminErr, Restart, Age, StateAges,
      Purge, Authenticate, AuthenticateKey, Login, Logout, OidcStart, Callback

\* Every statement answers its request, or leaves a lawful one.
LEMMA StatementMoves ==
    ASSUME AccountsTypeOK, BootInv, RequestInv, [Next]_vars, NEW r \in req, Statement(r)
    PROVE  Moves(r)
<1>0. OneRow /\ r \in Request /\ Lawful(r) /\ Len(users) \in Nat
  BY OneRowStep, RequestFields, UsersAfter DEF RequestInv
<1>1. proved \subseteq proved'
  BY ProvedGrows
<1>2. ASSUME Answer(r) PROVE Moves(r)
  BY <1>2 DEF Answer, Moves
<1>3. Lawful(r)'
  BY <1>0, <1>1, LawfulKept
<1>4. CASE Slide(r)
  BY <1>0, <1>1, <1>4, ContinueMoves DEF Slide, Lines, Federated
<1>5. CASE Find(r)
  <2>1. CASE Answer(r)
    BY <1>2, <2>1
  <2>2. ASSUME NEW c \in Claims, Proceed(r, [r EXCEPT !.at = "insert", !.claims = c]) PROVE Moves(r)
    <3>5. PICK x : x = [r EXCEPT !.at = "insert", !.claims = c]
      OBVIOUS
    <3>1. x \in Request
      BY <3>5, <1>0, RequestTypes DEF Lines
    <3>2. /\ x.id = r.id /\ x.by = r.by /\ x.op = r.op /\ x.user = r.user /\ x.at = "insert"
      BY <3>5, <1>0, RequestDomain
    <3>3. req' = (req \ {r}) \cup {x}
      BY <3>5, <2>2 DEF Proceed
    <3>4. Lawful(x)'
      BY <1>3, <1>5, <3>2 DEF Lawful, Federated, Find
    <3> QED
      BY <3>1, <3>2, <3>3, <3>4 DEF Moves, Next1
  <2>3. ASSUME NEW c \in Claims, NEW u \in Rows(users),
               Proceed(r, [r EXCEPT !.at = "bind", !.claims = c, !.user = u])
        PROVE  Moves(r)
    <3>5. PICK x : x = [r EXCEPT !.at = "bind", !.claims = c, !.user = u]
      OBVIOUS
    <3>0. u \in Nat /\ u \in 0..Len(users) /\ users' = users
      <4>1. u \in 1..Len(users)
        BY AccountRows
      <4>2. users' = users
        BY <1>5 DEF Find, db
      <4> QED
        BY <1>0, <4>1, <4>2
    <3>1. x \in Request
      BY <3>5, <1>0, <3>0, RequestTypes DEF Lines
    <3>2. /\ x.id = r.id /\ x.by = r.by /\ x.op = r.op /\ x.user = u /\ x.at = "bind"
      BY <3>5, <1>0, RequestDomain
    <3>3. req' = (req \ {r}) \cup {x}
      BY <3>5, <2>3 DEF Proceed
    <3>4. Lawful(x)'
      BY <1>3, <1>5, <3>0, <3>2 DEF Lawful, Federated, Find
    <3> QED
      BY <3>1, <3>2, <3>3, <3>4 DEF Moves, Next1
  <2> QED
    BY <1>5, <2>1, <2>2, <2>3 DEF Find
<1>6. ASSUME NEW at \in {"session", "join"}, Proceed(r, [r EXCEPT !.at = at, !.user = Len(users')]),
             at = "session" => r.op = "callback", at = "join" => r.op = "create"
      PROVE  Moves(r)
  <2>5. PICK x : x = [r EXCEPT !.at = at, !.user = Len(users')]
    OBVIOUS
  <2>0. Len(users') \in Nat
    BY <1>0, UsersAfter
  <2>1. x \in Request
    BY <2>5, <1>0, <2>0, RequestTypes DEF Lines
  <2>2. /\ x.id = r.id /\ x.by = r.by /\ x.op = r.op /\ x.user = Len(users') /\ x.at = at
    BY <2>5, <1>0, RequestDomain
  <2>3. req' = (req \ {r}) \cup {x}
    BY <2>5, <1>6 DEF Proceed
  <2>4. Lawful(x)'
    BY <1>3, <1>6, <2>0, <2>2 DEF Lawful, Federated
  <2> QED
    BY <2>1, <2>2, <2>3, <2>4 DEF Moves, Next1
<1>7. CASE InsertUser(r)
  BY <1>0, <1>2, <1>6, <1>7 DEF InsertUser, Lawful, Federated
<1>8. CASE CreateUser(r)
  BY <1>2, <1>6, <1>8 DEF CreateUser
<1>9. CASE Bind(r) \/ Grant(r)
  <2>1. r.op = "callback"
    BY <1>0, <1>9 DEF Bind, Grant, Lawful, Federated
  <2> QED
    BY <1>0, <1>1, <1>9, <2>1, ContinueMoves DEF Bind, Grant, AfterBind, Lines, Federated
<1>10. CASE ChangePassword(r)
  <2>5. PICK x : x = [r EXCEPT !.at = "destroy", !.before = Owned(r.user)]
    OBVIOUS
  <2>0. Owned(r.user) \in SUBSET Nat
    BY SessionRows DEF Owned
  <2>1. x \in Request
    BY <2>5, <1>0, <2>0, RequestTypes DEF Lines
  <2>2. /\ x.id = r.id /\ x.by = r.by /\ x.op = r.op /\ x.user = r.user /\ x.at = "destroy"
    BY <2>5, <1>0, RequestDomain
  <2>3. req' = (req \ {r}) \cup {x} /\ r.op = "password"
    BY <2>5, <1>10 DEF ChangePassword, Proceed
  <2>4. Lawful(x)'
    BY <1>3, <2>2, <2>3 DEF Lawful, Federated
  <2> QED
    BY <2>1, <2>2, <2>3, <2>4 DEF Moves, Next1
<1>11. CASE DestroyAll(r)
  BY <1>0, <1>1, <1>2, <1>11, ContinueMoves DEF DestroyAll, AfterDestroy, Lines, Federated
<1>12. CASE TotpCheck(r)
  <2>1. CASE Answer(r)
    BY <1>2, <2>1
  <2>2. CASE ~Answer(r)
    <3>5. PICK x : x = [r EXCEPT !.at = "enable", !.secret = users[r.user].secret]
      OBVIOUS
    <3>0. /\ r.user \in Rows(users) /\ users[r.user].secret \in proved' /\ r.op = "enable"
          /\ req' = (req \ {r}) \cup {x}
      BY <3>5, <1>12, <2>2 DEF TotpCheck, Proceed
    <3>1. x \in Request
      BY <3>5, <1>0, <3>0, AccountRows, RequestTypes DEF Lines
    <3>2. /\ x.id = r.id /\ x.by = r.by /\ x.op = r.op /\ x.user = r.user /\ x.at = "enable"
          /\ x.secret = users[r.user].secret
      BY <3>5, <1>0, RequestDomain
    <3>4. Lawful(x)'
      BY <1>3, <3>0, <3>2 DEF Lawful, Federated
    <3> QED
      BY <3>0, <3>1, <3>2, <3>4 DEF Moves, Next1
  <2> QED
    BY <2>1, <2>2
<1>13. CASE ResetUserPassword(r)
  <2>1. PICK u \in Rows(users) : Proceed(r, [r EXCEPT !.at = "destroy", !.user = u, !.before = Owned(u)])
    BY <1>13 DEF ResetUserPassword
  <2>7. PICK x : x = [r EXCEPT !.at = "destroy", !.user = u, !.before = Owned(u)]
    OBVIOUS
  <2>2. /\ Owned(u) \in SUBSET Nat /\ u \in Nat /\ u \in 0..Len(users')
    <3>1. u \in 1..Len(users) /\ Len(users) <= Len(users') /\ Len(users') \in Nat
      BY <1>0, AccountRows, UsersAfter
    <3>2. Owned(u) \in SUBSET Nat
      BY SessionRows DEF Owned
    <3> QED
      BY <1>0, <3>1, <3>2
  <2>3. x \in Request
    BY <2>7, <1>0, <2>2, RequestTypes DEF Lines
  <2>4. /\ x.id = r.id /\ x.by = r.by /\ x.op = r.op /\ x.user = u /\ x.at = "destroy"
    BY <2>7, <1>0, RequestDomain
  <2>5. req' = (req \ {r}) \cup {x} /\ r.op = "reset"
    BY <2>7, <1>13, <2>1 DEF ResetUserPassword, Proceed
  <2>6. Lawful(x)'
    BY <1>3, <2>2, <2>4, <2>5 DEF Lawful, Federated
  <2> QED
    BY <2>3, <2>4, <2>5, <2>6 DEF Moves, Next1
<1>14. CASE Lost(r)
  <2>1. CASE r.at = "slide"
    BY <1>0, <1>1, <1>14, <2>1, ContinueMoves DEF Lost, Lines, Federated
  <2>2. CASE r.at = "bind"
    BY <1>0, <1>1, <1>14, <2>2, ContinueMoves DEF Lost, AfterBind, Lines, Federated, Lawful
  <2>3. CASE r.at = "grant"
    BY <1>0, <1>1, <1>14, <2>3, ContinueMoves DEF Lost, Lines, Federated, Lawful
  <2>4. CASE r.at = "destroy"
    BY <1>0, <1>1, <1>2, <1>14, <2>4, ContinueMoves DEF Lost, AfterDestroy, Lines, Federated
  <2>5. CASE r.at \notin {"slide", "bind", "grant", "destroy"}
    BY <1>2, <1>14, <2>5 DEF Lost
  <2> QED
    BY <2>1, <2>2, <2>3, <2>4, <2>5
<1> QED
  BY <1>1, <1>2, <1>4, <1>5, <1>7, <1>8, <1>9, <1>10, <1>11, <1>12, <1>13, <1>14
  DEF Statement, Look, Create, TotpSetup, TotpEnable, TotpDisable, JoinTenant, DeleteUser,
      PutMember, DeleteMember
\* A request that comes in: nothing is to be revoked yet, and its session, if it
\* has one, is valid.
Arrives(x) ==
    /\ req' = req \cup {x} /\ boot = "up" /\ sessions' = sessions
    /\ x \in Request /\ Lawful(x)' /\ x.before = {}
    /\ x.op \in Own \cup Platform => x.at \in {"slide", "act"}
    /\ x.by = NoOne \/ Valid(x.by)

\* Begin adds a lawful request.
LEMMA BeginArrives ==
    ASSUME AccountsTypeOK, users' = users, sessions' = sessions, proved' = proved,
           NEW op \in Own \cup Platform \cup {"login", "callback"}, NEW by \in Nat,
           NEW user \in 0..Len(users), NEW at \in Lines, Begin(op, by, user, at),
           by = NoOne \/ Valid(by),
           op \in Own \cup Platform => at \in {"slide", "act"},
           op = "login" => at = "session", op = "callback" => at = "find",
           op = "delete" => (user \in Rows(users) => users[user].admin)
    PROVE  \E x : Arrives(x)
<1>0. left.edits \in 1..Edits /\ user \in Nat
  <2>1. left \in [edits : 0..Edits, ages : 0..Ages, faults : 0..Faults] /\ Edits \in Nat
    BY LimitsAssumption DEF AccountsTypeOK, ProcessOK
  <2>2. left.edits \in 0..Edits /\ left.edits > 0
    BY <2>1 DEF Begin, Spend
  <2>3. Len(users) \in Nat
    BY LenProperties DEF AccountsTypeOK, TablesOK
  <2> QED
    BY <2>1, <2>2, <2>3
<1>1. PICK x : x = [id |-> left.edits, op |-> op, by |-> by, user |-> user, at |-> at,
                    claims |-> NoClaim, secret |-> NoOne, before |-> {}]
  OBVIOUS
<1>2. /\ x.id = left.edits /\ x.op = op /\ x.by = by /\ x.user = user /\ x.at = at
      /\ x.secret = NoOne /\ x.before = {}
  BY <1>1
<1>3. x \in Request
  <2>1. left.edits \in Nat
    BY <1>0, LimitsAssumption
  <2> QED
    BY <1>0, <1>1, <2>1 DEF Request, Lines, NoOne
<1>4. req' = req \cup {x} /\ boot = "up"
  BY <1>1 DEF Begin
<1>5. Lawful(x)'
  <2>1. x.at \notin {"insert", "bind", "grant", "destroy", "join", "enable"}
    BY <1>2 DEF Own, Platform
  <2>2. x.at \in Federated => x.op = "callback"
    BY <1>2 DEF Federated, Own, Platform
  <2>3. x.at = "session" => x.op = "login"
    BY <1>2 DEF Own, Platform
  <2>4. x.id \in 1..Edits /\ x.user \in 0..Len(users')
    BY <1>0, <1>2
  <2>5. x.op = "delete" /\ x.user \in Rows(users') => users'[x.user].admin
    BY <1>2
  <2> QED
    BY <2>1, <2>2, <2>3, <2>4, <2>5 DEF Lawful
<1> QED
  BY <1>2, <1>3, <1>4, <1>5 DEF Arrives

\* What comes in is lawful.
LEMMA Arrivals ==
    ASSUME AccountsTypeOK, Authenticate \/ AuthenticateKey \/ Login \/ Callback
    PROVE  \E x : Arrives(x)
<1>0. /\ Len(users) \in Nat /\ NoOne \in Nat /\ NoOne \in 0..Len(users) /\ NoOne \notin Rows(users)
      /\ Rows(users) \subseteq 1..Len(users)
  <2>1. users \in Seq(Account \cup {Gone})
    BY DEF AccountsTypeOK, TablesOK
  <2>2. Len(users) \in Nat /\ DOMAIN users = 1..Len(users)
    BY <2>1, LenProperties
  <2> QED
    BY <2>2 DEF NoOne, Rows
<1>1. CASE Authenticate
  <2>1. PICK s \in DOMAIN sessions, op \in Own \cup Platform :
            /\ Valid(s)
            /\ op \in Platform => sessions[s].user \in Admins
            /\ Begin(op, s, sessions[s].user,
                     IF sessions[s].age = "fresh" THEN "act" ELSE "slide")
    BY <1>1 DEF Authenticate
  <2>2. PICK at : at = IF sessions[s].age = "fresh" THEN "act" ELSE "slide"
    OBVIOUS
  <2>3. s \in Nat /\ sessions[s].user \in Rows(users)
    <3>1. s \in Rows(sessions)
      BY <2>1 DEF Valid
    <3> QED
      BY <3>1, SessionRows DEF AccountsTypeOK, NoOrphans
  <2>4. users' = users /\ sessions' = sessions /\ proved' = proved
    BY <1>1 DEF Authenticate, db
  <2>5. op = "delete" => users[sessions[s].user].admin
    BY <2>1 DEF Platform, Admins
  <2>6. at \in {"slide", "act"} /\ at \in Lines /\ op \notin {"login", "callback"}
    BY <2>2 DEF Lines, Own, Platform
  <2>7. sessions[s].user \in 0..Len(users)
    BY <1>0, <2>3
  <2>8. Begin(op, s, sessions[s].user, at)
    BY <2>1, <2>2
  <2> QED
    BY <2>1, <2>3, <2>4, <2>5, <2>6, <2>7, <2>8, BeginArrives
<1>2. CASE AuthenticateKey
  <2>1. PICK op \in Platform : Begin(op, NoOne, NoOne, "act")
    BY <1>2 DEF AuthenticateKey
  <2>2. users' = users /\ sessions' = sessions /\ proved' = proved
    BY <1>2 DEF AuthenticateKey, db
  <2>3. "act" \in Lines /\ op \notin {"login", "callback"}
    BY DEF Lines, Platform
  <2> QED
    BY <1>0, <2>1, <2>2, <2>3, BeginArrives
<1>3. CASE Login
  <2>1. PICK u \in Rows(users) : Begin("login", NoOne, u, "session")
    BY <1>3 DEF Login
  <2>2. users' = users /\ sessions' = sessions /\ proved' = proved
    BY <1>3 DEF Login, db
  <2>3. "session" \in Lines /\ "login" \notin Own \cup Platform
    BY DEF Lines, Own, Platform
  <2>4. u \in 0..Len(users)
    BY <1>0
  <2> QED
    BY <1>0, <2>1, <2>2, <2>3, <2>4, BeginArrives
<1>4. CASE Callback
  <2>1. Begin("callback", NoOne, NoOne, "find")
    BY <1>4 DEF Callback
  <2>2. users' = users /\ sessions' = sessions /\ proved' = proved
    BY <1>4 DEF Callback
  <2>3. "find" \in Lines /\ "callback" \notin Own \cup Platform
    BY DEF Lines, Own, Platform
  <2> QED
    BY <1>0, <2>1, <2>2, <2>3, BeginArrives
<1> QED
  BY <1>1, <1>2, <1>3, <1>4

\* Requests stay, come in, go on, are answered, or die with the process.
LEMMA Requests ==
    ASSUME AccountsTypeOK, BootInv, RequestInv, [Next]_vars
    PROVE  \/ req' = req
           \/ \E x : Arrives(x)
           \/ \E r \in req : Statement(r) /\ Moves(r)
           \/ req' = {} /\ boot' = "count"
<1>1. ASSUME NEW r \in req, Statement(r) PROVE Statement(r) /\ Moves(r)
  BY <1>1, StatementMoves
<1>2. CASE Authenticate \/ AuthenticateKey \/ Login \/ Callback
  BY <1>2, Arrivals
<1>3. CASE UNCHANGED vars
  BY <1>3 DEF vars
<1> QED
  BY <1>1, <1>2, <1>3
  DEF Next, EnsureAdmin, Count, WriteFile, InsertAdmin, InsertAdminErr, Restart, Age, StateAges,
      Purge, Logout, OidcStart

\* Requests are well typed and lawful after every step.
LEMMA RequestStep ==
    ASSUME AccountsTypeOK, BootInv, RequestInv, [Next]_vars
    PROVE  req' \subseteq Request /\ RequestInv'
<1>1. \A r \in req : r \in Request /\ Lawful(r)'
  BY OneRowStep, ProvedGrows, RequestFields, LawfulKept DEF RequestInv
<1>2. \A r \in req' : r \in req \/ (r \in Request /\ Lawful(r)')
  BY Requests DEF Arrives, Moves, Next1
<1> QED
  BY <1>1, <1>2 DEF RequestInv

-----------------------------------------------------------------------------
(* The rest of the state *)

\* What happened has happened.
LEMMA PastGrows ==
    ASSUME AccountsTypeOK, [Next]_vars
    PROVE  past \subseteq past' /\ past' \subseteq Mishaps
<1>0. past \subseteq Mishaps
  BY DEF AccountsTypeOK, ProcessOK
<1>1. ASSUME NEW r \in req, Statement(r) PROVE past \subseteq past' /\ past' \subseteq Mishaps
  BY <1>0, <1>1
  DEF Statement, Slide, Look, Create, Find, InsertUser, Bind, Grant, ChangePassword, DestroyAll,
      TotpSetup, TotpCheck, TotpEnable, TotpDisable, CreateUser, JoinTenant, DeleteUser,
      ResetUserPassword, PutMember, DeleteMember, Lost, Mishaps
<1>2. CASE UNCHANGED vars
  BY <1>0, <1>2 DEF vars
<1>3. CASE InsertAdminErr
  BY <1>0, <1>3 DEF InsertAdminErr, Mishaps
<1> QED
  BY <1>0, <1>1, <1>2, <1>3
  DEF Next, EnsureAdmin, Count, WriteFile, InsertAdmin, Restart, Age, StateAges,
      Purge, Authenticate, AuthenticateKey, Login, Logout, OidcStart, Callback

\* Only a secret that is there is checked.
LEMMA ProvedTyped ==
    ASSUME AccountsTypeOK, [Next]_vars
    PROVE  proved' \subseteq Nat \ {NoOne}
<1>0. proved \subseteq Nat \ {NoOne}
  BY DEF AccountsTypeOK, ProcessOK
<1>1. ASSUME NEW r \in req, TotpCheck(r) PROVE proved' \subseteq Nat \ {NoOne}
  BY <1>0, <1>1, AccountRows DEF TotpCheck
<1>2. ASSUME NEW r \in req, Statement(r) PROVE proved' \subseteq Nat \ {NoOne}
  BY <1>0, <1>1, <1>2
  DEF Statement, Slide, Look, Create, Find, InsertUser, Bind, Grant, ChangePassword, DestroyAll,
      TotpSetup, TotpEnable, TotpDisable, CreateUser, JoinTenant, DeleteUser,
      ResetUserPassword, PutMember, DeleteMember, Lost
<1>3. CASE UNCHANGED vars
  BY <1>0, <1>3 DEF vars
<1> QED
  BY <1>0, <1>2, <1>3
  DEF Next, EnsureAdmin, Count, WriteFile, InsertAdmin, InsertAdminErr, Restart, Age, StateAges,
      Purge, Authenticate, AuthenticateKey, Login, Logout, OidcStart, Callback

Budget == [edits : 0..Edits, ages : 0..Ages, faults : 0..Faults]

\* The bounds on the behaviour.
LEMMA SpendTyped ==
    ASSUME left \in Budget, NEW kind \in {"edits", "ages", "faults"}, Spend(kind)
    PROVE  left' \in Budget
<1>1. /\ left.edits \in 0..Edits /\ left.ages \in 0..Ages /\ left.faults \in 0..Faults
      /\ Edits \in Nat /\ Ages \in Nat /\ Faults \in Nat
  BY LimitsAssumption DEF Budget
<1>2. CASE kind = "edits"
  <2>1. left' = [left EXCEPT !.edits = left.edits - 1] /\ left.edits > 0
    BY <1>2 DEF Spend
  <2>2. left.edits - 1 \in 0..Edits
    BY <1>1, <2>1
  <2> QED
    BY <2>1, <2>2 DEF Budget
<1>3. CASE kind = "ages"
  <2>1. left' = [left EXCEPT !.ages = left.ages - 1] /\ left.ages > 0
    BY <1>3 DEF Spend
  <2>2. left.ages - 1 \in 0..Ages
    BY <1>1, <2>1
  <2> QED
    BY <2>1, <2>2 DEF Budget
<1>4. CASE kind = "faults"
  <2>1. left' = [left EXCEPT !.faults = left.faults - 1] /\ left.faults > 0
    BY <1>4 DEF Spend
  <2>2. left.faults - 1 \in 0..Faults
    BY <1>1, <2>1
  <2> QED
    BY <2>1, <2>2 DEF Budget
<1> QED
  BY <1>2, <1>3, <1>4

\* Every step spends at most one unit of one bound.
LEMMA BudgetStep ==
    ASSUME AccountsTypeOK, [Next]_vars
    PROVE  left' \in Budget
<1>0. left \in Budget
  BY DEF AccountsTypeOK, ProcessOK, Budget
<1>1. ASSUME \/ left' = left \/ Spend("edits") \/ Spend("ages") \/ Spend("faults")
      PROVE  left' \in Budget
  BY <1>0, <1>1, SpendTyped
<1>2. ASSUME NEW r \in req, Statement(r) PROVE left' \in Budget
  BY <1>1, <1>2
  DEF Statement, Slide, Look, Create, Find, InsertUser, Bind, Grant, ChangePassword, DestroyAll,
      TotpSetup, TotpCheck, TotpEnable, TotpDisable, CreateUser, JoinTenant, DeleteUser,
      ResetUserPassword, PutMember, DeleteMember, Lost
<1>3. CASE UNCHANGED vars
  BY <1>1, <1>3 DEF vars
<1> QED
  BY <1>1, <1>2, <1>3
  DEF Next, EnsureAdmin, Count, WriteFile, InsertAdmin, InsertAdminErr, Restart, Age, StateAges,
      Purge, Authenticate, AuthenticateKey, Login, Logout, OidcStart, Callback, Begin

\* Statements are made by a process that is up, and leave its state alone.
LEMMA StatementUp ==
    ASSUME BootInv, NEW r \in req, Statement(r)
    PROVE  boot = "up" /\ boot' = "up" /\ file' = file
<1>1. boot = "up"
  BY DEF BootInv
<1>2. process' = process
  BY DEF Statement, Slide, Look, Create, Find, InsertUser, Bind, Grant, ChangePassword, DestroyAll,
      TotpSetup, TotpCheck, TotpEnable, TotpDisable, CreateUser, JoinTenant, DeleteUser,
      ResetUserPassword, PutMember, DeleteMember, Lost, process
<1> QED
  BY <1>1, <1>2 DEF process

\* The file and the place bootstrap is at stay well typed, and the file is only
\* touched while there is no account.
LEMMA BootStep ==
    ASSUME AccountsTypeOK, BootInv, [Next]_vars
    PROVE  /\ BootInv' /\ boot' \in {"count", "write", "insert", "up"} /\ file' \in Nat
           /\ Rows(users) # {} => file' = file
<1>0. /\ boot \in {"count", "write", "insert", "up"} /\ file \in Nat /\ NoOne \in Nat
      /\ FirstPassword \in Nat
  <2>1. boot \in {"count", "write", "insert", "up"} /\ file \in Nat /\ left.faults \in 0..Faults
    BY DEF AccountsTypeOK, ProcessOK
  <2> QED
    BY <2>1, LimitsAssumption DEF NoOne, FirstPassword
<1>1. ASSUME boot' = boot, file' = file, users' = users, req' = req \/ boot = "up"
      PROVE  /\ BootInv' /\ boot' \in {"count", "write", "insert", "up"} /\ file' \in Nat
             /\ Rows(users) # {} => file' = file
  BY <1>0, <1>1 DEF BootInv
<1>2. CASE EnsureAdmin
  BY <1>0, <1>2
  DEF EnsureAdmin, Count, CountUsers, WriteFile, InsertAdmin, InsertAdminErr, BootInv, db
<1>3. CASE Restart
  BY <1>0, <1>3 DEF Restart, BootInv, db
<1>4. ASSUME NEW r \in req, Statement(r)
      PROVE  BootInv' /\ boot' = "up" /\ file' = file
  BY <1>4, StatementUp DEF BootInv
<1>5. CASE \E r \in req : Statement(r)
  BY <1>0, <1>4, <1>5
<1>6. CASE UNCHANGED vars
  BY <1>1, <1>6 DEF vars, process, db
<1> QED
  BY <1>1, <1>2, <1>3, <1>5, <1>6
  DEF Next, Age, StateAges, Purge, Authenticate, AuthenticateKey, Login, Logout, OidcStart,
      Callback, Begin, process, db

\* The type invariant, and the two parts it rests on, are kept.
LEMMA TypeStep ==
    ASSUME AccountsTypeOK, BootInv, RequestInv, [Next]_vars
    PROVE  AccountsTypeOK' /\ BootInv' /\ RequestInv'
<1>1. ProcessOK'
  BY BootStep, RequestStep, ProvedTyped, PastGrows, BudgetStep DEF ProcessOK, Budget
<1> QED
  BY <1>1, TablesStep, BootStep, RequestStep DEF AccountsTypeOK

\* Where a row of the table comes from.
LEMMA RowOrigin ==
    ASSUME AccountsTypeOK, OneRow, NEW v \in Rows(users')
    PROVE  \/ v \in Rows(users) /\ users'[v] = users[v]
           \/ Inserts(users'[v])
           \/ Updates(v, users'[v])
<1>0. /\ users \in Seq(Account \cup {Gone}) /\ Len(users) \in Nat
      /\ Rows(users) \subseteq 1..Len(users) /\ DOMAIN users = 1..Len(users)
  <2>1. users \in Seq(Account \cup {Gone})
    BY DEF AccountsTypeOK, TablesOK
  <2> QED
    BY <2>1, LenProperties DEF Rows
<1>1. ASSUME NEW row, Inserts(row)
      PROVE  (v \in Rows(users) /\ users'[v] = users[v]) \/ users'[v] = row
  <2>1. row \in (Account \cup {Gone}) \ {Gone}
    BY <1>1, RowIsNotGone DEF Inserts
  <2>2. users' = Added(users, row)
    BY <1>1 DEF Inserts, Added
  <2>3. /\ Added(users, row)[NewId(users)] = row
        /\ \A j \in DOMAIN users : Added(users, row)[j] = users[j]
        /\ Rows(Added(users, row)) = Rows(users) \cup {NewId(users)}
    BY <1>0, <2>1, AppendRow, SMT
  <2> QED
    BY <1>0, <2>2, <2>3
<1>2. ASSUME NEW u, NEW row, Updates(u, row)
      PROVE  (v \in Rows(users) /\ users'[v] = users[v]) \/ (v = u /\ users'[v] = row)
  <2>1. row \in (Account \cup {Gone}) \ {Gone} /\ u \in Rows(users)
    BY <1>2, RowIsNotGone DEF Updates
  <2>2. users' = Put(users, u, row)
    BY <1>2 DEF Updates, Put
  <2>3. LET new == Put(users, u, row)
        IN  /\ new[u] = row /\ Rows(new) = Rows(users)
            /\ \A j \in DOMAIN users : j # u => new[j] = users[j]
    BY <1>0, <2>1, AmendRow
  <2> QED
    BY <1>0, <2>2, <2>3
<1>3. ASSUME NEW u, Deletes(u) PROVE v \in Rows(users) /\ users'[v] = users[v]
  <2>1. users' = Without(users, {u})
    BY <1>3 DEF Deletes
  <2>2. LET new == Without(users, {u})
        IN  /\ Rows(new) = Rows(users) \ {u}
            /\ \A j \in DOMAIN users : new[j] = IF j \in {u} THEN Gone ELSE users[j]
    BY <1>0, DeleteRows
  <2> QED
    BY <1>0, <2>1, <2>2
<1> QED
  BY <1>1, <1>2, <1>3 DEF OneRow

\* The first password is in the file after every step.
LEMMA FirstPasswordStep ==
    ASSUME AccountsTypeOK, BootInv, RequestInv, FirstPasswordKept, [Next]_vars
    PROVE  FirstPasswordKept'
<1> SUFFICES ASSUME "unanswered" \notin past', NEW v \in Rows(users'),
                    users'[v].pw \in FirstPasswords
             PROVE  file' = users'[v].pw
  BY DEF FirstPasswordKept, FirstPasswords
<1>1. ASSUME v \in Rows(users), users'[v].pw = users[v].pw PROVE file' = users'[v].pw
  BY <1>1, BootStep, PastGrows DEF FirstPasswordKept
<1>2. CASE Inserts(users'[v])
  BY <1>2 DEF Inserts
<1>3. CASE Updates(v, users'[v])
  BY <1>1, <1>3 DEF Updates, Prudent
<1> QED
  BY <1>1, <1>2, <1>3, OneRowStep, RowOrigin

\* What is enabled was proved, after every step.
LEMMA TotpStep ==
    ASSUME AccountsTypeOK, BootInv, RequestInv, TotpUsable, [Next]_vars
    PROVE  TotpUsable'
<1> SUFFICES ASSUME "overtaken" \notin past', NEW v \in Rows(users'), users'[v].enabled
             PROVE  users'[v].secret \in proved'
  BY DEF TotpUsable
<1>1. ASSUME v \in Rows(users), users[v].enabled, users'[v].secret = users[v].secret
      PROVE  users'[v].secret \in proved'
  BY <1>1, ProvedGrows, PastGrows DEF TotpUsable
<1>2. CASE Inserts(users'[v])
  BY <1>2 DEF Inserts
<1>3. CASE Updates(v, users'[v])
  BY <1>1, <1>3 DEF Updates, Prudent
<1>4. CASE v \in Rows(users) /\ users'[v] = users[v]
  BY <1>1, <1>4
<1> QED
  BY <1>2, <1>3, <1>4, OneRowStep, RowOrigin

\* An administrator is left after every step.
LEMMA AdminStep ==
    ASSUME AccountsTypeOK, BootInv, RequestInv, AdminInv, [Next]_vars
    PROVE  AdminInv'
<1>0. OneRow
  BY OneRowStep
<1> SUFFICES ASSUME (past \cap {"unattended", "disguised"})' = {},
                    boot' = "up" \/ Rows(users') # {}
             PROVE  \E a \in Rows(users') : users'[a].admin
  BY DEF AdminInv, Admins
<1>1. ASSUME NEW a \in Rows(users), users[a].admin, a \in Rows(users') PROVE users'[a].admin
  <2>1. a \in 0..Len(users)
    BY AccountRows
  <2> QED
    BY <1>0, <1>1, <2>1, UsersAfter
<1>2. ASSUME boot = "up" \/ Rows(users) # {} PROVE \E a \in Rows(users) : users[a].admin
  BY <1>2, PastGrows DEF AdminInv, Admins
<1>3. CASE \E u : Deletes(u)
  <2>1. PICK u : Deletes(u)
    BY <1>3
  <2>2. PICK r \in req : r.op = "delete" /\ u # r.user /\ r.user \in Rows(users)
    BY <2>1 DEF Deletes
  <2>3. users[r.user].admin
    BY <2>2 DEF RequestInv, Lawful
  <2>4. r.user \in Rows(users')
    <3>1. users \in Seq(Account \cup {Gone}) /\ users' = Without(users, {u})
      BY <2>1 DEF AccountsTypeOK, TablesOK, Deletes
    <3>2. LET new == Without(users, {u}) IN Rows(new) = Rows(users) \ {u}
      BY <3>1, DeleteRows
    <3> QED
      BY <2>2, <3>1, <3>2
  <2> QED
    BY <1>1, <2>2, <2>3, <2>4
<1>4. CASE ~\E u : Deletes(u)
  <2>1. Rows(users) \subseteq Rows(users')
    BY <1>0, <1>4, UsersAfter
  <2>2. CASE boot = "up" \/ Rows(users) # {}
    BY <1>1, <1>2, <2>1, <2>2
  <2>3. CASE boot # "up" /\ Rows(users) = {}
    <3>1. ASSUME NEW v \in Rows(users') PROVE users'[v].admin
      BY <1>0, <2>3, <3>1, RowOrigin DEF Inserts, Updates
    <3>2. Rows(users') # {}
      <4>1. CASE boot' = "up"
        <5>1. req = {}
          BY <2>3 DEF BootInv
        <5>2. InsertAdmin
          BY <2>3, <4>1, <5>1
          DEF Next, EnsureAdmin, Count, CountUsers, WriteFile, InsertAdminErr, Restart, Age,
              StateAges, Purge, Authenticate, AuthenticateKey, Login, Logout, OidcStart, Callback,
              Begin, process, vars
        <5>3. PICK row : Inserts(row)
          BY <5>2, FirstInsert DEF InsertAdmin
        <5>4. row \in (Account \cup {Gone}) \ {Gone}
          BY <5>3, RowIsNotGone DEF Inserts
        <5>5. users' = Added(users, row) /\ users \in Seq(Account \cup {Gone})
          BY <5>3 DEF Inserts, Added, AccountsTypeOK, TablesOK
        <5>6. Rows(Added(users, row)) = Rows(users) \cup {NewId(users)}
          BY <5>4, <5>5, AppendRow, SMT
        <5> QED
          BY <5>5, <5>6
      <4> QED
        BY <4>1
    <3> QED
      BY <3>1, <3>2
  <2> QED
    BY <2>2, <2>3
<1> QED
  BY <1>3, <1>4

-----------------------------------------------------------------------------
(* Revocation *)

Changes == {"password", "reset"}

\* The statements a change of password consists of.
LEMMA ChangeStatements ==
    ASSUME RequestInv, NEW r \in req, Statement(r), r.op \in Changes
    PROVE  \/ Slide(r) \/ ChangePassword(r) \/ ResetUserPassword(r)
           \/ DestroyAll(r) \/ Create(r) \/ Lost(r)
<1>1. /\ r.at \notin Federated /\ r.at # "join" /\ r.at # "enable"
      /\ r.op \notin {"look", "setup", "enable", "disable", "create", "delete", "put member",
                      "delete member"}
  BY DEF RequestInv, Lawful, Changes
<1> QED
  BY <1>1 DEF Statement, Look, Find, InsertUser, Bind, Grant, TotpSetup, TotpCheck, TotpEnable,
      TotpDisable, CreateUser, JoinTenant, DeleteUser, PutMember, DeleteMember, Federated

\* What a request has to revoke, others do not bring back.
LEMMA RevokingKept ==
    ASSUME AccountsTypeOK, [Next]_vars, NEW r \in req, Revoking(r)
    PROVE  Revoking(r)'
<1>1. past \subseteq past'
  BY PastGrows
<1>2. /\ DOMAIN sessions \subseteq DOMAIN sessions'
      /\ \A s \in DOMAIN sessions :
            /\ sessions[s] = Gone => sessions'[s] = Gone
            /\ sessions'[s] # Gone => sessions'[s].user = sessions[s].user
  BY OneSessionStep, SessionsAfter
<1> QED
  BY <1>1, <1>2 DEF Revoking

\* DestroyAll deletes every session that was to be revoked.
LEMMA DestroyRevokes ==
    ASSUME AccountsTypeOK, NEW r \in req, Revoking(r), "lost" \notin past, r.op \in Changes,
           DestroyAll(r)
    PROVE  \A s \in r.before : s \in DOMAIN sessions' /\ sessions'[s] = Gone
<1>1. sessions \in Seq(Cookie \cup {Gone}) /\ sessions' = Without(sessions, Owned(r.user))
  BY DEF AccountsTypeOK, TablesOK, DestroyAll, Destroyed
<1>2. LET new == Without(sessions, Owned(r.user))
      IN  /\ DOMAIN new = DOMAIN sessions
          /\ \A t \in DOMAIN sessions : new[t] = IF t \in Owned(r.user) THEN Gone ELSE sessions[t]
  BY <1>1, DeleteRows
<1>3. \A s \in r.before : s \in DOMAIN sessions /\ (sessions[s] = Gone \/ sessions[s].user = r.user)
  BY DEF Revoking, DestroyAll, Changes
<1>4. \A s \in r.before : s \in DOMAIN sessions /\ (sessions[s] = Gone \/ s \in Owned(r.user))
  BY <1>3 DEF Owned, Rows
<1> QED
  BY <1>1, <1>2, <1>4

\* How far every request has got with its revocations, after every step.
LEMMA RevokeStep ==
    ASSUME AccountsTypeOK, BootInv, RequestInv, RevokeInv, [Next]_vars
    PROVE  RevokeInv'
<1>1. \A r \in req : Revoking(r)'
  BY RevokingKept DEF RevokeInv
<1>2. ASSUME NEW x, Arrives(x) PROVE Revoking(x)'
  <2>1. x.before = {} /\ (x.op \in Changes => x.at \in {"slide", "act"})
    BY <1>2 DEF Arrives, Changes, Own, Platform
  <2> QED
    BY <2>1 DEF Revoking, Changes
<1>3. ASSUME NEW r \in req, Statement(r), Moves(r), NEW x \in req', x \notin req PROVE Revoking(x)'
  <2>0. x.op = r.op /\ r \in Request /\ Revoking(r)
    BY <1>3, RequestFields DEF Moves, Next1, RevokeInv
  <2>1. CASE r.op \notin Changes
    BY <2>0, <2>1 DEF Revoking, Changes
  <2>2. CASE "lost" \in past'
    BY <2>2 DEF Revoking
  <2>3. CASE r.op \in Changes /\ "lost" \notin past'
    <3>0. "lost" \notin past
      BY <2>3, PastGrows
    <3>1. CASE Slide(r)
      <4>1. x = [r EXCEPT !.at = "act"]
        BY <1>3, <3>1 DEF Slide, Continue, Proceed
      <4>2. x.at = "act" /\ x.before = r.before
        BY <2>0, <4>1, RequestDomain
      <4>3. r.before = {}
        BY <2>0, <2>3, <3>0, <3>1 DEF Revoking, Slide, Changes
      <4> QED
        BY <4>2, <4>3 DEF Revoking
    <3>2. CASE ChangePassword(r)
      <4>1. x = [r EXCEPT !.at = "destroy", !.before = Owned(r.user)] /\ sessions' = sessions
        BY <1>3, <3>2 DEF ChangePassword, Proceed
      <4>2. x.at = "destroy" /\ x.before = Owned(r.user) /\ x.user = r.user
        BY <2>0, <4>1, RequestDomain
      <4> QED
        BY <4>1, <4>2 DEF Revoking, Owned, Rows
    <3>3. CASE ResetUserPassword(r)
      <4>1. PICK u : x = [r EXCEPT !.at = "destroy", !.user = u, !.before = Owned(u)]
        BY <1>3, <3>3 DEF ResetUserPassword, Proceed
      <4>2. x.at = "destroy" /\ x.before = Owned(u) /\ x.user = u /\ sessions' = sessions
        BY <2>0, <3>3, <4>1, RequestDomain DEF ResetUserPassword
      <4> QED
        BY <4>2 DEF Revoking, Owned, Rows
    <3>4. CASE DestroyAll(r)
      <4>1. x = [r EXCEPT !.at = "session"]
        BY <1>3, <3>4 DEF DestroyAll, AfterDestroy, Continue, Proceed, Answer
      <4>2. x.at = "session" /\ x.before = r.before
        BY <2>0, <4>1, RequestDomain
      <4>3. \A s \in r.before : s \in DOMAIN sessions' /\ sessions'[s] = Gone
        BY <2>0, <2>3, <3>0, <3>4, DestroyRevokes
      <4> QED
        BY <4>2, <4>3 DEF Revoking
    <3>5. CASE Create(r)
      BY <1>3, <3>5 DEF Create, Answer
    <3>6. CASE Lost(r)
      BY <2>3, <3>6 DEF Lost
    <3> QED
      BY <1>3, <2>3, <3>1, <3>2, <3>3, <3>4, <3>5, <3>6, ChangeStatements
  <2> QED
    BY <2>1, <2>2, <2>3
<1>4. \A x \in req' : x \in req \/ Revoking(x)'
  BY <1>2, <1>3, Requests DEF Arrives
<1> QED
  BY <1>1, <1>4 DEF RevokeInv

-----------------------------------------------------------------------------
(* The theorems *)

\* The inductive invariant holds at the start.
LEMMA InitInv ==
    ASSUME Init
    PROVE  AccountsTypeOK /\ AccountsInv
<1>1. PICK s \in Starts : users = s.users /\ sessions = s.sessions /\ states = s.states
  BY DEF Init
<1>2. /\ users \in Seq(Account) /\ sessions \in Seq(Cookie) /\ states \in Seq(Trip)
      /\ \A u, v \in DOMAIN users : u # v =>
            /\ users[u].email # users[v].email
            /\ users[u].sub = users[v].sub => users[u].sub = NoOne
      /\ \A t \in DOMAIN sessions : sessions[t].user \in DOMAIN users
      /\ users # <<>> => \E u \in DOMAIN users : users[u].admin
      /\ \A u \in DOMAIN users : /\ users[u].enabled => users[u].secret # NoOne
                                 /\ users[u].pw \notin FirstPasswords
  BY <1>1, StartsAssumption
<1>3. Rows(users) = DOMAIN users /\ \A u \in DOMAIN users : users[u] \in Account
  <2>1. \A u \in DOMAIN users : users[u] \in Account
    BY <1>2, LenProperties, ElementOfSeq
  <2> QED
    BY <2>1, RowIsNotGone DEF Rows
<1>4. TablesOK
  <2>1. ASSUME NEW S, NEW table \in Seq(S) PROVE table \in Seq(S \cup {Gone})
    <3>1. \A j \in 1..Len(table) : table[j] \in S \cup {Gone}
      BY ElementOfSeq
    <3>2. Len(table) \in Nat /\ table = [j \in 1..Len(table) |-> table[j]]
      BY LenProperties
    <3> QED
      BY <3>1, <3>2, IsASeq
  <2> QED
    BY <1>2, <2>1 DEF TablesOK
<1>5. OneAccountEach
  BY <1>2, <1>3 DEF OneAccountEach
<1>6. NoOrphans
  BY <1>2, <1>3 DEF NoOrphans, Init, Rows
<1>7. ProcessOK
  <2>1. proved \subseteq Nat \ {NoOne}
    <3>1. \A u \in DOMAIN users : users[u].secret \in Nat
      BY <1>3 DEF Account
    <3> QED
      BY <1>2, <3>1 DEF Init
  <2>2. left \in [edits : 0..Edits, ages : 0..Ages, faults : 0..Faults]
    BY LimitsAssumption DEF Init
  <2> QED
    BY <2>1, <2>2 DEF ProcessOK, Init, NoOne
<1>8. BootInv /\ RequestInv /\ RevokeInv
  BY DEF Init, BootInv, RequestInv, RevokeInv
<1>9. AdminInv
  <2>1. Rows(users) # {} => users # <<>>
    BY <1>3
  <2> QED
    BY <1>2, <1>3, <2>1 DEF AdminInv, Admins, Init
<1>10. FirstPasswordKept
  BY <1>2, <1>3 DEF FirstPasswordKept
<1>11. TotpUsable
  BY <1>3 DEF TotpUsable, Init
<1> QED
  BY <1>4, <1>5, <1>6, <1>7, <1>8, <1>9, <1>10, <1>11 DEF AccountsTypeOK, AccountsInv

\* The inductive invariant is kept by every step.
LEMMA NextInv ==
    ASSUME AccountsTypeOK, AccountsInv, [Next]_vars
    PROVE  AccountsTypeOK' /\ AccountsInv'
<1>1. BootInv /\ RequestInv /\ AdminInv /\ RevokeInv /\ FirstPasswordKept /\ TotpUsable
  BY DEF AccountsInv
<1>2. AccountsTypeOK' /\ BootInv' /\ RequestInv'
  BY <1>1, TypeStep
<1>3. AdminInv' /\ RevokeInv'
  BY <1>1, AdminStep, RevokeStep
<1>4. FirstPasswordKept' /\ TotpUsable'
  BY <1>1, FirstPasswordStep, TotpStep
<1> QED
  BY <1>2, <1>3, <1>4 DEF AccountsInv

\* The inductive invariant holds in every reachable state.
LEMMA Invariance == Spec => [](AccountsTypeOK /\ AccountsInv)
<1>1. Init => AccountsTypeOK /\ AccountsInv
  BY InitInv
<1>2. AccountsTypeOK /\ AccountsInv /\ [Next]_vars => AccountsTypeOK' /\ AccountsInv'
  BY NextInv
<1> QED
  BY <1>1, <1>2, PTL DEF Spec

\* The types of all variables; no two accounts share an address or a subject,
\* and no session or membership outlives its account, however the insertions of
\* OIDC callbacks and administrators and the deletions interleave.
THEOREM AccountTypesCorrect == Spec => []AccountsTypeOK
<1> QED
  BY Invariance, PTL

\* Short of a deletion by a key, by one deleted meanwhile, or of oneself under
\* another spelling of the id, control that serves has a platform administrator.
THEOREM AnAdminRemains == Spec => []AdminRemains
<1>1. AccountsInv => AdminRemains
  BY DEF AccountsInv, AdminInv, AdminRemains
<1> QED
  BY <1>1, Invariance, PTL

\* While the first administrator has the password ensureAdmin made, the file
\* holds it.
THEOREM FirstPasswordIsKept == Spec => []FirstPasswordKept
<1>1. AccountsInv => FirstPasswordKept
  BY DEF AccountsInv
<1> QED
  BY <1>1, Invariance, PTL

\* An account that asks for a TOTP code has a secret for which a code was shown.
THEOREM TotpIsUsable == Spec => []TotpUsable
<1>1. AccountsInv => TotpUsable
  BY DEF AccountsInv
<1> QED
  BY <1>1, Invariance, PTL

\* A deleted session stays deleted, an expired one is prolonged only by a
\* request that had found it valid, and neither lets a request in.
THEOREM SessionsStayOver == Spec => SessionOver
<1>1. ASSUME AccountsTypeOK, AccountsInv, [Next]_vars
      PROVE  \A s \in DOMAIN sessions :
                /\ sessions[s] = Gone => sessions'[s] = Gone
                /\ Over(s) => Asking(s)' \subseteq Asking(s)
                /\ Over(s) /\ (\A r \in req : r.by = s => r.at # "slide") => Over(s)'
  <2> SUFFICES ASSUME NEW s \in DOMAIN sessions
               PROVE  /\ sessions[s] = Gone => sessions'[s] = Gone
                      /\ Over(s) => Asking(s)' \subseteq Asking(s)
                      /\ Over(s) /\ ~Sliding(s) => Over(s)'
    BY DEF Sliding
  <2>1. /\ sessions[s] = Gone => sessions'[s] = Gone
        /\ sessions'[s] # Gone /\ Expired(s) => Sliding(s) \/ sessions'[s].age = "expired"
    BY <1>1, OneSessionStep, SessionsAfter
  <2>2. ASSUME Over(s), ~Sliding(s) PROVE Over(s)'
    BY <2>1, <2>2 DEF Over, Rows, Expired
  <2>3. ASSUME Over(s) PROVE Asking(s)' \subseteq Asking(s)
    <3>1. s # NoOne
      <4>1. sessions \in Seq(Cookie \cup {Gone})
        BY <1>1 DEF AccountsTypeOK, TablesOK
      <4> QED
        BY <4>1, LenProperties DEF NoOne
    <3>2. ASSUME NEW x \in req', x.by = s PROVE \E r \in req : r.by = s /\ r.id = x.id
      <4>1. ASSUME Arrives(x), x \notin req PROVE FALSE
        BY <2>3, <3>1, <3>2, <4>1 DEF Arrives, Over, Valid
      <4>2. BootInv /\ RequestInv
        BY <1>1 DEF AccountsInv
      <4> QED
        BY <1>1, <3>2, <4>1, <4>2, Requests DEF Arrives, Moves, Next1
    <3> QED
      BY <3>2 DEF Asking
  <2> QED
    BY <2>1, <2>2, <2>3
<1>2. AccountsTypeOK /\ AccountsInv /\ [Next]_vars =>
        [\A s \in DOMAIN sessions :
            /\ sessions[s] = Gone => sessions'[s] = Gone
            /\ Over(s) => Asking(s)' \subseteq Asking(s)
            /\ Over(s) /\ (\A r \in req : r.by = s => r.at # "slide") => Over(s)']_vars
  BY <1>1
<1> QED
  BY <1>2, Invariance, PTL DEF Spec, SessionOver

\* When a change or a reset of a password is answered, the sessions the account
\* had at that time are deleted.
THEOREM ChangesRevoke == Spec => ChangeRevokes
<1>1. ASSUME AccountsTypeOK, AccountsInv, [Next]_vars, NEW r \in req, "lost" \notin past',
             boot' = "up", r.op \in Changes, {x \in req' : x.id = r.id} = {}
      PROVE  \A s \in r.before : sessions'[s] = Gone
  <2>0. BootInv /\ RequestInv /\ Revoking(r) /\ r \in Request
    BY <1>1, RequestFields DEF AccountsInv, RevokeInv
  <2>1. Statement(r)
    <3>1. r \notin req'
      BY <1>1
    <3> QED
      BY <1>1, <2>0, <3>1, Requests DEF Arrives, Moves, Next1
  <2>2. "lost" \notin past
    BY <1>1, PastGrows
  <2>3. ASSUME NEW x \in req' PROVE x.id # r.id
    BY <1>1
  <2>4. CASE Slide(r)
    <3>1. [r EXCEPT !.at = "act"] \in req'
      BY <2>4 DEF Slide, Continue, Proceed
    <3>2. [r EXCEPT !.at = "act"].id = r.id
      BY <2>0, RequestDomain
    <3> QED
      BY <2>3, <3>1, <3>2
  <2>5. CASE ChangePassword(r)
    <3>1. [r EXCEPT !.at = "destroy", !.before = Owned(r.user)] \in req'
      BY <2>5 DEF ChangePassword, Proceed
    <3>2. [r EXCEPT !.at = "destroy", !.before = Owned(r.user)].id = r.id
      BY <2>0, RequestDomain
    <3> QED
      BY <2>3, <3>1, <3>2
  <2>6. CASE ResetUserPassword(r)
    <3>1. PICK u : [r EXCEPT !.at = "destroy", !.user = u, !.before = Owned(u)] \in req'
      BY <2>6 DEF ResetUserPassword, Proceed
    <3>2. [r EXCEPT !.at = "destroy", !.user = u, !.before = Owned(u)].id = r.id
      BY <2>0, RequestDomain
    <3> QED
      BY <2>3, <3>1, <3>2
  <2>7. CASE DestroyAll(r)
    BY <1>1, <2>0, <2>2, <2>7, DestroyRevokes
  <2>8. CASE Create(r)
    <3>1. \A s \in r.before : s \in DOMAIN sessions /\ sessions[s] = Gone
      BY <1>1, <2>0, <2>2, <2>8 DEF Revoking, Create, Changes
    <3> QED
      BY <1>1, <3>1, OneSessionStep, SessionsAfter
  <2>9. CASE Lost(r)
    BY <1>1, <2>9 DEF Lost
  <2> QED
    BY <1>1, <2>0, <2>1, <2>4, <2>5, <2>6, <2>7, <2>8, <2>9, ChangeStatements
<1>2. AccountsTypeOK /\ AccountsInv /\ [Next]_vars =>
        [\A r \in req : "lost" \notin past' /\ boot' = "up" /\ r.op \in {"password", "reset"}
            /\ {x \in req' : x.id = r.id} = {} =>
                \A s \in r.before : sessions'[s] = Gone]_vars
  BY <1>1 DEF Changes
<1> QED
  BY <1>2, Invariance, PTL DEF Spec, ChangeRevokes

=============================================================================
