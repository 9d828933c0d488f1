-------------------------- MODULE RegistrationProofs --------------------------
(***************************************************************************)
(* Proofs about Registration, for every number of requests, accounts and   *)
(* codes: redemptions stay within a code's uses, and a site whose earliest *)
(* account is in order always keeps an active administrator.               *)
(***************************************************************************)
EXTENDS RegistrationApart, FiniteSetTheorems, TLAPS

\* What the proofs ask of the rows an older version left: once an admin is
\* ensured, none of the admins is banned.
LegacyInOrder ==
  \A rows \in Legacy : \A i \in Admins(Ensured(rows)) : Ensured(rows)[i].status = "active"

\* A request that goes on after its account was made names that account, which
\* has not redeemed its code and which no other request works for.
ConsumingInv ==
  \A w \in Workers : req[w].pc = "consume" =>
    /\ req[w].code \in Codes
    /\ req[w].id \in DOMAIN accounts
    /\ accounts[req[w].id].via = req[w].code
    /\ <<req[w].code, req[w].id>> \notin usages
    /\ \A v \in Workers : req[v].pc = "consume" /\ req[v].id = req[w].id => v = w

\* A request that found accounts makes a user only; a ban is of no admin.
RoleInv ==
  \A w \in Workers :
    /\ req[w].pc = "insert" /\ req[w].role = "user" => accounts # <<>>
    /\ req[w].pc = "ban" => req[w].id \in DOMAIN accounts \ Admins(accounts)

RegistrationInv ==
  /\ TypeOK
  /\ IsFiniteSet(usages)
  /\ ConsumingInv
  /\ RoleInv
  /\ InviteNotOverspent
  /\ AdminsStay

-----------------------------------------------------------------------------
(* Rows of accounts.                                                       *)

LEMMA AppendedRow ==
  ASSUME NEW s \in Seq(Account), NEW a \in Account
  PROVE  /\ Append(s, a) \in Seq(Account)
         /\ Append(s, a) # <<>>
         /\ DOMAIN Append(s, a) = DOMAIN s \cup {Len(s) + 1}
         /\ Len(s) + 1 \notin DOMAIN s
         /\ \A i \in DOMAIN s : Append(s, a)[i] = s[i]
         /\ Append(s, a)[Len(s) + 1] = a
<1>1. DOMAIN s = 1..Len(s) /\ Len(s) \in Nat
  OBVIOUS
<1>2. Append(s, a) \in Seq(Account) /\ Len(Append(s, a)) = Len(s) + 1
  OBVIOUS
<1>3. DOMAIN Append(s, a) = 1..(Len(s) + 1)
  BY <1>2
<1>4. 1..(Len(s) + 1) = 1..Len(s) \cup {Len(s) + 1}
  BY <1>1
<1>5. Append(s, a) # <<>>
  BY <1>2, <1>1
<1> QED
  BY <1>1, <1>2, <1>3, <1>4, <1>5

LEMMA RowFields ==
  ASSUME NEW r \in Account, NEW st \in {"active", "banned"}, NEW ro \in {"user", "admin"}
  PROVE  /\ [r EXCEPT !.status = st] \in Account
         /\ [r EXCEPT !.status = st].name = r.name
         /\ [r EXCEPT !.status = st].email = r.email
         /\ [r EXCEPT !.status = st].role = r.role
         /\ [r EXCEPT !.status = st].via = r.via
         /\ [r EXCEPT !.status = st].status = st
         /\ [r EXCEPT !.role = ro] \in Account
         /\ [r EXCEPT !.role = ro].name = r.name
         /\ [r EXCEPT !.role = ro].email = r.email
         /\ [r EXCEPT !.role = ro].role = ro
BY DEF Account

\* t is s but for the status of row i.
StatusSet(s, i, st, t) ==
  /\ t \in Seq(Account)
  /\ DOMAIN t = DOMAIN s
  /\ \A j \in DOMAIN s :
       /\ t[j].name = s[j].name /\ t[j].email = s[j].email
       /\ t[j].role = s[j].role /\ t[j].via = s[j].via
       /\ t[j].status = IF j = i THEN st ELSE s[j].status

LEMMA StatusChanged ==
  ASSUME NEW s \in Seq(Account), NEW i \in DOMAIN s, NEW st \in {"active", "banned"}
  PROVE  StatusSet(s, i, st, [s EXCEPT ![i].status = st])
<1> DEFINE u == [s[i] EXCEPT !.status = st]
           t == [s EXCEPT ![i] = u]
<1>1. s[i] \in Account
  OBVIOUS
<1>2. u \in Account
  BY <1>1, RowFields
<1>3. /\ u.name = s[i].name /\ u.email = s[i].email /\ u.role = s[i].role
      /\ u.via = s[i].via /\ u.status = st
  BY <1>1, RowFields
<1>4. StatusSet(s, i, st, t)
  <2> HIDE DEF u
  <2>1. t \in Seq(Account) /\ DOMAIN t = DOMAIN s
    BY <1>2
  <2>2. \A j \in DOMAIN s : t[j] = IF j = i THEN u ELSE s[j]
    OBVIOUS
  <2> HIDE DEF t
  <2> QED
    BY <1>3, <2>1, <2>2 DEF StatusSet
<1>5. [s EXCEPT ![i].status = st] = t
  OBVIOUS
<1> QED
  BY <1>4, <1>5

LEMMA EnsuredRows ==
  ASSUME NEW s \in Seq(Account), Distinct(s)
  PROVE  /\ Ensured(s) \in Seq(Account)
         /\ Distinct(Ensured(s))
         /\ Ensured(s) # <<>> => Admins(Ensured(s)) # {}
<1>1. CASE Admins(s) # {} \/ s = <<>>
  BY <1>1 DEF Ensured
<1>2. CASE ~(Admins(s) # {} \/ s = <<>>)
  <2> DEFINE t == [s EXCEPT ![1].role = "admin"]
  <2>1. 1 \in DOMAIN s
    BY <1>2
  <2>2. s[1] \in Account
    BY <2>1
  <2>3. [s[1] EXCEPT !.role = "admin"] \in Account
    BY <2>2, RowFields
  <2>4. t = [s EXCEPT ![1] = [s[1] EXCEPT !.role = "admin"]]
    OBVIOUS
  <2>5. t \in Seq(Account) /\ DOMAIN t = DOMAIN s
    BY <2>1, <2>3, <2>4
  <2> DEFINE u == [s[1] EXCEPT !.role = "admin"]
  <2>6. \A j \in DOMAIN s : t[j] = IF j = 1 THEN u ELSE s[j]
    BY <2>4
  <2>u. u.name = s[1].name /\ u.email = s[1].email /\ u.role = "admin"
    BY <2>2, RowFields
  <2> HIDE DEF t, u
  <2>7. \A j \in DOMAIN s : t[j].name = s[j].name /\ t[j].email = s[j].email
    BY <2>6, <2>u
  <2>8. t[1].role = "admin"
    BY <2>1, <2>6, <2>u
  <2>9. Ensured(s) = t
    BY <1>2 DEF Ensured, t
  <2>10. Distinct(t)
    BY <2>5, <2>7 DEF Distinct
  <2>11. 1 \in Admins(t)
    BY <2>1, <2>5, <2>8 DEF Admins
  <2> QED
    BY <2>5, <2>9, <2>10, <2>11
<1> QED
  BY <1>1, <1>2

-----------------------------------------------------------------------------
(* Requests.                                                               *)

\* The program counter tells which kind of request it is.
LEMMA RequestKinds ==
  ASSUME NEW q \in {Idle} \cup Registering \cup Sanctioning
  PROVE  /\ q.pc \in {"validate", "name", "email", "count", "insert", "consume"} => q \in Registering
         /\ q.pc = "ban" => q \in Sanctioning
         /\ q.pc = "idle" <=> q = Idle
BY DEF Registering, Sanctioning, Idle

LEMMA RequestMoves ==
  ASSUME NEW q \in Registering,
         NEW pc \in {"validate", "name", "email", "count", "insert", "consume"}
  PROVE  [q EXCEPT !.pc = pc] \in Registering /\ [q EXCEPT !.pc = pc].pc = pc
BY DEF Registering

LEMMA RequestGetsRole ==
  ASSUME NEW q \in Registering, NEW ro \in {"user", "admin"}
  PROVE  /\ [q EXCEPT !.pc = "insert", !.role = ro] \in Registering
         /\ [q EXCEPT !.pc = "insert", !.role = ro].pc = "insert"
         /\ [q EXCEPT !.pc = "insert", !.role = ro].role = ro
BY DEF Registering

LEMMA RequestGetsId ==
  ASSUME NEW q \in Registering, NEW n \in Nat
  PROVE  /\ [q EXCEPT !.pc = "consume", !.id = n] \in Registering
         /\ [q EXCEPT !.pc = "consume", !.id = n].pc = "consume"
         /\ [q EXCEPT !.pc = "consume", !.id = n].id = n
         /\ [q EXCEPT !.pc = "consume", !.id = n].code = q.code
BY DEF Registering

\* Steps that change requests only, and start neither a consumption, nor an
\* insertion as a user of an empty site, nor the ban of an admin.
\* Each is a move of one request w to q.
Moved(w, q) ==
  /\ req' = [req EXCEPT ![w] = q]
  /\ q \in {Idle} \cup Registering \cup Sanctioning
  /\ q.pc # "consume"
  /\ q.pc = "insert" /\ q.role = "user" => accounts # <<>>
  /\ q.pc = "ban" => q.id \in DOMAIN accounts \ Admins(accounts)
  /\ UNCHANGED accounts

LEMMA IdleMove == Idle.pc = "idle" /\ Idle.pc \notin {"consume", "insert", "ban"}
BY DEF Idle

\* The steps that prepare an account or a ban move a request only.
LEMMA Preparations ==
  ASSUME TypeOK, NEW w \in Workers,
         \/ \E a \in Applicants, c \in Codes \cup {NoCode} : Submit(w, a[1], a[2], c)
         \/ ValidateCode(w) \/ FindByUsername(w) \/ FindByEmail(w) \/ CountUsers(w)
         \/ \E i \in DOMAIN accounts : ReadForBan(w, i)
  PROVE  /\ \E q : Moved(w, q)
         /\ UNCHANGED <<accounts, invite, usages, cut, restarts>>
         /\ policy' = policy
<1>1. CASE \E a \in Applicants, c \in Codes \cup {NoCode} : Submit(w, a[1], a[2], c)
  <2>1. PICK a \in Applicants, c \in Codes \cup {NoCode} : Submit(w, a[1], a[2], c)
    BY <1>1
  <2> DEFINE q == [pc |-> IF c = NoCode THEN "name" ELSE "validate", name |-> a[1],
                   email |-> a[2], code |-> c, role |-> "user", id |-> 0]
  <2>2. a[1] \in Names /\ a[2] \in Emails
    BY RegistrationAssumption
  <2>3. q \in Registering /\ q.pc \in {"name", "validate"}
    BY <2>2 DEF Registering
  <2>4. Moved(w, q)
    BY <2>1, <2>3 DEF Submit, Moved
  <2> QED
    BY <2>1, <2>4 DEF Submit
<1>2. CASE ValidateCode(w)
  <2>1. req[w] \in Registering
    BY <1>2, RequestKinds DEF TypeOK, ValidateCode
  <2>2. \/ req' = [req EXCEPT ![w] = [req[w] EXCEPT !.pc = "name"]]
        \/ req' = [req EXCEPT ![w] = Idle]
    BY <1>2 DEF ValidateCode, Goto, Finish
  <2>3. /\ [req[w] EXCEPT !.pc = "name"] \in Registering
        /\ [req[w] EXCEPT !.pc = "name"].pc = "name"
    BY <2>1, RequestMoves
  <2>4. \E q : Moved(w, q)
    <3> DEFINE u == [req[w] EXCEPT !.pc = "name"]
    <3> HIDE DEF u
    <3>1. Moved(w, u) \/ Moved(w, Idle)
      BY <1>2, <2>2, <2>3, IdleMove DEF ValidateCode, Moved, u
    <3> QED
      BY <3>1
  <2> QED
    BY <1>2, <2>4 DEF ValidateCode
<1>3. CASE FindByUsername(w)
  <2>1. req[w] \in Registering
    BY <1>3, RequestKinds DEF TypeOK, FindByUsername
  <2>2. \/ req' = [req EXCEPT ![w] = [req[w] EXCEPT !.pc = "email"]]
        \/ req' = [req EXCEPT ![w] = Idle]
    BY <1>3 DEF FindByUsername, Goto, Finish
  <2>3. /\ [req[w] EXCEPT !.pc = "email"] \in Registering
        /\ [req[w] EXCEPT !.pc = "email"].pc = "email"
    BY <2>1, RequestMoves
  <2>4. \E q : Moved(w, q)
    <3> DEFINE u == [req[w] EXCEPT !.pc = "email"]
    <3> HIDE DEF u
    <3>1. Moved(w, u) \/ Moved(w, Idle)
      BY <1>3, <2>2, <2>3, IdleMove DEF FindByUsername, Moved, u
    <3> QED
      BY <3>1
  <2> QED
    BY <1>3, <2>4 DEF FindByUsername
<1>4. CASE FindByEmail(w)
  <2>1. req[w] \in Registering
    BY <1>4, RequestKinds DEF TypeOK, FindByEmail
  <2>2. \/ req' = [req EXCEPT ![w] = [req[w] EXCEPT !.pc = "count"]]
        \/ req' = [req EXCEPT ![w] = Idle]
    BY <1>4 DEF FindByEmail, Goto, Finish
  <2>3. /\ [req[w] EXCEPT !.pc = "count"] \in Registering
        /\ [req[w] EXCEPT !.pc = "count"].pc = "count"
    BY <2>1, RequestMoves
  <2>4. \E q : Moved(w, q)
    <3> DEFINE u == [req[w] EXCEPT !.pc = "count"]
    <3> HIDE DEF u
    <3>1. Moved(w, u) \/ Moved(w, Idle)
      BY <1>4, <2>2, <2>3, IdleMove DEF FindByEmail, Moved, u
    <3> QED
      BY <3>1
  <2> QED
    BY <1>4, <2>4 DEF FindByEmail
<1>5. CASE CountUsers(w)
  <2>1. req[w] \in Registering
    BY <1>5, RequestKinds DEF TypeOK, CountUsers
  <2> DEFINE ro == IF accounts = <<>> THEN "admin" ELSE "user"
             u == [req[w] EXCEPT !.pc = "insert", !.role = ro]
  <2>2. req' = [req EXCEPT ![w] = u]
    BY <1>5 DEF CountUsers, TypeOK
  <2>3. u \in Registering /\ u.pc = "insert" /\ u.role = ro
    <3>1. ro \in {"user", "admin"}
      OBVIOUS
    <3> HIDE DEF ro
    <3> QED
      BY <2>1, <3>1, RequestGetsRole
  <2>4. Moved(w, u)
    <3> HIDE DEF u
    <3> QED
      BY <1>5, <2>2, <2>3 DEF CountUsers, Moved
  <2> QED
    BY <1>5, <2>4 DEF CountUsers
<1>6. CASE \E i \in DOMAIN accounts : ReadForBan(w, i)
  <2>1. PICK i \in DOMAIN accounts : ReadForBan(w, i)
    BY <1>6
  <2>2. i \in Nat
    BY DEF TypeOK
  <2>3. [pc |-> "ban", id |-> i] \in Sanctioning
    BY <2>2 DEF Sanctioning
  <2>4. Moved(w, [pc |-> "ban", id |-> i])
    BY <2>1, <2>3 DEF ReadForBan, Moved, Admins
  <2> QED
    BY <2>1, <2>4 DEF ReadForBan
<1> QED
  BY <1>1, <1>2, <1>3, <1>4, <1>5, <1>6

-----------------------------------------------------------------------------
(* The invariant, step by step.                                            *)

LEMMA InvInit == LegacyInOrder /\ Init => RegistrationInv
<1> SUFFICES ASSUME LegacyInOrder, Init PROVE RegistrationInv
  OBVIOUS
<1>1. PICK rows \in Legacy : accounts = Ensured(rows)
  BY DEF Init
<1>2. rows \in Seq(Account) /\ Distinct(rows)
  BY RegistrationAssumption
<1>3. accounts \in Seq(Account) /\ Distinct(accounts) /\ (accounts # <<>> => Admins(accounts) # {})
  BY <1>1, <1>2, EnsuredRows
<1>4. AdminsStay
  BY <1>1, <1>3 DEF AdminsStay, LegacyInOrder
<1>5. TypeOK
  BY <1>3 DEF Init, TypeOK, Invite
<1>6. \A w \in Workers : req[w].pc = "idle"
  BY DEF Init, Idle
<1>7. IsFiniteSet(usages)
  BY FS_EmptySet DEF Init
<1>8. InviteNotOverspent
  <2> SUFFICES ASSUME NEW c \in Codes
               PROVE  invite[c].used <= MaxUses[c] /\
                      invite[c].used = Cardinality({u \in usages : u[1] = c})
    BY DEF InviteNotOverspent, Init
  <2>1. invite[c].used = 0 /\ MaxUses[c] \in Nat
    BY RegistrationAssumption DEF Init
  <2> DEFINE redeemed == {u \in usages : u[1] = c}
  <2>2. redeemed = {}
    BY DEF Init
  <2>3. Cardinality(redeemed) = 0
    BY <2>2, FS_EmptySet
  <2> QED
    BY <2>1, <2>3
<1> QED
  BY <1>4, <1>5, <1>6, <1>7, <1>8 DEF RegistrationInv, ConsumingInv, RoleInv

LEMMA MovedStep ==
  ASSUME RegistrationInv, NEW w \in Workers, NEW q, Moved(w, q),
         UNCHANGED <<invite, usages, cut, restarts>>, policy' = policy
  PROVE  RegistrationInv'
<1>1. req' \in [Workers -> {Idle} \cup Registering \cup Sanctioning]
  BY DEF RegistrationInv, TypeOK, Moved
<1>2. \A v \in Workers : req'[v] = IF v = w THEN q ELSE req[v]
  BY DEF RegistrationInv, TypeOK, Moved
<1>3. TypeOK'
  BY <1>1 DEF RegistrationInv, TypeOK, Moved
<1>4. ConsumingInv'
  BY <1>2 DEF RegistrationInv, ConsumingInv, Moved
<1>5. RoleInv'
  BY <1>2 DEF RegistrationInv, RoleInv, Moved, Admins
<1>6. InviteNotOverspent' /\ AdminsStay'
  BY DEF RegistrationInv, InviteNotOverspent, AdminsStay, Moved, Admins
<1> QED
  BY <1>3, <1>4, <1>5, <1>6 DEF RegistrationInv

\* The account is made, and its request goes on if it has a code.
LEMMA InsertStep ==
  ASSUME RegistrationInv, NEW w \in Workers, InsertUser(w), ~IndexRefuses(req[w])
  PROVE  RegistrationInv'
<1> DEFINE q == req[w]
           row == [name |-> q.name, email |-> q.email, role |-> q.role,
                   status |-> "active", via |-> q.code]
           new == Len(accounts) + 1
           next == IF q.code = NoCode THEN Idle ELSE [q EXCEPT !.pc = "consume", !.id = new]
<1>1. q \in Registering /\ q.pc = "insert"
  BY RequestKinds DEF RegistrationInv, TypeOK, InsertUser
<1>2. row \in Account
  BY <1>1 DEF Registering, Account
<1>3. /\ accounts \in Seq(Account) /\ accounts' = Append(accounts, row) /\ new \in Nat
      /\ req' = [req EXCEPT ![w] = next] /\ UNCHANGED <<invite, usages, policy, cut, restarts>>
  BY DEF InsertUser, RegistrationInv, TypeOK
<1>4. /\ accounts' \in Seq(Account) /\ accounts' # <<>>
      /\ DOMAIN accounts' = DOMAIN accounts \cup {new} /\ new \notin DOMAIN accounts
      /\ \A i \in DOMAIN accounts : accounts'[i] = accounts[i]
      /\ accounts'[new] = row
  BY <1>2, <1>3, AppendedRow
<1>5. next \in {Idle} \cup Registering
      /\ (next.pc \in {"idle", "consume"})
      /\ (next.pc = "consume" => next.code = q.code /\ q.code \in Codes /\ next.id = new)
  <2>1. CASE q.code = NoCode
    BY <2>1, IdleMove
  <2>2. CASE q.code # NoCode
    <3>1. q.code \in Codes
      BY <1>1, <2>2 DEF Registering
    <3> DEFINE u == [q EXCEPT !.pc = "consume", !.id = new]
    <3>2. u \in Registering /\ u.pc = "consume" /\ u.id = new /\ u.code = q.code
      <4> HIDE DEF q, new
      <4> QED
        BY <1>1, <1>3, RequestGetsId, Zenon
    <3>3. next = u
      BY <2>2
    <3> HIDE DEF u, next
    <3> QED
      BY <3>1, <3>2, <3>3
  <2> QED
    BY <2>1, <2>2
<1>r. row.name = q.name /\ row.email = q.email /\ row.role = q.role
      /\ row.status = "active" /\ row.via = q.code
  OBVIOUS
<1>d. \A i \in DOMAIN accounts : accounts[i].name # q.name /\ accounts[i].email # q.email
  BY DEF IndexRefuses, NameTaken, EmailTaken
<1>q. q.pc = "insert" /\ q.role = "user" => accounts # <<>>
  BY DEF RegistrationInv, RoleInv
<1>n. q.role \in {"user", "admin"}
  BY <1>1 DEF Registering
<1> HIDE DEF next, row, new
<1>6. req' \in [Workers -> {Idle} \cup Registering \cup Sanctioning]
  BY <1>3, <1>5 DEF RegistrationInv, TypeOK
<1>7. \A v \in Workers : req'[v] = IF v = w THEN next ELSE req[v]
  BY <1>3 DEF RegistrationInv, TypeOK
<1>8. Distinct(accounts')
  BY <1>4, <1>r, <1>d DEF Distinct, RegistrationInv, TypeOK
<1>9. TypeOK'
  BY <1>3, <1>4, <1>6, <1>8 DEF RegistrationInv, TypeOK
<1>u. \A u \in usages, c \in Codes : u[1] = c => u[2] \in DOMAIN accounts
  BY DEF RegistrationInv, InviteNotOverspent
<1>10. ConsumingInv'
  <2> SUFFICES ASSUME NEW v \in Workers, req'[v].pc = "consume"
               PROVE  /\ req'[v].code \in Codes
                      /\ req'[v].id \in DOMAIN accounts'
                      /\ accounts'[req'[v].id].via = req'[v].code
                      /\ <<req'[v].code, req'[v].id>> \notin usages'
                      /\ \A x \in Workers : req'[x].pc = "consume" /\ req'[x].id = req'[v].id => x = v
    BY DEF ConsumingInv
  <2>1. CASE v = w
    <3>1. <<q.code, new>> \notin usages
      BY <1>u, <1>4, <1>5, <1>7, <2>1
    <3>2. \A x \in Workers : x # w /\ req'[x].pc = "consume" => req'[x].id \in DOMAIN accounts
      BY <1>7 DEF RegistrationInv, ConsumingInv
    <3>3. req'[w] = next
      BY <1>7
    <3>4. next.code = q.code /\ q.code \in Codes /\ next.id = new
      BY <1>5, <2>1, <3>3
    <3>5. /\ req'[v].code \in Codes /\ req'[v].id \in DOMAIN accounts'
          /\ accounts'[req'[v].id].via = req'[v].code
      BY <1>4, <1>r, <2>1, <3>3, <3>4
    <3>6. <<req'[v].code, req'[v].id>> \notin usages'
      <4>1. usages' = usages /\ req'[v] = next
        BY <1>3, <2>1, <3>3
      <4> QED
        BY <3>1, <3>4, <4>1, Zenon
    <3>7. \A x \in Workers : req'[x].pc = "consume" /\ req'[x].id = req'[v].id => x = v
      BY <1>4, <2>1, <3>2, <3>3, <3>4
    <3> QED
      BY <3>5, <3>6, <3>7
  <2>2. CASE v # w
    <3>1. req'[v] = req[v] /\ req[v].id \in DOMAIN accounts
      BY <1>7, <2>2 DEF RegistrationInv, ConsumingInv
    <3> QED
      BY <1>3, <1>4, <1>5, <1>7, <2>2, <3>1 DEF RegistrationInv, ConsumingInv
  <2> QED
    BY <2>1, <2>2
<1>11. RoleInv'
  <2>1. \A i \in DOMAIN accounts : i \in Admins(accounts)' <=> i \in Admins(accounts)
    BY <1>4 DEF Admins
  <2> QED
    BY <1>4, <1>5, <1>7, <2>1 DEF RegistrationInv, RoleInv
<1>12. InviteNotOverspent'
  <2>1. invite' = invite /\ usages' = usages
    BY <1>3
  <2>2. \A i \in DOMAIN accounts : i \in DOMAIN accounts' /\ accounts'[i] = accounts[i]
    BY <1>4
  <2>3. InviteNotOverspent
    BY DEF RegistrationInv
  <2> QED
    BY <2>1, <2>2, <2>3 DEF InviteNotOverspent
<1>13. AdminsStay'
  <2>1. Admins(accounts') = IF q.role = "admin" THEN Admins(accounts) \cup {new} ELSE Admins(accounts)
    BY <1>4, <1>r DEF Admins
  <2>2. accounts # <<>> \/ q.role = "admin"
    BY <1>1, <1>n, <1>q
  <2>3. Admins(accounts') # {}
    BY <2>1, <2>2 DEF RegistrationInv, AdminsStay
  <2>4. \A i \in Admins(accounts') : accounts'[i].status = "active"
    <3>1. Admins(accounts) \subseteq DOMAIN accounts
      BY DEF Admins
    <3> QED
      BY <1>4, <1>r, <2>1, <3>1 DEF RegistrationInv, AdminsStay
  <2> QED
    BY <2>3, <2>4 DEF AdminsStay
<1> QED
  BY <1>3, <1>9, <1>10, <1>11, <1>12, <1>13 DEF RegistrationInv

\* Only changes of accounts that keep roles and codes, and no admin's status.
LEMMA StatusStep ==
  ASSUME RegistrationInv, NEW i \in DOMAIN accounts, NEW st \in {"active", "banned"},
         st = "active" \/ i \notin Admins(accounts),
         accounts' = [accounts EXCEPT ![i].status = st],
         req' \in [Workers -> {Idle} \cup Registering \cup Sanctioning],
         \A w \in Workers : req'[w] = req[w] \/ req'[w] = Idle,
         UNCHANGED <<invite, usages, policy, cut, restarts>>
  PROVE  RegistrationInv'
<1>1. /\ accounts' \in Seq(Account)
      /\ DOMAIN accounts' = DOMAIN accounts
      /\ \A j \in DOMAIN accounts :
           /\ accounts'[j].name = accounts[j].name /\ accounts'[j].email = accounts[j].email
           /\ accounts'[j].role = accounts[j].role /\ accounts'[j].via = accounts[j].via
           /\ accounts'[j].status = IF j = i THEN st ELSE accounts[j].status
  <2>1. accounts \in Seq(Account)
    BY DEF RegistrationInv, TypeOK
  <2>2. StatusSet(accounts, i, st, accounts')
    BY <2>1, StatusChanged
  <2> QED
    BY <2>2 DEF StatusSet
<1>2. TypeOK'
  BY <1>1 DEF RegistrationInv, TypeOK, Distinct
<1>3. accounts' # <<>> /\ accounts # <<>>
  BY <1>1 DEF RegistrationInv, TypeOK
<1>4. Admins(accounts') = Admins(accounts)
  BY <1>1 DEF Admins
<1>5. ConsumingInv'
  <2>1. \A w \in Workers : req'[w].pc = "consume" => req'[w] = req[w]
    BY IdleMove
  <2> SUFFICES ASSUME NEW w \in Workers, req'[w].pc = "consume"
               PROVE  /\ req[w].code \in Codes
                      /\ req[w].id \in DOMAIN accounts'
                      /\ accounts'[req[w].id].via = req[w].code
                      /\ <<req[w].code, req[w].id>> \notin usages
                      /\ \A v \in Workers : req'[v].pc = "consume" /\ req[v].id = req[w].id => v = w
    BY <2>1 DEF ConsumingInv
  <2>2. req'[w] = req[w] /\ ConsumingInv
    BY <2>1 DEF RegistrationInv
  <2>3. \A v \in Workers : req'[v].pc = "consume" => req[v].pc = "consume"
    BY <2>1
  <2> QED
    BY <1>1, <2>2, <2>3 DEF ConsumingInv
<1>6. RoleInv'
  <2>1. \A w \in Workers : req'[w].pc \in {"insert", "ban"} => req'[w] = req[w]
    BY IdleMove
  <2> QED
    BY <1>1, <1>3, <1>4, <2>1 DEF RegistrationInv, RoleInv
<1>7. InviteNotOverspent'
  <2> SUFFICES ASSUME NEW c \in Codes
               PROVE  /\ invite[c].used <= MaxUses[c]
                      /\ invite[c].used = Cardinality({u \in usages : u[1] = c})
                      /\ \A u \in usages : u[1] = c =>
                           u[2] \in DOMAIN accounts' /\ accounts'[u[2]].via = c
    BY DEF InviteNotOverspent
  <2>1. InviteNotOverspent
    BY DEF RegistrationInv
  <2>2. /\ invite[c].used <= MaxUses[c]
        /\ invite[c].used = Cardinality({u \in usages : u[1] = c})
    BY <2>1 DEF InviteNotOverspent
  <2>3. \A u \in usages : u[1] = c => u[2] \in DOMAIN accounts /\ accounts[u[2]].via = c
    BY <2>1 DEF InviteNotOverspent
  <2>4. \A u \in usages : u[1] = c => u[2] \in DOMAIN accounts' /\ accounts'[u[2]].via = c
    BY <1>1, <2>3
  <2> QED
    BY <2>2, <2>4
<1>8. AdminsStay'
  <2>1. Admins(accounts) \subseteq DOMAIN accounts
    BY DEF Admins
  <2> QED
    BY <1>1, <1>3, <1>4, <2>1 DEF RegistrationInv, AdminsStay
<1> QED
  BY <1>2, <1>5, <1>6, <1>7, <1>8 DEF RegistrationInv

\* The code's row is locked: one more use and one more redemption, or neither.
LEMMA ConsumeStep ==
  ASSUME RegistrationInv, NEW w \in Workers, Consume(w)
  PROVE  RegistrationInv'
<1> DEFINE c == req[w].code
           x == <<c, req[w].id>>
<1>1. /\ req[w].pc = "consume" /\ c \in Codes /\ req[w].id \in DOMAIN accounts
      /\ accounts[req[w].id].via = c /\ x \notin usages
  BY DEF Consume, RegistrationInv, ConsumingInv
<1>2. req' = [req EXCEPT ![w] = Idle] /\ UNCHANGED <<accounts, policy, cut, restarts>>
  BY DEF Consume, Finish
<1>3. \A v \in Workers : req'[v] = IF v = w THEN Idle ELSE req[v]
  BY <1>2 DEF RegistrationInv, TypeOK
<1>4. req' \in [Workers -> {Idle} \cup Registering \cup Sanctioning]
  BY <1>2 DEF RegistrationInv, TypeOK
<1>5. RoleInv'
  BY <1>2, <1>3, IdleMove DEF RegistrationInv, RoleInv
<1>6. AdminsStay'
  BY <1>2 DEF RegistrationInv, AdminsStay
<1>7. CASE Usable(c)
  <2>1. /\ invite' = [invite EXCEPT ![c].used = @ + 1] /\ usages' = usages \cup {x}
        /\ invite[c].used < MaxUses[c]
    BY <1>7 DEF Consume, Usable
  <2>2. invite[c] \in Invite /\ req[w].id \in Nat /\ MaxUses[c] \in Nat
    BY <1>1, RegistrationAssumption DEF RegistrationInv, TypeOK
  <2>3. invite[c].used \in Nat /\ invite[c].state \in {"unborn", "valid", "expired", "deleted"}
    BY <2>2 DEF Invite
  <2>4. invite' \in [Codes -> Invite] /\ invite'[c].used = invite[c].used + 1
        /\ \A d \in Codes \ {c} : invite'[d] = invite[d]
    <3> DEFINE r == [invite[c] EXCEPT !.used = @ + 1]
    <3>1. r \in Invite /\ r.used = invite[c].used + 1
      BY <2>2, <2>3 DEF Invite
    <3>2. invite' = [invite EXCEPT ![c] = r]
      BY <2>1
    <3> HIDE DEF r
    <3> QED
      BY <1>1, <3>1, <3>2 DEF RegistrationInv, TypeOK
  <2>5. usages' \subseteq Codes \X Nat
    BY <1>1, <2>1, <2>2 DEF RegistrationInv, TypeOK
  <2>6. TypeOK'
    BY <1>2, <1>4, <2>4, <2>5 DEF RegistrationInv, TypeOK
  <2>7. IsFiniteSet(usages')
    BY <2>1, FS_AddElement DEF RegistrationInv
  <2>8. ConsumingInv'
    <3>1. \A v \in Workers : req'[v].pc = "consume" => v # w /\ req'[v] = req[v]
      BY <1>3, IdleMove
    <3>2. ConsumingInv
      BY DEF RegistrationInv
    <3> SUFFICES ASSUME NEW v \in Workers, req'[v].pc = "consume"
                 PROVE  /\ req[v].code \in Codes
                        /\ req[v].id \in DOMAIN accounts
                        /\ accounts[req[v].id].via = req[v].code
                        /\ <<req[v].code, req[v].id>> \notin usages'
                        /\ \A u \in Workers :
                             req[u].pc = "consume" /\ req[u].id = req[v].id => u = v
      BY <1>2, <3>1 DEF ConsumingInv
    <3>3. v # w /\ req[v].pc = "consume"
      BY <3>1
    <3>4. req[v].id # req[w].id
      BY <1>1, <3>2, <3>3 DEF ConsumingInv
    <3>5. <<req[v].code, req[v].id>> # x
      BY <3>4
    <3> QED
      BY <2>1, <3>2, <3>3, <3>5 DEF ConsumingInv
  <2>9. InviteNotOverspent'
    <3> SUFFICES ASSUME NEW d \in Codes
                 PROVE  /\ invite'[d].used <= MaxUses[d]
                        /\ invite'[d].used = Cardinality({u \in usages' : u[1] = d})
                        /\ \A u \in usages' : u[1] = d =>
                             u[2] \in DOMAIN accounts /\ accounts[u[2]].via = d
      BY <1>2 DEF InviteNotOverspent
    <3>1. \A u \in usages' : u[1] = d => u[2] \in DOMAIN accounts /\ accounts[u[2]].via = d
      <4>1. x[1] = c /\ x[2] = req[w].id
        OBVIOUS
      <4>2. \A u \in usages : u[1] = d => u[2] \in DOMAIN accounts /\ accounts[u[2]].via = d
        BY DEF RegistrationInv, InviteNotOverspent
      <4> HIDE DEF x, c
      <4>3. ASSUME NEW u \in usages', u[1] = d
            PROVE  u[2] \in DOMAIN accounts /\ accounts[u[2]].via = d
        <5>1. CASE u \in usages
          BY <4>2, <4>3, <5>1
        <5>2. CASE u = x
          BY <1>1, <4>1, <4>3, <5>2 DEF c
        <5> QED
          BY <2>1, <5>1, <5>2
      <4> QED
        BY <4>3
    <3>2. CASE d = c
      <4> DEFINE old == {u \in usages : u[1] = c}
                 new == {u \in usages' : u[1] = d}
      <4>1. new = old \cup {x} /\ x \notin old
        BY <1>1, <2>1, <3>2
      <4>2. old \subseteq usages
        OBVIOUS
      <4>3. IsFiniteSet(old)
        BY <4>2, FS_Subset DEF RegistrationInv
      <4>4. invite[c].used = Cardinality(old)
        BY <1>1 DEF RegistrationInv, InviteNotOverspent
      <4> HIDE DEF old, new
      <4>5. Cardinality(new) = Cardinality(old) + 1
        BY <4>1, <4>3, FS_AddElement
      <4>6. invite'[d].used = Cardinality(new)
        BY <2>4, <3>2, <4>4, <4>5
      <4>7. invite'[d].used <= MaxUses[d]
        BY <2>1, <2>2, <2>3, <2>4, <3>2
      <4> QED
        BY <3>1, <4>6, <4>7 DEF new
    <3>3. CASE d # c
      <4>1. {u \in usages' : u[1] = d} = {u \in usages : u[1] = d}
        BY <2>1, <3>3
      <4> QED
        BY <2>4, <3>1, <3>3, <4>1 DEF RegistrationInv, InviteNotOverspent
    <3> QED
      BY <3>2, <3>3
  <2> QED
    BY <1>5, <1>6, <2>6, <2>7, <2>8, <2>9 DEF RegistrationInv
<1>8. CASE ~Usable(c)
  <2>1. UNCHANGED <<invite, usages>>
    BY <1>8 DEF Consume
  <2>2. TypeOK'
    BY <1>2, <1>4, <2>1 DEF RegistrationInv, TypeOK
  <2>3. ConsumingInv'
    <3>1. \A v \in Workers : req'[v].pc = "consume" => req'[v] = req[v]
      BY <1>3, IdleMove
    <3> QED
      BY <1>2, <2>1, <3>1 DEF RegistrationInv, ConsumingInv
  <2>4. InviteNotOverspent'
    BY <1>2, <2>1 DEF RegistrationInv, InviteNotOverspent
  <2> QED
    BY <1>5, <1>6, <2>1, <2>2, <2>3, <2>4 DEF RegistrationInv
<1> QED
  BY <1>7, <1>8

\* Codes change state and the policy changes; nobody's use is touched.
LEMMA CodeStep ==
  ASSUME RegistrationInv, invite' \in [Codes -> Invite],
         \A c \in Codes : invite'[c].used = invite[c].used,
         policy' \in {"open", "invite", "closed"},
         UNCHANGED <<accounts, usages, req, cut, restarts>>
  PROVE  RegistrationInv'
BY DEF RegistrationInv, TypeOK, ConsumingInv, RoleInv, InviteNotOverspent, AdminsStay, Admins

LEMMA CodeStateSet ==
  ASSUME TypeOK, NEW c \in Codes, NEW st \in {"unborn", "valid", "expired", "deleted"},
         invite' = [invite EXCEPT ![c].state = st]
  PROVE  invite' \in [Codes -> Invite] /\ \A d \in Codes : invite'[d].used = invite[d].used
<1> DEFINE r == [invite[c] EXCEPT !.state = st]
<1>1. r \in Invite /\ r.used = invite[c].used
  BY DEF TypeOK, Invite
<1>2. invite' = [invite EXCEPT ![c] = r]
  OBVIOUS
<1> HIDE DEF r
<1> QED
  BY <1>1, <1>2 DEF TypeOK

LEMMA RestartStep ==
  ASSUME RegistrationInv, Restart
  PROVE  RegistrationInv'
<1>1. accounts' = accounts
  BY DEF Restart, Ensured, RegistrationInv, AdminsStay
<1>2. \A w \in Workers : req'[w] = Idle
  BY DEF Restart
<1>3. cut' \subseteq DOMAIN accounts
  BY DEF Restart, RegistrationInv, TypeOK, ConsumingInv
<1>4. TypeOK'
  BY <1>1, <1>3 DEF Restart, RegistrationInv, TypeOK
<1>5. ConsumingInv' /\ RoleInv'
  BY <1>2, IdleMove DEF ConsumingInv, RoleInv
<1>6. InviteNotOverspent' /\ AdminsStay'
  BY <1>1 DEF Restart, RegistrationInv, InviteNotOverspent, AdminsStay, Admins
<1> QED
  BY <1>4, <1>5, <1>6 DEF RegistrationInv, Restart

LEMMA InvNext == RegistrationInv /\ [Next]_vars => RegistrationInv'
<1> SUFFICES ASSUME RegistrationInv, [Next]_vars PROVE RegistrationInv'
  OBVIOUS
<1> USE DEF RegistrationInv
<1>1. ASSUME NEW w \in Workers,
             \/ \E a \in Applicants, c \in Codes \cup {NoCode} : Submit(w, a[1], a[2], c)
             \/ ValidateCode(w) \/ FindByUsername(w) \/ FindByEmail(w) \/ CountUsers(w)
             \/ \E i \in DOMAIN accounts : ReadForBan(w, i)
      PROVE  RegistrationInv'
  <2>1. PICK q : Moved(w, q)
    BY <1>1, Preparations
  <2>2. UNCHANGED <<invite, usages, cut, restarts>> /\ policy' = policy
    BY <1>1, Preparations
  <2> HIDE DEF RegistrationInv
  <2> QED
    BY <2>1, <2>2, MovedStep
<1>2. ASSUME NEW w \in Workers, InsertUser(w) PROVE RegistrationInv'
  <2> HIDE DEF RegistrationInv
  <2>1. CASE IndexRefuses(req[w])
    <3>1. Moved(w, Idle) /\ UNCHANGED <<invite, usages, cut, restarts>> /\ policy' = policy
      BY <1>2, <2>1, IdleMove DEF InsertUser, Moved, Finish
    <3> QED
      BY <3>1, MovedStep
  <2>2. CASE ~IndexRefuses(req[w])
    BY <1>2, <2>2, InsertStep
  <2> QED
    BY <2>1, <2>2
<1>3. ASSUME NEW w \in Workers, CommitBan(w) PROVE RegistrationInv'
  <2>1. req[w].id \in DOMAIN accounts \ Admins(accounts)
    BY <1>3 DEF CommitBan, RoleInv
  <2>2. /\ accounts' = [accounts EXCEPT ![req[w].id].status = "banned"]
        /\ req' = [req EXCEPT ![w] = Idle] /\ UNCHANGED <<invite, usages, policy, cut, restarts>>
    BY <1>3 DEF CommitBan, Finish
  <2>3. /\ req' \in [Workers -> {Idle} \cup Registering \cup Sanctioning]
        /\ \A v \in Workers : req'[v] = req[v] \/ req'[v] = Idle
    BY <2>2 DEF TypeOK
  <2> HIDE DEF RegistrationInv
  <2> QED
    BY <2>1, <2>2, <2>3, StatusStep
<1>4. CASE AdminStep
  <2>1. CASE \E i \in DOMAIN accounts : Unban(i)
    <3>1. PICK i \in DOMAIN accounts : Unban(i)
      BY <2>1
    <3>2. /\ req' \in [Workers -> {Idle} \cup Registering \cup Sanctioning]
          /\ \A v \in Workers : req'[v] = req[v] \/ req'[v] = Idle
      BY <3>1 DEF TypeOK, Unban
    <3> HIDE DEF RegistrationInv
    <3> QED
      BY <3>1, <3>2, StatusStep DEF Unban
  <2>2. CASE \E c \in Codes : Generate(c) \/ DeleteCode(c)
    <3>1. PICK c \in Codes : Generate(c) \/ DeleteCode(c)
      BY <2>2
    <3>2. invite' \in [Codes -> Invite] /\ \A d \in Codes : invite'[d].used = invite[d].used
      BY <3>1, CodeStateSet DEF Generate, DeleteCode
    <3>3. policy' \in {"open", "invite", "closed"} /\ UNCHANGED <<accounts, usages, req, cut, restarts>>
      BY <3>1 DEF Generate, DeleteCode, TypeOK
    <3> HIDE DEF RegistrationInv
    <3> QED
      BY <3>2, <3>3, CodeStep
  <2>3. CASE \E p \in {"open", "invite", "closed"} : SetPolicy(p)
    <3>1. /\ invite' \in [Codes -> Invite] /\ \A d \in Codes : invite'[d].used = invite[d].used
          /\ policy' \in {"open", "invite", "closed"}
          /\ UNCHANGED <<accounts, usages, req, cut, restarts>>
      BY <2>3 DEF SetPolicy, TypeOK
    <3> HIDE DEF RegistrationInv
    <3> QED
      BY <3>1, CodeStep
  <2> QED
    BY <1>4, <2>1, <2>2, <2>3 DEF AdminStep
<1>5. CASE \E c \in Codes : Expire(c)
  <2>1. PICK c \in Codes : Expire(c)
    BY <1>5
  <2>2. invite' \in [Codes -> Invite] /\ \A d \in Codes : invite'[d].used = invite[d].used
    BY <2>1, CodeStateSet DEF Expire
  <2>3. policy' \in {"open", "invite", "closed"} /\ UNCHANGED <<accounts, usages, req, cut, restarts>>
    BY <2>1 DEF Expire, TypeOK
  <2> HIDE DEF RegistrationInv
  <2> QED
    BY <2>2, <2>3, CodeStep
<1>6. CASE UNCHANGED vars
  BY <1>6 DEF vars, TypeOK, ConsumingInv, RoleInv, InviteNotOverspent, AdminsStay, Admins
<1> HIDE DEF RegistrationInv
<1> QED
  BY <1>1, <1>2, <1>3, <1>4, <1>5, <1>6, ConsumeStep, RestartStep DEF Next, RegisterStep

LEMMA InvHolds == LegacyInOrder /\ Spec => []RegistrationInv
BY InvInit, InvNext, PTL DEF Spec

-----------------------------------------------------------------------------
\* A code is redeemed at most max_uses times, and used_count is the number of
\* its redemptions, however registrations overlap: Consume locks the code's row.
THEOREM InviteNotOverspentSafe == LegacyInOrder /\ Spec => []InviteNotOverspent
<1>1. RegistrationInv => InviteNotOverspent
  BY DEF RegistrationInv
<1> QED
  BY <1>1, InvHolds, PTL

\* A site with accounts has an admin who is not banned, however registrations,
\* bans and restarts overlap.
THEOREM AdminsStaySafe == LegacyInOrder /\ Spec => []AdminsStay
<1>1. RegistrationInv => AdminsStay
  BY DEF RegistrationInv
<1> QED
  BY <1>1, InvHolds, PTL

-----------------------------------------------------------------------------
(* Accounts admitted with a code.                                          *)
(*                                                                         *)
(* While the code has uses left every account it admitted redeemed it or   *)
(* is about to; so at the last validation the accounts are fewer than its  *)
(* uses but for the requests about to redeem, and every request counts     *)
(* once: as one about to redeem, or as one that has passed validation.     *)

PassedBy(q, c) == q.pc \in {"name", "email", "count", "insert"} /\ q.code = c
PendingBy(q, c) == q.pc = "consume" /\ q.code = c

Passed(c) == {w \in Workers : PassedBy(req[w], c)}
Pending(c) == {w \in Workers : PendingBy(req[w], c)}

InUse(c) == invite[c].state \in {"unborn", "valid"} /\ invite[c].used < MaxUses[c]

Accounted(c) ==
  \A i \in Admitted(c) \ cut : <<c, i>> \in usages \/ \E w \in Pending(c) : req[w].id = i

WithinBound(c, n) ==
  Cardinality(Admitted(c) \ cut) + Cardinality(Passed(c)) <= MaxUses[c] - 1 + n

\* n requests at most are engaged with a code.
EngagedWithin(n) == \A c \in Codes : Cardinality(Passed(c)) + Cardinality(Pending(c)) <= n

AdmissionWithin(n) ==
  \A c \in Codes :
    /\ WithinBound(c, n)
    /\ InUse(c) => Accounted(c)
    /\ invite[c].state = "unborn" => Passed(c) = {} /\ Pending(c) = {}

LEMMA FinitelyMany ==
  ASSUME TypeOK, NEW c
  PROVE  /\ IsFiniteSet(Admitted(c) \ cut) /\ IsFiniteSet(Admitted(c))
         /\ IsFiniteSet(Passed(c)) /\ IsFiniteSet(Pending(c))
<1>1. IsFiniteSet(DOMAIN accounts)
  <2>1. DOMAIN accounts = 1..Len(accounts) /\ Len(accounts) \in Nat
    BY DEF TypeOK
  <2> QED
    BY <2>1, FS_Interval
<1>2. Admitted(c) \subseteq DOMAIN accounts /\ Admitted(c) \ cut \subseteq DOMAIN accounts
  BY DEF Admitted
<1>3. IsFiniteSet(Workers) /\ Passed(c) \subseteq Workers /\ Pending(c) \subseteq Workers
  BY RegistrationAssumption DEF Passed, Pending
<1> QED
  BY <1>1, <1>2, <1>3, FS_Subset

\* Fewer accounts and fewer requests keep the bound.
LEMMA Shrunk ==
  ASSUME TypeOK, NEW n \in Nat, NEW c \in Codes, WithinBound(c, n),
         (Admitted(c) \ cut)' \subseteq Admitted(c) \ cut, Passed(c)' \subseteq Passed(c)
  PROVE  WithinBound(c, n)'
<1> DEFINE a == Cardinality(Admitted(c) \ cut)
           b == Cardinality(Passed(c))
           a1 == Cardinality((Admitted(c) \ cut)')
           b1 == Cardinality(Passed(c)')
<1>1. a1 <= a /\ b1 <= b
  BY FinitelyMany, FS_Subset
<1>2. a \in Nat /\ b \in Nat /\ a1 \in Nat /\ b1 \in Nat
  BY FinitelyMany, FS_Subset, FS_CardinalityType
<1>3. MaxUses[c] \in Nat
  BY RegistrationAssumption
<1>4. a + b <= MaxUses[c] - 1 + n
  BY DEF WithinBound
<1> HIDE DEF a, b, a1, b1
<1>5. a1 + b1 <= MaxUses[c] - 1 + n
  BY <1>1, <1>2, <1>3, <1>4
<1> QED
  BY <1>5 DEF WithinBound, a1, b1

\* Steps that admit nobody, let nobody pass and start or end no redemption.
LEMMA QuietStep ==
  ASSUME TypeOK, NEW n \in Nat, AdmissionWithin(n),
         UNCHANGED <<usages, cut>>,
         DOMAIN accounts' = DOMAIN accounts,
         \A i \in DOMAIN accounts : accounts'[i].via = accounts[i].via,
         \A c \in Codes, w \in Workers :
           /\ PassedBy(req'[w], c) => PassedBy(req[w], c)
           /\ PendingBy(req'[w], c) <=> PendingBy(req[w], c)
           /\ PendingBy(req'[w], c) => req'[w].id = req[w].id,
         \A c \in Codes :
           /\ invite'[c].used = invite[c].used
           /\ invite'[c].state = "unborn" => invite[c].state = "unborn"
           /\ invite'[c].state = "valid" => invite[c].state \in {"unborn", "valid"}
  PROVE  AdmissionWithin(n)'
<1> SUFFICES ASSUME NEW c \in Codes
             PROVE  /\ WithinBound(c, n)'
                    /\ InUse(c)' => Accounted(c)'
                    /\ invite'[c].state = "unborn" => Passed(c)' = {} /\ Pending(c)' = {}
  BY DEF AdmissionWithin
<1>1. Admitted(c)' = Admitted(c)
  BY DEF Admitted
<1>2. Passed(c)' \subseteq Passed(c) /\ Pending(c)' = Pending(c)
  BY DEF Passed, Pending
<1>3. WithinBound(c, n)'
  BY <1>1, <1>2, Shrunk DEF AdmissionWithin
<1>4. InUse(c)' => Accounted(c)'
  <2> SUFFICES ASSUME InUse(c)', NEW i \in Admitted(c) \ cut
               PROVE  <<c, i>> \in usages \/ \E w \in Pending(c)' : req'[w].id = i
    BY <1>1 DEF Accounted
  <2>1. Accounted(c)
    BY DEF InUse, AdmissionWithin
  <2>2. CASE <<c, i>> \in usages
    BY <2>2
  <2>3. ASSUME NEW w \in Pending(c), req[w].id = i
        PROVE  \E v \in Pending(c)' : req'[v].id = i
    <3>1. w \in Pending(c)' /\ req'[w].id = i
      BY <1>2, <2>3 DEF Pending
    <3> QED
      BY <3>1
  <2> QED
    BY <2>1, <2>2, <2>3 DEF Accounted
<1> QED
  BY <1>2, <1>3, <1>4 DEF AdmissionWithin

\* Two parts of a set, each mapped one to one into a finite set.
LEMMA PartsCounted ==
  ASSUME NEW L, IsFiniteSet(L), NEW R, R \subseteq L, NEW U, IsFiniteSet(U), NEW P, IsFiniteSet(P),
         NEW f \in [R -> U], \A i, j \in R : f[i] = f[j] => i = j,
         NEW g \in [L \ R -> P], \A i, j \in L \ R : g[i] = g[j] => i = j
  PROVE  Cardinality(L) <= Cardinality(U) + Cardinality(P)
<1> DEFINE K == L \ R
<1>1. f \in Injection(R, U) /\ g \in Injection(K, P)
  BY DEF Injection, IsInjective
<1>2. Cardinality(R) <= Cardinality(U) /\ Cardinality(K) <= Cardinality(P)
  BY <1>1, FS_Injection
<1>3. Cardinality(K) = Cardinality(L) - Cardinality(L \cap R)
  BY FS_Difference
<1>4. L \cap R = R
  OBVIOUS
<1>5. /\ Cardinality(K) \in Nat /\ Cardinality(R) \in Nat /\ Cardinality(L) \in Nat
      /\ Cardinality(U) \in Nat /\ Cardinality(P) \in Nat
  BY FS_Subset, FS_CardinalityType
<1> HIDE DEF K
<1> QED
  BY <1>2, <1>3, <1>4, <1>5

\* The accounts of a code in use are its redemptions and those about to be.
LEMMA AdmittedCounted ==
  ASSUME RegistrationInv, NEW c \in Codes, Accounted(c)
  PROVE  Cardinality(Admitted(c) \ cut) <= invite[c].used + Cardinality(Pending(c))
<1> DEFINE L == Admitted(c) \ cut
           R == {i \in L : <<c, i>> \in usages}
           U == {u \in usages : u[1] = c}
           f == [i \in R |-> <<c, i>>]
           g == [i \in L \ R |-> CHOOSE w \in Pending(c) : req[w].id = i]
<1>1. IsFiniteSet(L) /\ IsFiniteSet(Pending(c))
  BY FinitelyMany DEF RegistrationInv
<1>2. IsFiniteSet(U) /\ Cardinality(U) = invite[c].used
  <2>1. U \subseteq usages /\ IsFiniteSet(usages)
    BY DEF RegistrationInv
  <2>2. IsFiniteSet(U)
    BY <2>1, FS_Subset
  <2> QED
    BY <2>2 DEF RegistrationInv, InviteNotOverspent
<1>3. f \in [R -> U] /\ \A i, j \in R : f[i] = f[j] => i = j
  OBVIOUS
<1>4. \A i \in L \ R : g[i] \in Pending(c) /\ req[g[i]].id = i
  BY DEF Accounted
<1>5. g \in [L \ R -> Pending(c)] /\ \A i, j \in L \ R : g[i] = g[j] => i = j
  BY <1>4
<1>6. R \subseteq L
  OBVIOUS
<1> HIDE DEF L, R, U, f, g
<1>7. Cardinality(L) <= Cardinality(U) + Cardinality(Pending(c))
  BY <1>1, <1>2, <1>3, <1>5, <1>6, PartsCounted
<1> QED
  BY <1>2, <1>7 DEF L

\* A request passes validation: there is a use left, and this request, those
\* that passed before and those about to redeem are different requests.
LEMMA PassStep ==
  ASSUME RegistrationInv, NEW n \in Nat, AdmissionWithin(n), EngagedWithin(n)', NEW w \in Workers, ValidateCode(w), Usable(req[w].code)
  PROVE  AdmissionWithin(n)'
<1> DEFINE q == [req[w] EXCEPT !.pc = "name"]
<1>1. /\ req' = [req EXCEPT ![w] = q] /\ req[w].pc = "validate" /\ req[w] \in Registering
      /\ UNCHANGED <<accounts, invite, usages, cut>>
  BY RequestKinds DEF ValidateCode, Goto, RegistrationInv, TypeOK
<1>2. q.pc = "name" /\ q.code = req[w].code
  BY <1>1 DEF Registering
<1> HIDE DEF q
<1>3. \A v \in Workers : req'[v] = IF v = w THEN q ELSE req[v]
  BY <1>1 DEF RegistrationInv, TypeOK
<1> SUFFICES ASSUME NEW c \in Codes
             PROVE  /\ WithinBound(c, n)'
                    /\ InUse(c)' => Accounted(c)'
                    /\ invite'[c].state = "unborn" => Passed(c)' = {} /\ Pending(c)' = {}
  BY DEF AdmissionWithin
<1>4. Admitted(c)' = Admitted(c) /\ cut' = cut /\ InUse(c)' = InUse(c)
  BY <1>1 DEF Admitted, InUse
<1>5. Pending(c)' = Pending(c) /\ \A v \in Pending(c) : req'[v] = req[v]
  BY <1>1, <1>2, <1>3 DEF Pending, PendingBy
<1>6. InUse(c)' => Accounted(c)'
  <2>1. Accounted(c)' <=> Accounted(c)
    BY <1>1, <1>4, <1>5 DEF Accounted
  <2> QED
    BY <1>4, <2>1 DEF AdmissionWithin
<1>7. CASE req[w].code = c
  <2>1. invite[c].state = "valid" /\ invite[c].used < MaxUses[c]
    BY <1>7 DEF Usable
  <2>2. Accounted(c)
    BY <2>1 DEF AdmissionWithin, InUse
  <2>3. Passed(c)' = Passed(c) \cup {w}
    BY <1>1, <1>2, <1>3, <1>7 DEF Passed, PassedBy
  <2> DEFINE P == Passed(c)'
             D == Pending(c)
             a == Cardinality(Admitted(c) \ cut)
  <2>4. IsFiniteSet(P) /\ IsFiniteSet(D)
    BY <2>3, FinitelyMany, FS_AddElement DEF RegistrationInv
  <2>5. a <= invite[c].used + Cardinality(D)
    BY <2>2, AdmittedCounted
  <2>6. Cardinality(P) + Cardinality(D) <= n
    BY <1>5 DEF EngagedWithin
  <2>7. a \in Nat /\ Cardinality(P) \in Nat /\ Cardinality(D) \in Nat
    BY <2>4, FinitelyMany, FS_CardinalityType DEF RegistrationInv
  <2>8. invite[c].used \in Nat /\ MaxUses[c] \in Nat
    BY RegistrationAssumption DEF RegistrationInv, TypeOK, Invite
  <2> HIDE DEF P, D, a
  <2>9. a + Cardinality(P) <= MaxUses[c] - 1 + n
    BY <2>1, <2>5, <2>6, <2>7, <2>8
  <2>10. WithinBound(c, n)'
    BY <1>4, <2>9 DEF WithinBound, P, a
  <2> QED
    BY <1>1, <1>6, <2>1, <2>10
<1>8. CASE req[w].code # c
  <2>1. Passed(c)' = Passed(c)
    BY <1>1, <1>2, <1>3, <1>8 DEF Passed, PassedBy
  <2>2. WithinBound(c, n)'
    BY <1>4, <2>1 DEF WithinBound, AdmissionWithin
  <2> QED
    BY <1>1, <1>5, <1>6, <2>1, <2>2 DEF AdmissionWithin
<1> QED
  BY <1>7, <1>8

\* The account is made: one request less that passed, one account more, and the
\* request is about to redeem its code.
LEMMA AdmitStep ==
  ASSUME RegistrationInv, NEW n \in Nat, AdmissionWithin(n), NEW w \in Workers, InsertUser(w), ~IndexRefuses(req[w])
  PROVE  AdmissionWithin(n)'
<1> DEFINE q == req[w]
           row == [name |-> q.name, email |-> q.email, role |-> q.role,
                   status |-> "active", via |-> q.code]
           new == Len(accounts) + 1
           next == IF q.code = NoCode THEN Idle ELSE [q EXCEPT !.pc = "consume", !.id = new]
<1>1. q \in Registering /\ q.pc = "insert"
  BY RequestKinds DEF RegistrationInv, TypeOK, InsertUser
<1>2. row \in Account /\ row.via = q.code
  BY <1>1 DEF Registering, Account
<1>3. /\ accounts \in Seq(Account) /\ accounts' = Append(accounts, row) /\ new \in Nat
      /\ req' = [req EXCEPT ![w] = next] /\ UNCHANGED <<invite, usages, cut>>
      /\ cut \subseteq DOMAIN accounts
  BY DEF InsertUser, RegistrationInv, TypeOK
<1>4. /\ DOMAIN accounts' = DOMAIN accounts \cup {new} /\ new \notin DOMAIN accounts
      /\ \A i \in DOMAIN accounts : accounts'[i] = accounts[i]
      /\ accounts'[new] = row
  BY <1>2, <1>3, AppendedRow
<1>5. /\ q.code = NoCode => next = Idle
      /\ q.code # NoCode => next.pc = "consume" /\ next.code = q.code /\ next.id = new
  <2> DEFINE u == [q EXCEPT !.pc = "consume", !.id = new]
  <2>1. u.pc = "consume" /\ u.id = new /\ u.code = q.code
    <3> HIDE DEF q, new
    <3> QED
      BY <1>1, <1>3, RequestGetsId, Zenon
  <2> HIDE DEF u
  <2>2. next = IF q.code = NoCode THEN Idle ELSE u
    BY DEF u
  <2> HIDE DEF next
  <2> QED
    BY <2>1, <2>2
<1> HIDE DEF next, row, new
<1>6. \A v \in Workers : req'[v] = IF v = w THEN next ELSE req[v]
  BY <1>3 DEF RegistrationInv, TypeOK
<1> SUFFICES ASSUME NEW c \in Codes
             PROVE  /\ WithinBound(c, n)'
                    /\ InUse(c)' => Accounted(c)'
                    /\ invite'[c].state = "unborn" => Passed(c)' = {} /\ Pending(c)' = {}
  BY DEF AdmissionWithin
<1>7. InUse(c)' = InUse(c) /\ c # NoCode
  BY <1>3, RegistrationAssumption DEF InUse
<1>8. CASE q.code = c
  <2>1. next.pc = "consume" /\ next.code = c /\ next.id = new
    BY <1>5, <1>7, <1>8
  <2>2. Admitted(c)' = Admitted(c) \cup {new} /\ new \notin Admitted(c) /\ new \notin cut
    BY <1>2, <1>3, <1>4, <1>8 DEF Admitted
  <2>3. w \in Passed(c) /\ Passed(c)' = Passed(c) \ {w}
    BY <1>1, <1>6, <1>8, <2>1 DEF Passed, PassedBy
  <2>4. Pending(c)' = Pending(c) \cup {w} /\ w \notin Pending(c)
    BY <1>1, <1>6, <2>1 DEF Pending, PendingBy
  <2>5. invite[c].state # "unborn"
    BY <2>3 DEF AdmissionWithin
  <2>6. WithinBound(c, n)'
    <3> DEFINE L == Admitted(c) \ cut
               L1 == (Admitted(c) \ cut)'
    <3>1. L1 = L \cup {new} /\ new \notin L
      BY <1>3, <2>2
    <3>2. IsFiniteSet(L) /\ IsFiniteSet(Passed(c))
      BY FinitelyMany DEF RegistrationInv
    <3> HIDE DEF L, L1
    <3>3. Cardinality(L1) = Cardinality(L) + 1
      BY <3>1, <3>2, FS_AddElement
    <3>4. Cardinality(Passed(c)') = Cardinality(Passed(c)) - 1
      BY <2>3, <3>2, FS_RemoveElement
    <3>5. Cardinality(L) \in Nat /\ Cardinality(Passed(c)) \in Nat
      BY <3>2, FS_CardinalityType
    <3>6. Cardinality(L) + Cardinality(Passed(c)) <= MaxUses[c] - 1 + n
      BY DEF WithinBound, AdmissionWithin, L
    <3>7. Cardinality(L1) + Cardinality(Passed(c)') <= MaxUses[c] - 1 + n
      <4>1. Cardinality(L1) + Cardinality(Passed(c)') = Cardinality(L) + Cardinality(Passed(c))
        BY <3>3, <3>4, <3>5
      <4> QED
        BY <3>6, <4>1
    <3> QED
      BY <3>7 DEF WithinBound, L1
  <2>7. ASSUME InUse(c)', NEW i \in (Admitted(c) \ cut)'
        PROVE  <<c, i>> \in usages' \/ \E v \in Pending(c)' : req'[v].id = i
    <3>1. CASE i = new
      BY <1>6, <2>1, <2>4, <3>1
    <3>2. CASE i # new
      <4>1. i \in Admitted(c) \ cut
        BY <1>3, <2>2, <2>7, <3>2
      <4>2. <<c, i>> \in usages \/ \E v \in Pending(c) : req[v].id = i
        BY <1>7, <2>7, <4>1 DEF AdmissionWithin, Accounted
      <4>3. \A v \in Pending(c) : v \in Pending(c)' /\ req'[v] = req[v]
        BY <1>6, <2>4 DEF Pending
      <4> QED
        BY <1>3, <4>2, <4>3
    <3> QED
      BY <3>1, <3>2
  <2> QED
    BY <1>3, <2>5, <2>6, <2>7 DEF Accounted
<1>9. CASE q.code # c
  <2>1. Admitted(c)' = Admitted(c)
    BY <1>2, <1>4, <1>9 DEF Admitted
  <2>2. Passed(c)' = Passed(c)
    BY <1>1, <1>5, <1>6, <1>9, IdleMove DEF Passed, PassedBy
  <2>3. Pending(c)' = Pending(c) /\ \A v \in Pending(c) : req'[v] = req[v]
    BY <1>1, <1>5, <1>6, <1>9, IdleMove DEF Pending, PendingBy
  <2>4. WithinBound(c, n)'
    BY <1>3, <2>1, <2>2 DEF WithinBound, AdmissionWithin
  <2>5. Accounted(c)' <=> Accounted(c)
    BY <1>3, <2>1, <2>3 DEF Accounted
  <2> QED
    BY <1>3, <1>7, <2>2, <2>3, <2>4, <2>5 DEF AdmissionWithin
<1> QED
  BY <1>8, <1>9

\* A redemption, or none if the code was used up or deleted meanwhile: then it
\* is not in use any more.
LEMMA RedeemStep ==
  ASSUME RegistrationInv, NEW n \in Nat, AdmissionWithin(n), NEW w \in Workers, Consume(w)
  PROVE  AdmissionWithin(n)'
<1> DEFINE d == req[w].code
           x == <<d, req[w].id>>
<1>1. /\ req[w].pc = "consume" /\ d \in Codes
      /\ req' = [req EXCEPT ![w] = Idle] /\ UNCHANGED <<accounts, cut>>
  BY DEF Consume, Finish, RegistrationInv, ConsumingInv
<1>2. \A v \in Workers : req'[v] = IF v = w THEN Idle ELSE req[v]
  BY <1>1 DEF RegistrationInv, TypeOK
<1>3. \/ Usable(d) /\ invite' = [invite EXCEPT ![d].used = @ + 1] /\ usages' = usages \cup {x}
      \/ ~Usable(d) /\ invite' = invite /\ usages' = usages
  BY DEF Consume
<1>4. /\ \A c \in Codes : invite'[c].state = invite[c].state /\ invite[c].used <= invite'[c].used
      /\ \A c \in Codes : invite[c].used \in Nat /\ invite'[c].used \in Nat /\ MaxUses[c] \in Nat
  <2>1. invite \in [Codes -> Invite] /\ MaxUses \in [Codes -> Nat]
    BY RegistrationAssumption DEF RegistrationInv, TypeOK
  <2> HIDE DEF d
  <2> QED
    BY <1>1, <1>3, <2>1 DEF Invite
<1> SUFFICES ASSUME NEW c \in Codes
             PROVE  /\ WithinBound(c, n)'
                    /\ InUse(c)' => Accounted(c)'
                    /\ invite'[c].state = "unborn" => Passed(c)' = {} /\ Pending(c)' = {}
  BY DEF AdmissionWithin
<1>5. Admitted(c)' = Admitted(c) /\ cut' = cut
  BY <1>1 DEF Admitted
<1>6. Passed(c)' = Passed(c)
  BY <1>1, <1>2, IdleMove DEF Passed, PassedBy
<1>7. Pending(c)' = Pending(c) \ {w} /\ \A v \in Pending(c) \ {w} : req'[v] = req[v]
  BY <1>1, <1>2, IdleMove DEF Pending, PendingBy
<1>8. WithinBound(c, n)'
  BY <1>5, <1>6 DEF WithinBound, AdmissionWithin
<1>9. ASSUME InUse(c)', NEW i \in Admitted(c) \ cut
      PROVE  <<c, i>> \in usages' \/ \E v \in Pending(c)' : req'[v].id = i
  <2>1. InUse(c)
    BY <1>4, <1>9 DEF InUse
  <2>2. <<c, i>> \in usages \/ \E v \in Pending(c) : req[v].id = i
    BY <1>9, <2>1 DEF AdmissionWithin, Accounted
  <2>3. usages \subseteq usages'
    BY <1>3
  <2>4. CASE w \in Pending(c) /\ req[w].id = i
    <3>1. d = c /\ x = <<c, i>>
      BY <2>4 DEF Pending, PendingBy
    <3>2. invite[c].state # "unborn"
      BY <2>4 DEF AdmissionWithin
    <3>3. Usable(d)
      BY <2>1, <3>1, <3>2 DEF InUse, Usable
    <3> QED
      BY <1>3, <3>1, <3>3
  <2>5. CASE ~(w \in Pending(c) /\ req[w].id = i)
    BY <1>7, <2>2, <2>3, <2>5
  <2> QED
    BY <2>4, <2>5
<1> QED
  BY <1>4, <1>5, <1>6, <1>7, <1>8, <1>9 DEF Accounted, AdmissionWithin

\* A restart drops the requests; accounts whose redemption it cut off are not
\* counted.
LEMMA CutStep ==
  ASSUME RegistrationInv, NEW n \in Nat, AdmissionWithin(n), Restart
  PROVE  AdmissionWithin(n)'
<1>1. accounts' = accounts
  BY DEF Restart, Ensured, RegistrationInv, AdminsStay
<1>2. /\ \A w \in Workers : req'[w] = Idle
      /\ cut' = cut \cup {req[w].id : w \in {v \in Workers : req[v].pc = "consume"}}
      /\ UNCHANGED <<invite, usages>>
  BY DEF Restart
<1> SUFFICES ASSUME NEW c \in Codes
             PROVE  /\ WithinBound(c, n)'
                    /\ InUse(c)' => Accounted(c)'
                    /\ invite'[c].state = "unborn" => Passed(c)' = {} /\ Pending(c)' = {}
  BY DEF AdmissionWithin
<1>3. Passed(c)' = {} /\ Pending(c)' = {}
  BY <1>2, IdleMove DEF Passed, PassedBy, Pending, PendingBy
<1>4. Admitted(c)' = Admitted(c) /\ (Admitted(c) \ cut)' \subseteq Admitted(c) \ cut
  BY <1>1, <1>2 DEF Admitted
<1>5. WithinBound(c, n)'
  BY <1>3, <1>4, Shrunk DEF AdmissionWithin, RegistrationInv
<1>6. ASSUME InUse(c)', NEW i \in (Admitted(c) \ cut)' PROVE <<c, i>> \in usages'
  <2>1. InUse(c) /\ i \in Admitted(c) \ cut
    BY <1>2, <1>4, <1>6 DEF InUse
  <2>2. <<c, i>> \in usages \/ \E v \in Pending(c) : req[v].id = i
    BY <2>1 DEF AdmissionWithin, Accounted
  <2>3. \A v \in Pending(c) : req[v].id \in cut'
    BY <1>2 DEF Pending, PendingBy
  <2> QED
    BY <1>2, <1>6, <2>2, <2>3
<1> QED
  BY <1>3, <1>5, <1>6 DEF Accounted

\* One request moves without passing validation, or ends before its account.
LEMMA QuietMove ==
  ASSUME TypeOK, NEW n \in Nat, AdmissionWithin(n), NEW w \in Workers, NEW q, req' = [req EXCEPT ![w] = q],
         q.pc # "consume", req[w].pc # "consume",
         \A c \in Codes : PassedBy(q, c) => PassedBy(req[w], c),
         UNCHANGED <<invite, usages, cut>>, DOMAIN accounts' = DOMAIN accounts,
         \A i \in DOMAIN accounts : accounts'[i].via = accounts[i].via
  PROVE  AdmissionWithin(n)'
<1>1. \A v \in Workers : req'[v] = IF v = w THEN q ELSE req[v]
  BY DEF TypeOK
<1>2. ASSUME NEW c \in Codes, NEW v \in Workers
      PROVE  /\ PassedBy(req'[v], c) => PassedBy(req[v], c)
             /\ PendingBy(req'[v], c) <=> PendingBy(req[v], c)
             /\ PendingBy(req'[v], c) => req'[v].id = req[v].id
  BY <1>1 DEF PendingBy
<1> QED
  BY <1>2, QuietStep

LEMMA PreparedQuietly ==
  ASSUME RegistrationInv, NEW n \in Nat, AdmissionWithin(n), NEW w \in Workers,
         \/ \E a \in Applicants, c \in Codes \cup {NoCode} : Submit(w, a[1], a[2], c)
         \/ ValidateCode(w) /\ ~Usable(req[w].code)
         \/ FindByUsername(w) \/ FindByEmail(w) \/ CountUsers(w)
         \/ InsertUser(w) /\ IndexRefuses(req[w])
         \/ \E i \in DOMAIN accounts : ReadForBan(w, i)
  PROVE  AdmissionWithin(n)'
<1>t. TypeOK
  BY DEF RegistrationInv
<1>1. CASE \E a \in Applicants, c \in Codes \cup {NoCode} : Submit(w, a[1], a[2], c)
  <2>1. PICK a \in Applicants, c \in Codes \cup {NoCode} : Submit(w, a[1], a[2], c)
    BY <1>1
  <2> DEFINE q == [pc |-> IF c = NoCode THEN "name" ELSE "validate", name |-> a[1],
                   email |-> a[2], code |-> c, role |-> "user", id |-> 0]
  <2>2. req' = [req EXCEPT ![w] = q] /\ UNCHANGED <<accounts, invite, usages, cut>> /\ req[w] = Idle
    BY <2>1 DEF Submit
  <2>3. q.pc \in {"name", "validate"} /\ q.code = c /\ (c # NoCode => q.pc = "validate")
    OBVIOUS
  <2> HIDE DEF q
  <2>4. \A d \in Codes : ~PassedBy(q, d)
    BY <2>3, RegistrationAssumption DEF PassedBy
  <2> QED
    BY <1>t, <2>2, <2>3, <2>4, IdleMove, QuietMove
<1>2. ASSUME req' = [req EXCEPT ![w] = Idle] /\ UNCHANGED <<accounts, invite, usages, cut>>,
             req[w].pc # "consume"
      PROVE  AdmissionWithin(n)'
  <2>1. \A c : ~PassedBy(Idle, c)
    BY IdleMove DEF PassedBy, Idle
  <2> QED
    BY <1>t, <1>2, <2>1, IdleMove, QuietMove
<1>3. ASSUME NEW pc \in {"email", "count"}, req' = [req EXCEPT ![w] = [req[w] EXCEPT !.pc = pc]],
             req[w].pc \in {"name", "email"}, UNCHANGED <<accounts, invite, usages, cut>>
      PROVE  AdmissionWithin(n)'
  <2> DEFINE q == [req[w] EXCEPT !.pc = pc]
  <2>1. req[w] \in Registering
    BY <1>t, <1>3, RequestKinds DEF TypeOK
  <2>2. q.pc = pc /\ q.code = req[w].code
    BY <2>1 DEF Registering
  <2>3. req' = [req EXCEPT ![w] = q]
    BY <1>3
  <2> HIDE DEF q
  <2>4. \A c \in Codes : PassedBy(q, c) => PassedBy(req[w], c)
    BY <1>3, <2>2 DEF PassedBy
  <2> QED
    BY <1>t, <1>3, <2>2, <2>3, <2>4, QuietMove
<1>4. CASE ValidateCode(w) /\ ~Usable(req[w].code)
  BY <1>2, <1>4 DEF ValidateCode, Finish
<1>5. CASE FindByUsername(w)
  BY <1>2, <1>3, <1>5 DEF FindByUsername, Finish, Goto
<1>6. CASE FindByEmail(w)
  BY <1>2, <1>3, <1>6 DEF FindByEmail, Finish, Goto
<1>7. CASE CountUsers(w)
  <2> DEFINE ro == IF accounts = <<>> THEN "admin" ELSE "user"
             q == [req[w] EXCEPT !.pc = "insert", !.role = ro]
  <2>1. req[w] \in Registering /\ req[w].pc = "count"
    BY <1>7, <1>t, RequestKinds DEF TypeOK, CountUsers
  <2>2. req' = [req EXCEPT ![w] = q] /\ UNCHANGED <<accounts, invite, usages, cut>>
    BY <1>7, <1>t DEF CountUsers, TypeOK
  <2>3. q.pc = "insert" /\ q.code = req[w].code
    <3> HIDE DEF ro
    <3> QED
      BY <2>1 DEF Registering
  <2> HIDE DEF q
  <2>4. \A c \in Codes : PassedBy(q, c) => PassedBy(req[w], c)
    BY <2>1, <2>3 DEF PassedBy
  <2> QED
    BY <1>t, <2>1, <2>2, <2>3, <2>4, QuietMove
<1>8. CASE InsertUser(w) /\ IndexRefuses(req[w])
  BY <1>2, <1>8 DEF InsertUser, Finish
<1>9. CASE \E i \in DOMAIN accounts : ReadForBan(w, i)
  <2>1. PICK i \in DOMAIN accounts : ReadForBan(w, i)
    BY <1>9
  <2> DEFINE q == [pc |-> "ban", id |-> i]
  <2>2. req' = [req EXCEPT ![w] = q] /\ req[w] = Idle /\ UNCHANGED <<accounts, invite, usages, cut>>
    BY <2>1 DEF ReadForBan
  <2>3. q.pc = "ban" /\ \A c \in Codes : ~PassedBy(q, c)
    BY DEF PassedBy
  <2> HIDE DEF q
  <2> QED
    BY <1>t, <2>2, <2>3, IdleMove, QuietMove
<1> QED
  BY <1>1, <1>4, <1>5, <1>6, <1>7, <1>8, <1>9

LEMMA AdmissionInit ==
  ASSUME Init, NEW n \in Nat, n > 0
  PROVE  AdmissionWithin(n)
<1> SUFFICES ASSUME NEW c \in Codes
             PROVE  /\ WithinBound(c, n)
                    /\ InUse(c) => Accounted(c)
                    /\ invite[c].state = "unborn" => Passed(c) = {} /\ Pending(c) = {}
  BY DEF AdmissionWithin
<1>1. PICK rows \in Legacy : accounts = Ensured(rows)
  BY DEF Init
<1>2. rows \in Seq(Account) /\ \A i \in DOMAIN rows : rows[i].via = NoCode
  BY RegistrationAssumption
<1>3. \A i \in DOMAIN accounts : accounts[i].via = NoCode
  <2>1. CASE accounts = rows
    BY <1>2, <2>1
  <2>2. CASE accounts # rows
    <3> DEFINE u == [rows[1] EXCEPT !.role = "admin"]
    <3>1. rows # <<>> /\ accounts = [rows EXCEPT ![1] = u]
      BY <1>1, <2>2 DEF Ensured
    <3>2. 1 \in DOMAIN rows
      BY <1>2, <3>1
    <3>3. u.via = rows[1].via
      BY <1>2, <3>2 DEF Account
    <3> HIDE DEF u
    <3> QED
      BY <1>2, <3>1, <3>2, <3>3
  <2> QED
    BY <2>1, <2>2
<1>4. Admitted(c) \ cut = {}
  BY <1>3, RegistrationAssumption DEF Admitted
<1>5. Passed(c) = {} /\ Pending(c) = {}
  BY IdleMove DEF Init, Passed, PassedBy, Pending, PendingBy, Idle
<1>6. WithinBound(c, n)
  <2>1. Cardinality(Admitted(c) \ cut) = 0 /\ Cardinality(Passed(c)) = 0
    BY <1>4, <1>5, FS_EmptySet
  <2>2. MaxUses[c] \in Nat \ {0}
    BY RegistrationAssumption
  <2> QED
    BY <2>1, <2>2 DEF WithinBound
<1> QED
  BY <1>4, <1>5, <1>6 DEF Accounted

LEMMA AdmissionNext ==
  ASSUME RegistrationInv, NEW n \in Nat, AdmissionWithin(n), EngagedWithin(n)', [Next]_vars
  PROVE  AdmissionWithin(n)'
<1>t. TypeOK
  BY DEF RegistrationInv
<1>1. ASSUME NEW w \in Workers,
             \/ \E a \in Applicants, c \in Codes \cup {NoCode} : Submit(w, a[1], a[2], c)
             \/ ValidateCode(w) \/ FindByUsername(w) \/ FindByEmail(w) \/ CountUsers(w)
             \/ InsertUser(w)
             \/ \E i \in DOMAIN accounts : ReadForBan(w, i)
      PROVE  AdmissionWithin(n)'
  BY <1>1, PreparedQuietly, PassStep, AdmitStep
<1>2. ASSUME NEW w \in Workers, CommitBan(w) PROVE AdmissionWithin(n)'
  <2>1. req[w].id \in DOMAIN accounts /\ accounts \in Seq(Account)
    BY <1>2 DEF CommitBan, RegistrationInv, RoleInv, TypeOK
  <2>2. /\ accounts' = [accounts EXCEPT ![req[w].id].status = "banned"]
        /\ req' = [req EXCEPT ![w] = Idle] /\ UNCHANGED <<invite, usages, cut>> /\ req[w].pc = "ban"
    BY <1>2 DEF CommitBan, Finish
  <2>3. DOMAIN accounts' = DOMAIN accounts /\ \A i \in DOMAIN accounts : accounts'[i].via = accounts[i].via
    BY <2>1, <2>2, StatusChanged DEF StatusSet
  <2>4. \A c : ~PassedBy(Idle, c)
    BY IdleMove DEF PassedBy, Idle
  <2> QED
    BY <1>t, <2>2, <2>3, <2>4, IdleMove, QuietMove
<1>3. ASSUME UNCHANGED <<usages, cut, req>>,
             DOMAIN accounts' = DOMAIN accounts,
             \A i \in DOMAIN accounts : accounts'[i].via = accounts[i].via,
             \A c \in Codes :
               /\ invite'[c].used = invite[c].used
               /\ invite'[c].state = "unborn" => invite[c].state = "unborn"
               /\ invite'[c].state = "valid" => invite[c].state \in {"unborn", "valid"}
      PROVE  AdmissionWithin(n)'
  BY <1>t, <1>3, QuietStep
<1>4. ASSUME NEW c \in Codes, NEW st \in {"valid", "deleted", "expired"},
             invite' = [invite EXCEPT ![c].state = st], st = "valid" => invite[c].state = "unborn",
             UNCHANGED <<accounts, usages, req, cut>>
      PROVE  AdmissionWithin(n)'
  <2>1. \A d \in Codes : /\ invite'[d].used = invite[d].used
                         /\ invite'[d].state = IF d = c THEN st ELSE invite[d].state
    BY <1>t, <1>4 DEF TypeOK, Invite
  <2> QED
    BY <1>3, <1>4, <2>1
<1>5. CASE AdminStep
  <2>1. ASSUME NEW i \in DOMAIN accounts, Unban(i) PROVE AdmissionWithin(n)'
    <3>1. StatusSet(accounts, i, "active", accounts')
      BY <1>t, <2>1, StatusChanged DEF Unban, TypeOK
    <3> QED
      BY <1>3, <2>1, <3>1 DEF Unban, StatusSet
  <2>2. ASSUME NEW c \in Codes, Generate(c) \/ DeleteCode(c) PROVE AdmissionWithin(n)'
    BY <1>4, <2>2 DEF Generate, DeleteCode
  <2>3. ASSUME NEW p, SetPolicy(p) PROVE AdmissionWithin(n)'
    BY <1>3, <2>3 DEF SetPolicy
  <2> QED
    BY <1>5, <2>1, <2>2, <2>3 DEF AdminStep
<1>6. ASSUME NEW c \in Codes, Expire(c) PROVE AdmissionWithin(n)'
  BY <1>4, <1>6 DEF Expire
<1>7. CASE UNCHANGED vars
  BY <1>3, <1>7 DEF vars
<1> QED
  BY <1>1, <1>2, <1>5, <1>6, <1>7, RedeemStep, CutStep DEF Next, RegisterStep

LEMMA EveryoneEngaged ==
  ASSUME TypeOK
  PROVE  EngagedWithin(Cardinality(Workers))
<1> SUFFICES ASSUME NEW c \in Codes
             PROVE  Cardinality(Passed(c)) + Cardinality(Pending(c)) <= Cardinality(Workers)
  BY DEF EngagedWithin
<1> DEFINE P == Passed(c)
           D == Pending(c)
<1>1. P \cap D = {} /\ P \cup D \subseteq Workers
  BY DEF Passed, PassedBy, Pending, PendingBy
<1>2. IsFiniteSet(P) /\ IsFiniteSet(D) /\ IsFiniteSet(Workers)
  BY FinitelyMany, RegistrationAssumption
<1> HIDE DEF P, D
<1>3. Cardinality(P \cup D) = Cardinality(P) + Cardinality(D) - Cardinality(P \cap D)
  BY <1>2, FS_Union
<1>4. Cardinality(P \cap D) = 0
  BY <1>1, FS_EmptySet
<1>5. Cardinality(P \cup D) <= Cardinality(Workers)
  BY <1>1, <1>2, FS_Subset
<1>6. Cardinality(P) \in Nat /\ Cardinality(D) \in Nat
  BY <1>2, FS_CardinalityType
<1>7. Cardinality(P) + Cardinality(D) <= Cardinality(Workers)
  BY <1>3, <1>4, <1>5, <1>6
<1> QED
  BY <1>7 DEF P, D

AdmissionInv == AdmissionWithin(Cardinality(Workers))

LEMMA SomeWorkers == Cardinality(Workers) \in Nat /\ Cardinality(Workers) > 0
BY FS_CardinalityType, FS_EmptySet, RegistrationAssumption

LEMMA AdmissionStep == RegistrationInv /\ AdmissionInv /\ [Next]_vars => AdmissionInv'
<1> SUFFICES ASSUME RegistrationInv, AdmissionInv, [Next]_vars PROVE AdmissionInv'
  OBVIOUS
<1> DEFINE n == Cardinality(Workers)
<1>1. TypeOK'
  BY InvNext DEF RegistrationInv
<1>2. n \in Nat /\ EngagedWithin(n)' /\ AdmissionWithin(n)
  BY <1>1, SomeWorkers, EveryoneEngaged, PTL DEF AdmissionInv
<1> HIDE DEF n
<1>3. AdmissionWithin(n)'
  BY <1>2, AdmissionNext
<1> QED
  BY <1>3 DEF n, AdmissionInv

\* A code is redeemed within its uses, and admits at most one account over them
\* for each other registration under way, for any number of each.
THEOREM CodesKeptSafe == LegacyInOrder /\ Spec => []CodesKept
<1>1. RegistrationInv /\ AdmissionInv => CodesKept
  <2> SUFFICES ASSUME RegistrationInv, AdmissionInv, NEW c \in Codes
               PROVE  Cardinality(Admitted(c) \ cut) <= MaxUses[c] - 1 + Cardinality(Workers)
    BY DEF CodesKept, AdmissionsBounded, RegistrationInv
  <2> DEFINE a == Cardinality(Admitted(c) \ cut)
             n == MaxUses[c] - 1 + Cardinality(Workers)
  <2>1. a + Cardinality(Passed(c)) <= n
    BY DEF AdmissionInv, AdmissionWithin, WithinBound
  <2>2. a \in Nat /\ Cardinality(Passed(c)) \in Nat
    BY FinitelyMany, FS_CardinalityType DEF RegistrationInv
  <2>3. n \in Int
    BY FS_CardinalityType, RegistrationAssumption
  <2> HIDE DEF a, n
  <2>4. a <= n
    BY <2>1, <2>2, <2>3
  <2> QED
    BY <2>4 DEF a, n
<1>2. Init => AdmissionInv
  BY AdmissionInit, SomeWorkers DEF AdmissionInv
<1> QED
  BY <1>1, <1>2, AdmissionStep, InvHolds, PTL DEF Spec

-----------------------------------------------------------------------------
(* Requests that come one by one.                                          *)

\* What the proof asks of the rows an older version left: once an admin is
\* ensured, there is one at most.
LegacyHasOneAdmin ==
  \A rows \in Legacy : \A i, j \in Admins(Ensured(rows)) : i = j

AloneInv == \A v, w \in AtWork : v = w

\* Nobody registers between the COUNT of a request that found no account and its
\* INSERT.
StillFirst ==
  \A w \in Workers : req[w].pc = "insert" /\ req[w].role = "admin" => accounts = <<>>

ApartInv ==
  /\ overlap \in BOOLEAN
  /\ ~overlap => AloneInv /\ StillFirst /\ OneBootstrapAdmin /\ AdmissionWithin(1)

\* What a step does to the requests: it moves one of them, to the INSERT after
\* the COUNT only, or ends them all.
Step(w) ==
  /\ \A v \in Workers : v # w => req'[v] = req[v]
  /\ req'[w].pc = "insert" => CountUsers(w)

LEMMA RequestsMove ==
  ASSUME TypeOK, [Next]_vars
  PROVE  UNCHANGED req \/ (\E w \in Workers : Step(w)) \/ (\A v \in Workers : req'[v] = Idle)
<1>1. ASSUME NEW w \in Workers, NEW q, req' = [req EXCEPT ![w] = q], q.pc # "insert"
      PROVE  Step(w)
  BY <1>1 DEF Step, TypeOK
<1>2. ASSUME NEW w \in Workers, NEW a, NEW c, Submit(w, a[1], a[2], c) PROVE Step(w)
  <2> DEFINE q == [pc |-> IF c = NoCode THEN "name" ELSE "validate", name |-> a[1],
                   email |-> a[2], code |-> c, role |-> "user", id |-> 0]
  <2>1. req' = [req EXCEPT ![w] = q] /\ q.pc # "insert"
    BY <1>2 DEF Submit
  <2> HIDE DEF q
  <2> QED
    BY <1>1, <2>1
<1>3. ASSUME NEW w \in Workers, NEW pc \in {"name", "email", "count"}, req[w] \in Registering,
             req' = [req EXCEPT ![w].pc = pc] \/ req' = [req EXCEPT ![w] = Idle]
      PROVE  Step(w)
  <2>1. CASE req' = [req EXCEPT ![w] = Idle]
    BY <1>1, <2>1, IdleMove
  <2>2. CASE req' = [req EXCEPT ![w].pc = pc]
    <3> DEFINE q == [req[w] EXCEPT !.pc = pc]
    <3>1. q.pc = pc /\ req' = [req EXCEPT ![w] = q]
      BY <1>3, <2>2, RequestMoves
    <3> HIDE DEF q
    <3> QED
      BY <1>1, <3>1
  <2> QED
    BY <1>3, <2>1, <2>2
<1>4. ASSUME NEW w \in Workers, ValidateCode(w) \/ FindByUsername(w) \/ FindByEmail(w) PROVE Step(w)
  <2>1. req[w] \in Registering
    BY <1>4, RequestKinds DEF TypeOK, ValidateCode, FindByUsername, FindByEmail
  <2>2. \/ req' = [req EXCEPT ![w] = Idle]
        \/ \E pc \in {"name", "email", "count"} : req' = [req EXCEPT ![w].pc = pc]
    BY <1>4 DEF ValidateCode, FindByUsername, FindByEmail, Goto, Finish
  <2> QED
    BY <1>3, <2>1, <2>2
<1>5. ASSUME NEW w \in Workers, CountUsers(w) PROVE Step(w)
  BY <1>5 DEF Step, CountUsers, TypeOK
<1>6. ASSUME NEW w \in Workers, NEW i, ReadForBan(w, i) PROVE Step(w)
  <2> DEFINE q == [pc |-> "ban", id |-> i]
  <2>1. req' = [req EXCEPT ![w] = q] /\ q.pc # "insert"
    BY <1>6 DEF ReadForBan
  <2> HIDE DEF q
  <2> QED
    BY <1>1, <2>1
<1>7. ASSUME NEW w \in Workers, InsertUser(w) PROVE Step(w)
  <2> DEFINE u == [req[w] EXCEPT !.pc = "consume", !.id = Len(accounts) + 1]
  <2>1. req[w] \in Registering /\ Len(accounts) + 1 \in Nat
    BY <1>7, RequestKinds DEF TypeOK, InsertUser
  <2>2. req' = [req EXCEPT ![w] = Idle] \/ req' = [req EXCEPT ![w] = u]
    BY <1>7 DEF InsertUser, Finish
  <2>3. u.pc = "consume"
    BY <2>1 DEF Registering
  <2> HIDE DEF u
  <2> QED
    BY <1>1, <2>2, <2>3, IdleMove
<1>8. ASSUME NEW w \in Workers, Consume(w) \/ CommitBan(w) PROVE Step(w)
  BY <1>1, <1>8, IdleMove DEF Consume, CommitBan, Finish
<1>9. ASSUME AdminStep \/ (\E c \in Codes : Expire(c)) \/ UNCHANGED vars PROVE UNCHANGED req
  BY <1>9 DEF AdminStep, Generate, DeleteCode, SetPolicy, Unban, Expire, vars
<1>10. ASSUME Restart PROVE \A v \in Workers : req'[v] = Idle
  BY <1>10 DEF Restart
<1> QED
  BY <1>2, <1>4, <1>5, <1>6, <1>7, <1>8, <1>9, <1>10 DEF Next, RegisterStep

LEMMA AloneStep ==
  ASSUME TypeOK, [Next]_vars, AloneInv, ~BeginsBesideOthers
  PROVE  AloneInv'
<1>1. CASE AtWork' \subseteq AtWork
  BY <1>1 DEF AloneInv
<1>2. CASE AtWork = {}
  <2>1. CASE UNCHANGED req
    BY <1>2, <2>1 DEF AloneInv, AtWork
  <2>2. ASSUME NEW w \in Workers, Step(w) PROVE AloneInv'
    BY <1>2, <2>2 DEF AloneInv, AtWork, Step
  <2>3. CASE \A v \in Workers : req'[v] = Idle
    BY <2>3 DEF AloneInv, AtWork
  <2> QED
    BY <2>1, <2>2, <2>3, RequestsMove
<1> QED
  BY <1>1, <1>2 DEF BeginsBesideOthers

\* What a step does to the admins: a registration appends a row, every other
\* step leaves the roles.
LEMMA AdminsMove ==
  ASSUME RegistrationInv, [Next]_vars
  PROVE  \/ Admins(accounts)' = Admins(accounts) /\ (accounts = <<>> => accounts' = <<>>)
         \/ \E w \in Workers : InsertUser(w) /\ ~IndexRefuses(req[w])
<1>1. ASSUME NEW i \in DOMAIN accounts, NEW st \in {"active", "banned"},
             accounts' = [accounts EXCEPT ![i].status = st]
      PROVE  Admins(accounts)' = Admins(accounts) /\ (accounts = <<>> => accounts' = <<>>)
  <2>1. accounts \in Seq(Account) /\ accounts # <<>>
    BY DEF RegistrationInv, TypeOK
  <2>2. StatusSet(accounts, i, st, accounts')
    BY <1>1, <2>1, StatusChanged
  <2> QED
    BY <2>1, <2>2 DEF StatusSet, Admins
<1>2. ASSUME accounts' = accounts
      PROVE  Admins(accounts)' = Admins(accounts) /\ (accounts = <<>> => accounts' = <<>>)
  BY <1>2 DEF Admins
<1>3. ASSUME NEW w \in Workers,
             \/ \E a \in Applicants, c \in Codes \cup {NoCode} : Submit(w, a[1], a[2], c)
             \/ ValidateCode(w) \/ FindByUsername(w) \/ FindByEmail(w) \/ CountUsers(w)
             \/ \E i \in DOMAIN accounts : ReadForBan(w, i)
      PROVE  accounts' = accounts
  BY <1>3, Preparations DEF Moved, RegistrationInv
<1>4. ASSUME NEW w \in Workers, InsertUser(w), IndexRefuses(req[w]) PROVE accounts' = accounts
  BY <1>4 DEF InsertUser
<1>5. ASSUME NEW w \in Workers, Consume(w) PROVE accounts' = accounts
  BY <1>5 DEF Consume
<1>6. ASSUME NEW w \in Workers, CommitBan(w)
      PROVE  \E i \in DOMAIN accounts : accounts' = [accounts EXCEPT ![i].status = "banned"]
  BY <1>6 DEF CommitBan, RegistrationInv, RoleInv
<1>7. ASSUME AdminStep
      PROVE  accounts' = accounts
               \/ \E i \in DOMAIN accounts : accounts' = [accounts EXCEPT ![i].status = "active"]
  BY <1>7 DEF AdminStep, Generate, DeleteCode, SetPolicy, Unban
<1>8. ASSUME NEW c \in Codes, Expire(c) PROVE accounts' = accounts
  BY <1>8 DEF Expire
<1>9. ASSUME Restart PROVE accounts' = accounts
  BY <1>9 DEF Restart, Ensured, RegistrationInv, AdminsStay
<1>10. ASSUME UNCHANGED vars PROVE accounts' = accounts
  BY <1>10 DEF vars
<1> QED
  BY <1>1, <1>2, <1>3, <1>4, <1>5, <1>6, <1>7, <1>8, <1>9, <1>10 DEF Next, RegisterStep

\* The admin a registration adds is the first account.
LEMMA SoleAdminStep ==
  ASSUME RegistrationInv, [Next]_vars, StillFirst, OneBootstrapAdmin
  PROVE  OneBootstrapAdmin'
<1>1. CASE Admins(accounts)' = Admins(accounts)
  BY <1>1 DEF OneBootstrapAdmin
<1>2. ASSUME NEW w \in Workers, InsertUser(w), ~IndexRefuses(req[w])
      PROVE  OneBootstrapAdmin'
  <2> DEFINE q == req[w]
             row == [name |-> q.name, email |-> q.email, role |-> q.role,
                     status |-> "active", via |-> q.code]
             new == Len(accounts) + 1
  <2>1. q \in Registering /\ q.pc = "insert"
    BY <1>2, RequestKinds DEF RegistrationInv, TypeOK, InsertUser
  <2>2. row \in Account /\ row.role = q.role
    BY <2>1 DEF Registering, Account
  <2>3. accounts \in Seq(Account) /\ accounts' = Append(accounts, row)
    BY <1>2 DEF InsertUser, RegistrationInv, TypeOK
  <2>4. /\ DOMAIN accounts' = DOMAIN accounts \cup {new} /\ new \notin DOMAIN accounts
        /\ \A i \in DOMAIN accounts : accounts'[i] = accounts[i]
        /\ accounts'[new] = row
    BY <2>2, <2>3, AppendedRow
  <2> HIDE DEF row, new
  <2>5. CASE q.role = "admin"
    <3>1. accounts = <<>>
      BY <2>1, <2>5 DEF StillFirst
    <3>2. DOMAIN accounts' = {new}
      BY <2>4, <3>1
    <3> QED
      BY <3>2 DEF OneBootstrapAdmin, Admins
  <2>6. CASE q.role # "admin"
    <3>1. Admins(accounts)' = Admins(accounts)
      BY <2>2, <2>4, <2>6 DEF Admins
    <3> QED
      BY <3>1 DEF OneBootstrapAdmin
  <2> QED
    BY <2>5, <2>6
<1> QED
  BY <1>1, <1>2, AdminsMove

LEMMA StillFirstStep ==
  ASSUME RegistrationInv, [Next]_vars, AloneInv, StillFirst
  PROVE  StillFirst'
<1> SUFFICES ASSUME NEW v \in Workers, req'[v].pc = "insert", req'[v].role = "admin"
             PROVE  accounts' = <<>>
  BY DEF StillFirst
<1>1. TypeOK
  BY DEF RegistrationInv
<1>2. CASE CountUsers(v)
  <2>1. req[v] \in Registering
    BY <1>1, <1>2, RequestKinds DEF TypeOK, CountUsers
  <2>2. req'[v].role = IF accounts = <<>> THEN "admin" ELSE "user"
    BY <1>1, <1>2, <2>1 DEF CountUsers, TypeOK, Registering
  <2> QED
    BY <1>2, <2>2 DEF CountUsers
<1>3. CASE req'[v] = req[v]
  <2>1. accounts = <<>> /\ v \in AtWork
    BY <1>3 DEF StillFirst, AtWork, Idle
  <2>2. ASSUME NEW w \in Workers, InsertUser(w), ~IndexRefuses(req[w]) PROVE FALSE
    <3>1. w \in AtWork
      BY <2>2 DEF InsertUser, AtWork, Idle
    <3>2. w = v
      BY <2>1, <3>1 DEF AloneInv
    <3>3. req[w] \in Registering
      BY <1>1, <2>2, RequestKinds DEF TypeOK, InsertUser
    <3> DEFINE u == [req[w] EXCEPT !.pc = "consume", !.id = Len(accounts) + 1]
    <3>4. u.pc = "consume"
      BY <3>3 DEF Registering
    <3>5. req' = [req EXCEPT ![w] = Idle] \/ req' = [req EXCEPT ![w] = u]
      BY <2>2 DEF InsertUser
    <3> HIDE DEF u
    <3>6. req'[w].pc # "insert"
      BY <1>1, <3>4, <3>5, IdleMove DEF TypeOK
    <3> QED
      BY <3>2, <3>6
  <2> QED
    BY <2>1, <2>2, AdminsMove
<1>4. \/ req'[v] = req[v] \/ CountUsers(v) \/ req'[v] = Idle
  BY <1>1, RequestsMove DEF Step
<1> QED
  BY <1>2, <1>3, <1>4, IdleMove

LEMMA AloneEngaged ==
  ASSUME TypeOK, AloneInv
  PROVE  EngagedWithin(1)
<1> SUFFICES ASSUME NEW c \in Codes PROVE Cardinality(Passed(c)) + Cardinality(Pending(c)) <= 1
  BY DEF EngagedWithin
<1>1. Passed(c) \subseteq AtWork /\ Pending(c) \subseteq AtWork /\ Passed(c) \cap Pending(c) = {}
  BY DEF Passed, PassedBy, Pending, PendingBy, AtWork, Idle
<1>2. Cardinality({}) = 0 /\ \A w \in AtWork : Cardinality({w}) = 1
  BY FS_EmptySet, FS_Singleton
<1>3. ASSUME NEW S, S \subseteq AtWork PROVE S = {} \/ \E w \in AtWork : S = {w}
  BY <1>3 DEF AloneInv
<1>4. CASE Passed(c) = {}
  <2>1. Pending(c) = {} \/ \E w \in AtWork : Pending(c) = {w}
    BY <1>1, <1>3
  <2>2. Cardinality(Passed(c)) = 0 /\ Cardinality(Pending(c)) \in {0, 1}
    BY <1>2, <1>4, <2>1
  <2> QED
    BY <2>2
<1>5. ASSUME NEW w \in Passed(c) PROVE Cardinality(Passed(c)) + Cardinality(Pending(c)) <= 1
  <2>1. w \in AtWork /\ Passed(c) = {w} /\ Pending(c) = {}
    BY <1>1, <1>5 DEF AloneInv
  <2>2. Cardinality(Passed(c)) = 1 /\ Cardinality(Pending(c)) = 0
    BY <1>2, <2>1
  <2> QED
    BY <2>2
<1> QED
  BY <1>4, <1>5

LEMMA ApartStep ==
  ASSUME RegistrationInv, ApartInv, [ApartNext]_apartVars
  PROVE  ApartInv'
<1>1. [Next]_vars /\ RegistrationInv'
  BY InvNext DEF ApartNext, apartVars
<1>2. overlap' \in BOOLEAN
  BY Zenon DEF ApartInv, ApartNext, apartVars
<1>3. ASSUME ~overlap, AloneInv' PROVE StillFirst' /\ OneBootstrapAdmin' /\ AdmissionWithin(1)'
  <2>1. AloneInv /\ StillFirst /\ OneBootstrapAdmin /\ AdmissionWithin(1)
    BY <1>3 DEF ApartInv
  <2>2. EngagedWithin(1)'
    BY <1>1, <1>3, AloneEngaged, PTL DEF RegistrationInv
  <2> QED
    BY <1>1, <2>1, <2>2, StillFirstStep, SoleAdminStep, AdmissionNext
<1>4. ASSUME ~overlap' PROVE ~overlap /\ AloneInv'
  <2>1. CASE UNCHANGED apartVars
    <3>1. ~overlap /\ AloneInv
      BY <1>4, <2>1 DEF apartVars, ApartInv
    <3> QED
      BY <2>1, <3>1 DEF apartVars, vars, AloneInv, AtWork
  <2>2. CASE ApartNext
    <3>1. ~overlap /\ ~BeginsBesideOthers
      BY <1>4, <2>2, Zenon DEF ApartNext, ApartInv
    <3> QED
      BY <1>1, <3>1, AloneStep DEF ApartInv, RegistrationInv
  <2> QED
    BY <2>1, <2>2
<1> QED
  BY <1>2, <1>3, <1>4, Zenon DEF ApartInv

\* Of a site with one admin at most: as long as no two requests overlapped there
\* is one admin at most, and no code admits more accounts than it has uses,
\* those left aside whose redemption a restart cut off.
THEOREM ExactApartSafe ==
  LegacyInOrder /\ LegacyHasOneAdmin /\ ApartSpec => []ExactApart
<1>1. LegacyInOrder /\ LegacyHasOneAdmin /\ ApartInit => RegistrationInv /\ ApartInv
  <2> SUFFICES ASSUME LegacyInOrder, LegacyHasOneAdmin, ApartInit
               PROVE  RegistrationInv /\ ApartInv
    OBVIOUS
  <2>1. RegistrationInv /\ AdmissionWithin(1)
    BY InvInit, AdmissionInit DEF ApartInit
  <2>2. AloneInv /\ StillFirst
    BY DEF ApartInit, Init, AloneInv, AtWork, StillFirst, Idle
  <2>3. OneBootstrapAdmin
    BY DEF ApartInit, Init, LegacyHasOneAdmin, OneBootstrapAdmin
  <2> QED
    BY <2>1, <2>2, <2>3 DEF ApartInv, ApartInit
<1>2. RegistrationInv /\ ApartInv /\ [ApartNext]_apartVars => RegistrationInv' /\ ApartInv'
  BY InvNext, ApartStep DEF ApartNext, apartVars
<1>3. RegistrationInv /\ ApartInv => ExactApart
  <2> SUFFICES ASSUME RegistrationInv, AdmissionWithin(1), NEW c \in Codes
               PROVE  Cardinality(Admitted(c) \ cut) <= MaxUses[c]
    BY DEF ApartInv, ExactApart
  <2> DEFINE a == Cardinality(Admitted(c) \ cut)
  <2>1. a + Cardinality(Passed(c)) <= MaxUses[c] - 1 + 1
    BY DEF AdmissionWithin, WithinBound
  <2>2. a \in Nat /\ Cardinality(Passed(c)) \in Nat /\ MaxUses[c] \in Nat
    BY FinitelyMany, FS_CardinalityType, RegistrationAssumption DEF RegistrationInv
  <2> HIDE DEF a
  <2>3. a <= MaxUses[c]
    BY <2>1, <2>2
  <2> QED
    BY <2>3 DEF a
<1> QED
  BY <1>1, <1>2, <1>3, PTL DEF ApartSpec
=============================================================================
