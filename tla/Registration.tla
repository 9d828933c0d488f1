---------------------------- MODULE Registration ----------------------------
(***************************************************************************)
(* Registration of accounts with invite codes: Register, Ban, Unban        *)
(* (internal/user/service.go), CreateWithFirstAdminBootstrap and           *)
(* EnsureAdminExists (internal/user/repository.go), Generate, Validate,    *)
(* Consume and Delete of invite codes (internal/invite).                   *)
(*                                                                         *)
(* Each query is a step; a transaction is a step for each of its reads and *)
(* one for its writes (see Thread), and one step in all where it locks its *)
(* row first, as Consume does.                                             *)
(***************************************************************************)
EXTENDS Integers, Sequences, FiniteSets

CONSTANTS
  Names, Emails,
  Applicants,     \* what people register with: pairs of name and address
  Legacy,         \* contents of table users before this version starts
  AllowedEmails,  \* those in the domains the site admits
  Codes,          \* invite codes
  MaxUses,        \* how often each may be used
  Workers,        \* slots for concurrent requests
  MaxAccounts,    \* bound: accounts
  MaxBanned,      \* bound: accounts banned at a time
  MaxCrashes      \* bound: restarts of the server

NoCode == "none"

\* "via" is a history variable: the code the account was admitted with.
Account == [name: Names, email: Emails, role: {"user", "admin"},
            status: {"active", "banned"}, via: Codes \cup {NoCode}]

\* Rows an older version may have left: no two with one name or address.
Distinct(rows) ==
  \A i, j \in DOMAIN rows :
    rows[i].name = rows[j].name \/ rows[i].email = rows[j].email => i = j

ASSUME RegistrationAssumption ==
  /\ Applicants \subseteq Names \X Emails
  /\ AllowedEmails \subseteq Emails
  /\ Codes \cap {NoCode} = {}
  /\ MaxUses \in [Codes -> Nat \ {0}]
  /\ Legacy \subseteq {rows \in Seq(Account) : Distinct(rows)}
  /\ \A rows \in Legacy : \A i \in DOMAIN rows : rows[i].via = NoCode
  /\ IsFiniteSet(Workers) /\ Workers # {}

VARIABLES
  accounts,  \* table users, by id
  invite,    \* table invite_codes: state and used_count of each code
  usages,    \* table invite_code_usages: code and account
  policy,    \* site settings: registration mode and invite_required
  req,       \* where each request is
  cut,       \* history: accounts whose code a restart kept from being consumed
  restarts

vars == <<accounts, invite, usages, policy, req, cut, restarts>>

Invite == [state: {"unborn", "valid", "expired", "deleted"}, used: Nat]

Idle == [pc |-> "idle"]

Registering == [pc: {"validate", "name", "email", "count", "insert", "consume"},
                name: Names, email: Emails, code: Codes \cup {NoCode},
                role: {"user", "admin"}, id: Nat]

Sanctioning == [pc: {"ban"}, id: Nat]

TypeOK ==
  /\ accounts \in Seq(Account)
  /\ Distinct(accounts)
  /\ invite \in [Codes -> Invite]
  /\ usages \subseteq Codes \X Nat
  /\ policy \in {"open", "invite", "closed"}
  /\ req \in [Workers -> {Idle} \cup Registering \cup Sanctioning]
  /\ cut \subseteq DOMAIN accounts
  /\ restarts \in Nat

Admins(rows) == {i \in DOMAIN rows : rows[i].role = "admin"}

\* EnsureAdminExists, before the server serves requests: without any admin the
\* earliest account is promoted.
Ensured(rows) ==
  IF Admins(rows) # {} \/ rows = <<>> THEN rows
  ELSE [rows EXCEPT ![1].role = "admin"]

Init ==
  /\ accounts \in {Ensured(rows) : rows \in Legacy}
  /\ invite = [c \in Codes |-> [state |-> "unborn", used |-> 0]]
  /\ usages = {}
  /\ policy = "open"
  /\ req = [w \in Workers |-> Idle]
  /\ cut = {}
  /\ restarts = 0

-----------------------------------------------------------------------------
Goto(w, pc) == req' = [req EXCEPT ![w].pc = pc]
Finish(w) == req' = [req EXCEPT ![w] = Idle]

\* Slip: used_count is not compared with max_uses.
UsableWhileValid(c) == invite[c].state = "valid"

Usable(c) == invite[c].state = "valid" /\ invite[c].used < MaxUses[c]

\* The checks of the site settings.  Both mode "invite" and "open" with
\* invite_required ask for a code; an optional code is used all the same.
Submit(w, n, e, c) ==
  /\ req[w] = Idle
  /\ policy # "closed"
  /\ policy = "invite" => c # NoCode
  /\ e \in AllowedEmails
  /\ req' = [req EXCEPT ![w] =
       [pc |-> IF c = NoCode THEN "name" ELSE "validate", name |-> n, email |-> e,
        code |-> c, role |-> "user", id |-> 0]]
  /\ UNCHANGED <<accounts, invite, usages, policy, cut, restarts>>

\* Validate, long before the account exists.
ValidateCode(w) ==
  /\ req[w].pc = "validate"
  /\ IF Usable(req[w].code) THEN Goto(w, "name") ELSE Finish(w)
  /\ UNCHANGED <<accounts, invite, usages, policy, cut, restarts>>

NameTaken(n) == \E i \in DOMAIN accounts : accounts[i].name = n
EmailTaken(e) == \E i \in DOMAIN accounts : accounts[i].email = e

FindByUsername(w) ==
  /\ req[w].pc = "name"
  /\ IF NameTaken(req[w].name) THEN Finish(w) ELSE Goto(w, "email")
  /\ UNCHANGED <<accounts, invite, usages, policy, cut, restarts>>

FindByEmail(w) ==
  /\ req[w].pc = "email"
  /\ IF EmailTaken(req[w].email) THEN Finish(w) ELSE Goto(w, "count")
  /\ UNCHANGED <<accounts, invite, usages, policy, cut, restarts>>

\* SELECT COUNT of CreateWithFirstAdminBootstrap.
CountUsers(w) ==
  /\ req[w].pc = "count"
  /\ req' = [req EXCEPT ![w].pc = "insert",
                        ![w].role = IF accounts = <<>> THEN "admin" ELSE "user"]
  /\ UNCHANGED <<accounts, invite, usages, policy, cut, restarts>>

\* The unique indexes fail the INSERT: no account, the request ends.
IndexRefuses(q) == NameTaken(q.name) \/ EmailTaken(q.email)

InsertUser(w) ==
  LET q == req[w]
  IN /\ q.pc = "insert"
     /\ Len(accounts) < MaxAccounts
     /\ IF IndexRefuses(q)
          THEN Finish(w) /\ UNCHANGED accounts
          ELSE /\ accounts' = Append(accounts,
                    [name |-> q.name, email |-> q.email, role |-> q.role,
                     status |-> "active", via |-> q.code])
               /\ req' = [req EXCEPT ![w] =
                    IF q.code = NoCode THEN Idle
                    ELSE [q EXCEPT !.pc = "consume", !.id = Len(accounts) + 1]]
     /\ UNCHANGED <<invite, usages, policy, cut, restarts>>

\* Slip: used_count is not compared again under the lock.
ConsumeUnchecked(w) ==
  LET q == req[w]
  IN /\ q.pc = "consume"
     /\ IF invite[q.code].state = "valid"
          THEN /\ invite' = [invite EXCEPT ![q.code].used = @ + 1]
               /\ usages' = usages \cup {<<q.code, q.id>>}
          ELSE UNCHANGED <<invite, usages>>
     /\ Finish(w)
     /\ UNCHANGED <<accounts, policy, cut, restarts>>

\* Consume locks the code's row and checks it again.  Its result is ignored:
\* the account stays.
Consume(w) ==
  LET q == req[w]
  IN /\ q.pc = "consume"
     /\ IF Usable(q.code)
          THEN /\ invite' = [invite EXCEPT ![q.code].used = @ + 1]
               /\ usages' = usages \cup {<<q.code, q.id>>}
          ELSE UNCHANGED <<invite, usages>>
     /\ Finish(w)
     /\ UNCHANGED <<accounts, policy, cut, restarts>>

-----------------------------------------------------------------------------
(* Administrators.  Ban and Unban read the account, then update it.        *)

BannedSoon ==
  {i \in DOMAIN accounts :
     accounts[i].status = "banned" \/ \E w \in Workers : req[w] = [pc |-> "ban", id |-> i]}

\* Slip: the role is not looked at.
BanAnyone(w, i) ==
  /\ req[w] = Idle
  /\ i \in DOMAIN accounts
  /\ Cardinality(BannedSoon) < MaxBanned
  /\ req' = [req EXCEPT ![w] = [pc |-> "ban", id |-> i]]
  /\ UNCHANGED <<accounts, invite, usages, policy, cut, restarts>>

\* Ban refuses to ban admins.
ReadForBan(w, i) ==
  /\ req[w] = Idle
  /\ i \in DOMAIN accounts
  /\ accounts[i].role # "admin"
  /\ Cardinality(BannedSoon) < MaxBanned
  /\ req' = [req EXCEPT ![w] = [pc |-> "ban", id |-> i]]
  /\ UNCHANGED <<accounts, invite, usages, policy, cut, restarts>>

CommitBan(w) ==
  /\ req[w].pc = "ban"
  /\ accounts' = [accounts EXCEPT ![req[w].id].status = "banned"]
  /\ Finish(w)
  /\ UNCHANGED <<invite, usages, policy, cut, restarts>>

Unban(i) ==
  /\ accounts[i].status = "banned"
  /\ accounts' = [accounts EXCEPT ![i].status = "active"]
  /\ UNCHANGED <<invite, usages, policy, req, cut, restarts>>

\* Generate draws a fresh random code.
Generate(c) ==
  /\ invite[c].state = "unborn"
  /\ invite' = [invite EXCEPT ![c].state = "valid"]
  /\ UNCHANGED <<accounts, usages, policy, req, cut, restarts>>

DeleteCode(c) ==
  /\ invite[c].state \in {"valid", "expired"}
  /\ invite' = [invite EXCEPT ![c].state = "deleted"]
  /\ UNCHANGED <<accounts, usages, policy, req, cut, restarts>>

SetPolicy(p) ==
  /\ policy' = p /\ p # policy
  /\ UNCHANGED <<accounts, invite, usages, req, cut, restarts>>

\* expires_at passes.
Expire(c) ==
  /\ invite[c].state = "valid"
  /\ invite' = [invite EXCEPT ![c].state = "expired"]
  /\ UNCHANGED <<accounts, usages, policy, req, cut, restarts>>

\* The server stops, loses the requests and starts again.
Restart ==
  /\ restarts < MaxCrashes
  /\ restarts' = restarts + 1
  /\ cut' = cut \cup {req[w].id : w \in {v \in Workers : req[v].pc = "consume"}}
  /\ req' = [w \in Workers |-> Idle]
  /\ accounts' = Ensured(accounts)
  /\ UNCHANGED <<invite, usages, policy>>

RegisterStep(w) ==
  \/ ValidateCode(w) \/ FindByUsername(w) \/ FindByEmail(w) \/ CountUsers(w)
  \/ InsertUser(w) \/ Consume(w)

AdminStep ==
  \/ \E c \in Codes : Generate(c) \/ DeleteCode(c)
  \/ \E p \in {"open", "invite", "closed"} : SetPolicy(p)
  \/ \E i \in DOMAIN accounts : Unban(i)

Next ==
  \/ \E w \in Workers :
       \/ \E a \in Applicants, c \in Codes \cup {NoCode} : Submit(w, a[1], a[2], c)
       \/ RegisterStep(w)
       \/ \E i \in DOMAIN accounts : ReadForBan(w, i)
       \/ CommitBan(w)
  \/ Admins(accounts) # {} /\ AdminStep
  \/ \E c \in Codes : Expire(c)
  \/ Restart

Spec == Init /\ [][Next]_vars

-----------------------------------------------------------------------------
\* Every redemption of a code is recorded once, and there are never more than
\* max_uses of them, however registrations, deletions of the code and restarts
\* overlap (Consume's lock on the row).
InviteNotOverspent ==
  \A c \in Codes :
    /\ invite[c].used <= MaxUses[c]
    /\ invite[c].used = Cardinality({u \in usages : u[1] = c})
    /\ \A u \in usages : u[1] = c => u[2] \in DOMAIN accounts /\ accounts[u[2]].via = c

Admitted(c) == {i \in DOMAIN accounts : accounts[i].via = c}

\* A code admits at most one account over its uses for each other registration
\* that overlaps the last one, and those whose redemption a restart cut off:
\* Register validates the code before, and consumes it after, the account.
AdmissionsBounded ==
  \A c \in Codes :
    Cardinality(Admitted(c) \ cut) <= MaxUses[c] - 1 + Cardinality(Workers)

\* A code is redeemed and admits accounts within its bounds, however its
\* registrations overlap.
CodesKept == InviteNotOverspent /\ AdmissionsBounded

\* As soon as there are accounts one is an admin, and no admin is ever banned:
\* the site cannot lose its last administrator (CreateWithFirstAdminBootstrap,
\* EnsureAdminExists and Ban together).
AdminsStay ==
  /\ accounts # <<>> => Admins(accounts) # {}
  /\ \A i \in Admins(accounts) : accounts[i].status = "active"

\* "Runs in a transaction to avoid races where two concurrent registrations both
\* see count == 0": registration makes one admin only.
OneBootstrapAdmin ==
  \A i, j \in Admins(accounts) : i = j
=============================================================================
