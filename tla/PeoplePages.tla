----------------------------- MODULE PeoplePages -----------------------------
(***************************************************************************)
(* The console's pages about accounts: users, bots, invitation codes and   *)
(* the search for the accounts behind anonymous identifiers.  Each page    *)
(* gives its filters, the rows a list request returns, the handlers its    *)
(* buttons start in view v, and what its requests do to the server's rows. *)
(***************************************************************************)
EXTENDS Screen

-----------------------------------------------------------------------------
(* Users: ban, unban, adjust the credit score.                             *)

\* What the list of users tells of one.
UserRows == [admin : BOOLEAN, banned : BOOLEAN, score : Nat]

UsersInit == [i \in Ids |-> [admin |-> i = 2, banned |-> FALSE, score |-> 1]]

UsersFilters == {"all", "active", "banned"}

UsersListed(d, f) == Where(d, {i \in Present(d) : f = "all" \/ (f = "banned") = d[i].banned})

\* No reload: the new score in the answer patches the row.
AdjustCreditScore(u) == Handler(u, <<Ask("score", u, -1)>>)

PatchScore(rows, u, r) ==
    IF rows[u] = None THEN rows ELSE [rows EXCEPT ![u].score = r.score]

\* Slip: the table is not listed again.
ToggleBanOnly(u, r) == Handler(u, <<Ask(IF r.banned THEN "unban" ELSE "ban", u, None)>>)

ToggleBan(u, r) ==
    Handler(u, <<Ask(IF r.banned THEN "unban" ELSE "ban", u, None), Reload>>)

\* The row's buttons: both off while it is busy, no ban for an administrator.
UsersHandlers(v) ==
    LET idle == Present(v.rows) \ {v.busy}
    IN  {AdjustCreditScore(u) : u \in idle}
        \cup {ToggleBan(u, v.rows[u]) : u \in {w \in idle : ~v.rows[w].admin}}

UsersRefuse(q, d) == q.op = "ban" /\ d[q.id].admin

UsersEffect(q, d) ==
    CASE q.op = "ban" -> [d EXCEPT ![q.id].banned = TRUE]
      [] q.op = "unban" -> [d EXCEPT ![q.id].banned = FALSE]
      [] q.op = "score" -> [d EXCEPT ![q.id].score = IF @ + q.val < 0 THEN 0 ELSE @ + q.val]

-----------------------------------------------------------------------------
(* Bots: review, suspension, the two marks.                                *)

BotsInit == [i \in Ids |-> [status |-> IF i = 1 THEN "pending" ELSE "active",
                            featured |-> FALSE, moderator |-> FALSE]]

BotsFilters == {"pending", "active", "suspended", "all"}

BotsListed(d, f) == Where(d, {i \in Present(d) : f \in {"all", d[i].status}})

RunOnBot(b, op) == Handler(b, <<Ask(op, b, None), Reload>>)

BotsHandlers(v) ==
    LET Ops(r) ==
            CASE r.status = "pending" -> {"approve", "reject"}
              [] r.status = "active" -> {IF r.featured THEN "unfeature" ELSE "feature",
                                         IF r.moderator THEN "unmoderator" ELSE "moderator",
                                         "suspend"}
              [] r.status = "suspended" -> {"approve"}
              [] OTHER -> {}
    IN  UNION {{RunOnBot(b, op) : op \in Ops(v.rows[b])} : b \in Present(v.rows) \ {v.busy}}

BotsRefuse(q, d) ==
    \/ q.op = "approve" /\ d[q.id].status \notin {"pending", "suspended"}
    \/ q.op = "reject" /\ d[q.id].status # "pending"
    \/ q.op \in {"suspend", "moderator"} /\ d[q.id].status # "active"

BotsEffect(q, d) ==
    CASE q.op = "approve" -> [d EXCEPT ![q.id].status = "active"]
      [] q.op = "reject" -> [d EXCEPT ![q.id].status = "rejected"]
      [] q.op = "suspend" -> [d EXCEPT ![q.id].status = "suspended"]
      [] q.op \in {"feature", "unfeature"} -> [d EXCEPT ![q.id].featured = q.op = "feature"]
      [] q.op \in {"moderator", "unmoderator"} -> [d EXCEPT ![q.id].moderator = q.op = "moderator"]

-----------------------------------------------------------------------------
(* Invitation codes.  The draft is the identifier of the expanded row.     *)

InvitesInit == [i \in Ids |-> IF i = 1 THEN [used |-> 0] ELSE None]

InvitesListed(d, f) == d

Generate == Handler(WholePage, <<Ask("create", None, None), Reload>>)
RemoveInvite(i) == Handler(WholePage, <<Ask("delete", i, None), Reload>>)
ToggleUsages(i) == Handler(None, <<Ask("look", i, None)>>)

InvitesHandlers(v) ==
    (IF v.busy = None
     THEN {Generate} \cup {RemoveInvite(i) : i \in Present(v.rows)} ELSE {})
    \cup {ToggleUsages(i) : i \in Present(v.rows) \ {v.draft}}

\* The expanded row folds up again without a request.
InvitesDrafts(v) == IF v.draft = None THEN {} ELSE {None}

InvitesRefuse(q, d) == q.op = "create" /\ Unused(d) = {}

InvitesEffect(q, d) ==
    CASE q.op = "create" -> [d EXCEPT ![NewId(d)] = [used |-> 0]]
      [] q.op = "delete" -> [d EXCEPT ![q.id] = None]
      [] q.op = "look" -> d

-----------------------------------------------------------------------------
(* The anonymous audit.  The search button is off while a search runs, but *)
(* Enter in the field starts another; a failed search empties the table.   *)

AnonInit == [i \in Ids |-> [name |-> IF i = 1 THEN "alice" ELSE "bob"]]

AnonQueries == {"", "alice"}

AnonListed(d, f) == Where(d, {i \in Present(d) : f \in {"", d[i].name}})

AnonSearchFailed(rows) == NoRows
=============================================================================
