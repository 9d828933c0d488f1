---------------------------- MODULE JusticePages ----------------------------
(***************************************************************************)
(* The console's pages fed by the event stream: reports, the moderation    *)
(* log and the dashboard.  Handling a report or a log entry first acts on  *)
(* its target (lock, delete, ban), then closes the entry.                  *)
(***************************************************************************)
EXTENDS Screen

Remedies == {"lockTarget", "deleteTarget", "banTarget"}

\* The requests for the ticked remedies, in the order the code makes them.
InOrder(ticks, i) ==
    LET One(op) == IF op \in ticks THEN <<Ask(op, i, None)>> ELSE << >>
    IN  One("lockTarget") \o One("deleteTarget") \o One("banTarget")

-----------------------------------------------------------------------------
(* Reports.  The draft is the open drawer: its report and its ticks.       *)

\* What tells one report from another here.
ReportRows == [kind : {"topic", "post", "user"}, state : {"pending", "resolved", "dismissed"}]

ReportsInit == [i \in Ids |-> IF i = 1 THEN [kind |-> "topic", state |-> "pending"] ELSE None]

ReportsFilters == {"pending", "resolved", "dismissed", "all"}

ReportsListed(d, f) == Where(d, {i \in Present(d) : f \in {"all", d[i].state}})
ReportsCount(d) == Cardinality({i \in Present(d) : d[i].state = "pending"})

\* The remedies the drawer offers for a report.
Offered(r) ==
    {t \in Remedies : \/ t = "lockTarget" /\ r.kind = "topic"
                      \/ t = "deleteTarget" /\ r.kind \in {"topic", "post"}
                      \/ t = "banTarget" /\ r.kind = "user"}

\* Slip: the report is closed first.
ResolveFirst(i, ticks) ==
    Handler(i, <<Ask("resolve", i, ticks)>> \o InOrder(ticks, i) \o <<CloseEditor, Reload>>)

\* Remedies before the verdict, so that the report is not closed if one fails.
ConfirmResolve(i, ticks) ==
    Handler(i, InOrder(ticks, i) \o <<Ask("resolve", i, ticks), CloseEditor, Reload>>)

Dismiss(i) == Handler(i, <<Ask("dismiss", i, None), Reload>>)

ReportsHandlers(v) ==
    LET open == {i \in Present(v.rows) \ {v.busy} : v.rows[i].state = "pending"}
        Drawn(i) == v.draft # None /\ v.draft.id = i
    IN  {ConfirmResolve(i, v.draft.ticks) : i \in {j \in open : Drawn(j)}}
        \cup {Dismiss(i) : i \in {j \in open : ~Drawn(j)}}

\* startResolve, the drawer's check boxes, cancelResolve.
ReportsDrafts(v) ==
    LET open == {i \in Present(v.rows) \ {v.busy} : v.rows[i].state = "pending"}
        Drawn(i) == v.draft # None /\ v.draft.id = i
    IN  {[id |-> i, ticks |-> {}] : i \in {j \in open : ~Drawn(j)}}
        \cup IF v.draft = None \/ v.draft.id \notin Present(v.rows) THEN {}
             ELSE {[v.draft EXCEPT !.ticks = (@ \cup {t}) \ (@ \cap {t})]
                      : t \in Offered(v.rows[v.draft.id])}
                  \cup IF v.draft.id \in open THEN {None} ELSE {}

ReportsRefuse(q, d) == q.op \in {"resolve", "dismiss"} /\ d[q.id].state # "pending"

ReportsEffect(q, d) ==
    CASE q.op = "resolve" -> [d EXCEPT ![q.id].state = "resolved"]
      [] q.op = "dismiss" -> [d EXCEPT ![q.id].state = "dismissed"]
      [] q.op \in Remedies -> d

ApplyCreated(v, i, r) ==
    [v EXCEPT !.count = IF v.loaded THEN @ + 1 ELSE @,
              !.rows = IF v.loaded /\ v.filter \in {"all", "pending"} /\ @[i] = None
                       THEN [@ EXCEPT ![i] = r] ELSE @]

\* One less pending, never below zero; the drawer of this report collapses.
ApplyResolved(v, i, r) ==
    [v EXCEPT !.count = IF v.loaded /\ @ > 0 THEN @ - 1 ELSE @,
              !.draft = IF @ # None /\ @.id = i THEN None ELSE @,
              !.rows = IF ~v.loaded THEN @
                       ELSE [@ EXCEPT ![i] = IF v.filter \in {"all", r.state} THEN r ELSE None]]

-----------------------------------------------------------------------------
(* The moderation log.  Only flagged entries are pushed; a handler refuses *)
(* to start while any row is busy, except for the plain dismissal.         *)

\* An entry of the log, warnings left out.
LogRows == [verdict : {"block", "pass"}, resolved : BOOLEAN]

LogsInit == [i \in Ids |-> IF i = 1 THEN [verdict |-> "block", resolved |-> FALSE] ELSE None]

LogsFilters == {"all", "block", "pass"}

LogsListed(d, f) == Where(d, {i \in Present(d) : f \in {"all", d[i].verdict}})
LogsCount(d) == Cardinality(Present(d))

\* runAction: the remedy, then the resolution, then the reload.
RunAction(l, remedy) ==
    Handler(l, <<Ask(remedy, l, None), Ask("resolve", l, {remedy}), Reload>>)

DismissLog(l) == Handler(l, <<Ask("resolve", l, {}), Reload>>)

LogsHandlers(v) ==
    LET open == {l \in Present(v.rows) : ~v.rows[l].resolved /\ v.rows[l].verdict # "pass"}
    IN  (IF v.busy # None THEN {}
         ELSE {RunAction(l, r) : l \in open, r \in {"deleteTarget", "banTarget"}})
        \cup {DismissLog(l) : l \in open \ {v.busy}}

LogsEffect(q, d) ==
    IF q.op = "resolve" THEN [d EXCEPT ![q.id].resolved = TRUE] ELSE d

\* handleIncoming: the counters first, then the list if the filter lets it in.
HandleIncoming(v, i, r) ==
    [v EXCEPT !.count = @ + 1,
              !.rows = IF v.loaded /\ v.filter \in {"all", r.verdict} /\ @[i] = None
                       THEN [@ EXCEPT ![i] = r] ELSE @]

-----------------------------------------------------------------------------
(* The dashboard: loaded once, then fed by failed bot calls.  Its list     *)
(* keeps the newest Preview entries (5 in the code).                       *)

Preview == 1

\* Failed calls are alike.
CallRows == [key : {"k1"}]

DashboardInit == NoRows

DashboardListed(d, f) ==
    [i \in Ids |-> IF d[i] # None /\ Cardinality({j \in Present(d) : j > i}) < Preview
                   THEN d[i] ELSE None]
DashboardCount(d) == Cardinality(Present(d))

\* The event's entry goes to the front and pushes the last one off the list.
BotCallFailed(v, i, r) ==
    IF ~v.loaded THEN v
    ELSE [v EXCEPT !.count = @ + 1,
                   !.rows = [j \in Ids |-> IF j = i THEN r ELSE None]]
=============================================================================
