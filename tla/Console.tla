------------------------------- MODULE Console -------------------------------
(***************************************************************************)
(* The administrators' console: several administrators have one page open, *)
(* each with a copy of the server's rows.  Buttons start handlers that     *)
(* await requests one after the other; the server serves the requests of   *)
(* all administrators in any order; what a handler shows when an answer    *)
(* arrives is the code of the page.  The event stream pushes changes to    *)
(* the pages that listen.                                                  *)
(*                                                                         *)
(* Pages are described in PeoplePages, ContentPages, JusticePages and      *)
(* LedgerPages; this module is what React, fetch and the pages' common     *)
(* shape (reload, run, busy slot, error) do with such a description.       *)
(***************************************************************************)
EXTENDS PeoplePages, ContentPages, JusticePages, LedgerPages

CONSTANTS
    Admins,     \* administrators
    Pages,      \* the pages looked at
    Shared,     \* those several administrators look at together
    Lanes,      \* handlers one administrator may have running
    MaxPresses, \* bound on buttons pressed and filters changed
    MaxFaults   \* bound on requests that fail and streams that break

ASSUME ConsoleAssumption == /\ None \notin Admins \cup Lanes
                            /\ Lanes \subseteq Nat /\ Lanes # {}
                            /\ Shared \subseteq Pages
                            /\ MaxPresses \in Nat /\ MaxFaults \in Nat

\* null is no row, and no answer to a request.
ASSUME NullAssumption ==
    /\ None \notin UserRows \cup ReportRows \cup LogRows \cup CallRows
    /\ None \notin [ok : BOOLEAN, rows : {NoRows}, count : {0}, row : UserRows \cup {None}]

VARIABLES
    page,     \* the page that is open
    users,    \* the administrators who have it open
    db,       \* the server's rows
    acted,    \* remedies that took effect on the target of a row
    tab,      \* what each administrator's page holds
    runs,     \* her handlers in flight, by lane
    mail,     \* events on their way to her
    presses, faults,  \* bounds
    mixed,    \* history: administrators whose answers or events overlapped, failed or were lost
    changed,  \* history: administrators whose requests changed rows
    owed      \* history: remedies announced by the accepted resolution of a row

shared == <<page, users, db, acted>>
history == <<mixed, changed, owed>>
vars == <<page, users, db, acted, tab, runs, mail, presses, faults, mixed, changed, owed>>

-----------------------------------------------------------------------------
(* The pages by name.                                                      *)

Paging == {"messages", "notifications", "llm", "credits"}

InitialRows(p) ==
    CASE p = "users" -> UsersInit
      [] p = "bots" -> BotsInit
      [] p = "invites" -> InvitesInit
      [] p = "anon" -> AnonInit
      [] p = "topics" -> TopicsInit
      [] p = "categories" -> CategoriesInit
      [] p = "words" -> WordsInit
      [] p = "announcements" -> AnnouncementsInit
      [] p = "reports" -> ReportsInit
      [] p = "logs" -> LogsInit
      [] p = "dashboard" -> DashboardInit
      [] p = "credits" -> CreditsInit
      [] OTHER -> Entries

InitialFilter(p) ==
    CASE p \in {"bots", "reports"} -> "pending"
      [] p = "anon" -> ""
      [] p \in Paging -> FirstPage
      [] OTHER -> "all"

\* The filters the page's boxes and pager lead to.
Filters(v) ==
    CASE page = "users" -> UsersFilters \ {v.filter}
      [] page = "bots" -> BotsFilters \ {v.filter}
      [] page = "anon" -> AnonQueries
      [] page = "topics" -> TopicsFilters \ {v.filter}
      [] page = "reports" -> ReportsFilters \ {v.filter}
      [] page = "logs" -> LogsFilters \ {v.filter}
      [] page = "audit" -> AuditFilters \ {v.filter}
      [] page = "botlogs" -> BotLogsFilters \ {v.filter}
      [] page = "messages" -> MessagesTurns(v)
      [] page = "notifications" -> NotificationsTurns(v)
      [] page = "llm" -> LLMTurns(v)
      [] page = "credits" -> CreditsTurns(v)
      [] OTHER -> {}

\* The rows and the number a list request with filter f returns from rows d.
Listed(d, f) ==
    CASE page = "users" -> UsersListed(d, f)
      [] page = "bots" -> BotsListed(d, f)
      [] page = "invites" -> InvitesListed(d, f)
      [] page = "anon" -> AnonListed(d, f)
      [] page = "topics" -> TopicsListed(d, f)
      [] page = "categories" -> CategoriesListed(d, f)
      [] page = "words" -> WordsListed(d, f)
      [] page = "announcements" -> AnnouncementsListed(d, f)
      [] page = "reports" -> ReportsListed(d, f)
      [] page = "logs" -> LogsListed(d, f)
      [] page = "dashboard" -> DashboardListed(d, f)
      [] page = "audit" -> AuditListed(d, f)
      [] page = "botlogs" -> BotLogsListed(d, f)
      [] page = "messages" -> MessagesListed(d, f)
      [] page = "notifications" -> NotificationsListed(d, f)
      [] page = "llm" -> LLMListed(d, f)
      [] page = "credits" -> CreditsListed(d, f)

Counted(d, f) ==
    CASE page = "reports" -> ReportsCount(d)
      [] page = "logs" -> LogsCount(d)
      [] page = "dashboard" -> DashboardCount(d)
      [] page = "botlogs" -> BotLogsCount(d)
      [] page \in Paging -> Cardinality({i \in Present(d) : Hit(f, d[i])})
      [] OTHER -> Cardinality(Present(Listed(d, f)))

\* The handlers the buttons of view v would start.
Handlers(v) ==
    CASE page = "users" -> UsersHandlers(v)
      [] page = "bots" -> BotsHandlers(v)
      [] page = "invites" -> InvitesHandlers(v)
      [] page = "topics" -> TopicsHandlers(v)
      [] page = "categories" -> CategoriesHandlers(v)
      [] page = "words" -> WordsHandlers(v)
      [] page = "announcements" -> AnnouncementsHandlers(v)
      [] page = "reports" -> ReportsHandlers(v)
      [] page = "logs" -> LogsHandlers(v)
      [] page = "messages" -> MessagesHandlers(v)
      [] page = "credits" -> CreditsHandlers(v)
      [] OTHER -> {}

\* Where purely local event handlers (editors, drawers) can take the draft.
Drafts(v) ==
    CASE page = "invites" -> InvitesDrafts(v)
      [] page = "categories" -> CategoriesDrafts(v)
      [] page = "words" -> WordsDrafts(v)
      [] page = "announcements" -> AnnouncementsDrafts(v)
      [] page = "reports" -> ReportsDrafts(v)
      [] page = "messages" -> MessagesDrafts(v)
      [] page = "credits" -> CreditsDrafts(v)
      [] OTHER -> {}

\* What the server refuses (any request about a row that is gone; deleting or
\* locking what is deleted already; what the page's service refuses), and what
\* it does otherwise.
Gone(q) == q.id # None /\ db[q.id] = None

Refuses(q) ==
    IF Gone(q) THEN TRUE
    ELSE \/ q.op \in {"lockTarget", "deleteTarget"} /\ "deleteTarget" \in acted[q.id]
         \/ page = "users" /\ UsersRefuse(q, db)
         \/ page = "bots" /\ BotsRefuse(q, db)
         \/ page = "invites" /\ InvitesRefuse(q, db)
         \/ page = "categories" /\ CategoriesRefuse(q, db)
         \/ page = "words" /\ WordsRefuse(q, db)
         \/ page = "announcements" /\ AnnouncementsRefuse(q, db)
         \/ page = "reports" /\ ReportsRefuse(q, db)
         \/ page = "credits" /\ CreditsRefuse(q, db)

Effect(q) ==
    CASE page = "users" -> UsersEffect(q, db)
      [] page = "bots" -> BotsEffect(q, db)
      [] page = "invites" -> InvitesEffect(q, db)
      [] page = "topics" -> TopicsEffect(q, db)
      [] page = "categories" -> CategoriesEffect(q, db)
      [] page = "words" -> WordsEffect(q, db)
      [] page = "announcements" -> AnnouncementsEffect(q, db)
      [] page = "reports" -> ReportsEffect(q, db)
      [] page = "logs" -> LogsEffect(q, db)
      [] page = "credits" -> CreditsEffect(q, db)
      [] OTHER -> db

-----------------------------------------------------------------------------
(* Handlers in flight.                                                     *)

\* Run: what is left to await, the row and the filter the closure captured,
\* its busy slot, and the answer to its first request once that is given.
Run(h, v) == [steps |-> h.steps, slot |-> h.slot, filter |-> v.filter,
              saw |-> IF h.steps[1].id = None THEN None ELSE v.rows[h.steps[1].id],
              reply |-> None]

\* What a lane holds in which no handler runs.
NoRun == [steps |-> << >>, slot |-> None, filter |-> None, saw |-> None, reply |-> None]

Failed == [ok |-> FALSE, rows |-> NoRows, count |-> 0, row |-> None]

Free(a) == {k \in Lanes : runs[a][k] = NoRun}
Running(a) == {k \in Lanes : runs[a][k] # NoRun}
Lane(a) == CHOOSE k \in Free(a) : \A j \in Free(a) : k <= j

Lists(steps) == \E n \in DOMAIN steps : steps[n].op = "list"

\* Overlapping handlers spoil a's view; one that runs alone and lists mends it.
Spoilt(a, h) ==
    IF Running(a) # {} THEN mixed \cup {a}
    ELSE IF Lists(h.steps) THEN mixed \ {a} ELSE mixed

\* A run that lists: mounting, a changed filter.  The search page is busy meanwhile.
Listing == Handler(IF page = "anon" THEN WholePage ELSE None, <<Reload>>)

\* Which pages clear the error when a list is asked for, not when it arrives.
ClearsFirst == page \in Paging \cup {"anon"}

-----------------------------------------------------------------------------
Mounted(p) == [rows |-> NoRows, loaded |-> FALSE, count |-> 0, filter |-> InitialFilter(p),
               busy |-> None, error |-> FALSE, draft |-> None]

\* Mounting starts the first list.
Init ==
    /\ page \in Pages
    /\ users \in IF page \in Shared THEN {Admins} ELSE {{a} : a \in Admins}
    /\ db = InitialRows(page)
    /\ acted = [i \in Ids |-> {}]
    /\ tab = [a \in Admins |-> [Mounted(page) EXCEPT !.busy = IF a \in users THEN Listing.slot ELSE None]]
    /\ runs = [a \in Admins |->
                 [k \in Lanes |-> IF a \in users /\ \A j \in Lanes : k <= j
                                  THEN Run(Listing, Mounted(page)) ELSE NoRun]]
    /\ mail = [a \in Admins |-> << >>]
    /\ presses = 0 /\ faults = 0
    /\ mixed = {} /\ changed = {}
    /\ owed = [i \in Ids |-> {}]

\* A button starts a handler: busy slot, error cleared, first request sent.
Press(a) ==
    \E h \in Handlers(tab[a]) :
        /\ Free(a) # {} /\ presses < MaxPresses
        /\ presses' = presses + 1
        /\ runs' = [runs EXCEPT ![a][Lane(a)] = Run(h, tab[a])]
        /\ tab' = [tab EXCEPT ![a].busy = IF h.slot = None THEN @ ELSE h.slot,
                              ![a].error = FALSE,
                              ![a].draft = IF page = "messages" THEN None ELSE @]
        /\ mixed' = Spoilt(a, h)
        /\ UNCHANGED <<shared, mail, faults, changed, owed>>

\* A new filter: the effect that depends on it lists again, with that filter.
SetFilter(a) ==
    \E f \in Filters(tab[a]) :
        LET v == [tab[a] EXCEPT !.filter = f]
        IN  /\ Free(a) # {} /\ presses < MaxPresses
            /\ presses' = presses + 1
            /\ runs' = [runs EXCEPT ![a][Lane(a)] = Run(Listing, v)]
            /\ tab' = [tab EXCEPT ![a].filter = f,
                                  ![a].busy = IF Listing.slot = None THEN @ ELSE Listing.slot,
                                  ![a].error = IF ClearsFirst THEN FALSE ELSE @]
            /\ mixed' = Spoilt(a, Listing)
            /\ UNCHANGED <<shared, mail, faults, changed, owed>>

\* An editor or a drawer opens, is typed into, or is closed.
Draft(a) ==
    /\ presses < MaxPresses
    /\ \E d \in Drafts(tab[a]) : tab' = [tab EXCEPT ![a].draft = d]
    /\ UNCHANGED <<shared, runs, mail, presses, faults, history>>

-----------------------------------------------------------------------------
(* The server.  A request may fail without effect, and an answer may be    *)
(* lost after the effect: the client sees an error either way.             *)

Reply(a, k, r) == runs' = [runs EXCEPT ![a][k].reply = r]

Pending(a, k, ops) == /\ runs[a][k] # NoRun
                      /\ runs[a][k].reply = None
                      /\ runs[a][k].steps[1].op \in ops

ServeList(a, k) ==
    /\ Pending(a, k, {"list"})
    /\ LET f == runs[a][k].filter
       IN  Reply(a, k, [ok |-> TRUE, rows |-> Listed(db, f), count |-> Counted(db, f), row |-> None])
    /\ UNCHANGED <<shared, tab, mail, presses, faults, history>>

Fail(a, k) ==
    /\ runs[a][k] # NoRun /\ runs[a][k].reply = None
    /\ faults < MaxFaults /\ faults' = faults + 1
    /\ Reply(a, k, Failed)
    /\ UNCHANGED <<shared, tab, mail, presses, history>>

Refuse(a, k) ==
    /\ runs[a][k] # NoRun /\ runs[a][k].reply = None
    /\ runs[a][k].steps[1].op # "list" /\ Refuses(runs[a][k].steps[1])
    /\ Reply(a, k, Failed)
    /\ UNCHANGED <<shared, tab, mail, presses, faults, history>>

\* Reports announce their verdicts to every administrator.
Announce(q, d) ==
    IF page = "reports" /\ q.op \in {"resolve", "dismiss"}
    THEN [b \in Admins |-> IF b \in users THEN Append(mail[b], [kind |-> "resolved", id |-> q.id, row |-> d[q.id]])
                            ELSE << >>]
    ELSE mail

ServeChange(a, k) ==
    /\ runs[a][k] # NoRun /\ runs[a][k].reply = None
    /\ LET q == runs[a][k].steps[1]
           d == Effect(q)
       IN  /\ q.op # "list" /\ ~Refuses(q)
           /\ db' = d
           /\ acted' = IF q.op \in Remedies THEN [acted EXCEPT ![q.id] = @ \cup {q.op}] ELSE acted
           /\ mail' = Announce(q, d)
           /\ changed' = IF d # db \/ q.op \in Remedies THEN changed \cup {a} ELSE changed
           /\ owed' = IF q.op = "resolve" THEN [owed EXCEPT ![q.id] = @ \cup q.val] ELSE owed
           /\ \/ Reply(a, k, [ok |-> TRUE, rows |-> NoRows, count |-> 0,
                              row |-> IF q.id = None THEN None ELSE d[q.id]])
                 /\ UNCHANGED faults
              \/ Reply(a, k, Failed) /\ faults < MaxFaults /\ faults' = faults + 1
    /\ UNCHANGED <<page, users, tab, presses, mixed>>

\* A user files a report, a check flags a post, a bot call fails, a log grows.
Arrive ==
    /\ page \in {"reports", "logs", "dashboard", "audit", "botlogs"} /\ Unused(db) # {}
    /\ \E r \in CASE page = "reports" -> {[kind |-> "user", state |-> "pending"]}
                  [] page = "logs" -> {[verdict |-> x, resolved |-> FALSE] : x \in {"block", "pass"}}
                  [] OTHER -> {[key |-> "k1"]} :
        /\ db' = [db EXCEPT ![NewId(db)] = r]
        /\ mail' = IF page \in {"reports", "dashboard"} \/ (page = "logs" /\ r.verdict # "pass")
                   THEN [b \in Admins |-> IF b \in users
                            THEN Append(mail[b], [kind |-> "created", id |-> NewId(db), row |-> r])
                            ELSE << >>]
                   ELSE mail
    /\ changed' = IF mail' = mail THEN changed \cup {None} ELSE changed
    /\ UNCHANGED <<page, users, acted, tab, runs, presses, faults, mixed, owed>>

\* Somebody else, in another browser, closes a report.
Elsewhere ==
    /\ page = "reports"
    /\ \E i \in Present(db) :
          /\ db[i].state = "pending"
          /\ db' = [db EXCEPT ![i].state = "dismissed"]
          /\ mail' = Announce(Ask("dismiss", i, None), db')
    /\ UNCHANGED <<page, users, acted, tab, runs, presses, faults, history>>

-----------------------------------------------------------------------------
(* The answers.                                                            *)

\* The draft after an answer to request q: detail panels and expanded rows.
Looked(v, q, reply) ==
    IF q.op # "look" THEN v.draft
    ELSE IF page = "messages" /\ ~reply.ok THEN v.draft ELSE q.id

\* The handler's continuation: what the page shows, and what it awaits next.
Shown(v, q, reply) ==
    CASE q.op = "list" /\ reply.ok ->
            [v EXCEPT !.rows = reply.rows, !.loaded = TRUE, !.count = reply.count,
                      !.error = IF ClearsFirst THEN @ ELSE FALSE]
      [] q.op = "list" /\ ~reply.ok ->
            [v EXCEPT !.error = TRUE, !.rows = IF page = "anon" THEN AnonSearchFailed(@) ELSE @]
      [] q.op = "score" /\ reply.ok ->
            [v EXCEPT !.rows = PatchScore(@, q.id, reply.row)]
      [] OTHER -> [v EXCEPT !.draft = Looked(v, q, reply),
                            !.error = IF reply.ok \/ (page = "invites" /\ q.op = "look") THEN @ ELSE TRUE]

\* reload() catches its own failure; any other failure ends the handler.
Rest(steps, reply) ==
    IF reply.ok \/ steps[1].op = "list" THEN Tail(steps) ELSE << >>

Closing(rest) == rest # << >> /\ rest[1].op = "close"

\* Slip: not in a finally block.
FreedOnSuccess(r, next) == next = << >> /\ r.slot # None /\ r.reply.ok

\* finally { setBusy(null) }: the handler ends, whatever its last answer was.
Freed(r, next) == next = << >> /\ r.slot # None

Resume(a, k) ==
    /\ runs[a][k] # NoRun /\ runs[a][k].reply # None
    /\ LET r == runs[a][k]
           left == Rest(r.steps, r.reply)
           next == IF Closing(left) THEN Tail(left) ELSE left
           v == Shown(tab[a], r.steps[1], r.reply)
       IN  /\ tab' = [tab EXCEPT ![a] =
                        [v EXCEPT !.draft = IF Closing(left) THEN None ELSE @,
                                  !.busy = IF Freed(r, next) THEN None ELSE @]]
           /\ runs' = [runs EXCEPT ![a][k] =
                         IF next = << >> THEN NoRun
                         ELSE [r EXCEPT !.steps = next, !.reply = None]]
           /\ mixed' = IF r.reply.ok THEN mixed ELSE mixed \cup {a}
    /\ UNCHANGED <<shared, mail, presses, faults, changed, owed>>

-----------------------------------------------------------------------------
(* The event stream.                                                       *)

Applied(v, e) ==
    CASE page = "reports" /\ e.kind = "created" -> ApplyCreated(v, e.id, e.row)
      [] page = "reports" /\ e.kind # "created" -> ApplyResolved(v, e.id, e.row)
      [] page = "logs" -> HandleIncoming(v, e.id, e.row)
      [] page = "dashboard" -> BotCallFailed(v, e.id, e.row)

Deliver(a) ==
    /\ mail[a] # << >>
    /\ tab' = [tab EXCEPT ![a] = Applied(@, Head(mail[a]))]
    /\ mail' = [mail EXCEPT ![a] = Tail(@)]
    /\ mixed' = IF \E k \in Running(a) : Lists(runs[a][k].steps) THEN mixed \cup {a} ELSE mixed
    /\ UNCHANGED <<shared, runs, presses, faults, changed, owed>>

\* A broken stream loses what was on its way; it is not sent again.
Disconnect(a) ==
    /\ mail[a] # << >> /\ faults < MaxFaults
    /\ faults' = faults + 1
    /\ mail' = [mail EXCEPT ![a] = << >>]
    /\ mixed' = mixed \cup {a}
    /\ UNCHANGED <<shared, tab, runs, presses, changed, owed>>

-----------------------------------------------------------------------------
Next ==
    \/ \E a \in users : Press(a) \/ SetFilter(a) \/ Draft(a) \/ Deliver(a) \/ Disconnect(a)
    \/ \E a \in users, k \in Lanes :
          ServeList(a, k) \/ Fail(a, k) \/ Refuse(a, k) \/ ServeChange(a, k) \/ Resume(a, k)
    \/ Arrive
    \/ Elsewhere

Spec == Init /\ [][Next]_vars
-----------------------------------------------------------------------------
(* Properties.                                                             *)

\* The slots, lanes and drafts have the shapes the code gives them.
TypeOK ==
    /\ page \in Pages /\ presses \in 0..MaxPresses
    /\ \A a \in Admins :
          /\ tab[a].busy \in Ids \cup {None, WholePage}
          /\ tab[a].error \in BOOLEAN /\ tab[a].loaded \in BOOLEAN
          /\ \A k \in Lanes : runs[a][k] # NoRun =>
                /\ runs[a][k].slot \in Ids \cup {None, WholePage}
                /\ runs[a][k].steps # << >>

\* A busy slot is always held by a handler that is still running, whatever
\* failed: no button stays off for good.
BusyIsHeld ==
    \A a \in Admins : tab[a].busy # None =>
        \E k \in Running(a) : runs[a][k].slot # None

\* Screens and handlers keep their shapes, and what is switched off on a screen
\* is held by a handler that is still running and will switch it on again.
ScreensSound == TypeOK /\ BusyIsHeld

\* No answer and no event is on its way to a, nothing overlapped, failed or
\* got lost since her last list, and what others changed is pushed to her.
Settled(a) ==
    /\ Running(a) = {} /\ mail[a] = << >> /\ a \notin mixed
    /\ changed \subseteq {a} \/ (page = "reports" /\ changed \subseteq Admins)

\* A settled page shows the server's rows under the filter it displays: each
\* handler lists again, or patches what it changed, and each event is applied.
ShownIsStored ==
    \A a \in users : Settled(a) => tab[a].rows = Listed(db, tab[a].filter)

\* A report or a log entry that was closed together with remedies had them
\* take effect first: "so the report log doesn't go green if a call fails".
ClosedMeansDone ==
    \A i \in Ids : owed[i] \subseteq acted[i]

\* The fields of a row a request is about.
About(op) ==
    CASE op \in {"ban", "unban"} -> {"banned"}
      [] op = "score" -> {"score"}
      [] op \in {"approve", "reject", "suspend"} -> {"status"}
      [] op \in {"moderator", "unmoderator"} -> {"moderator"}
      [] op \in {"feature", "unfeature"} -> {"featured"}
      [] op = "level" -> {"level"}
      [] op = "weight" -> {"weight"}
      [] op \in {"lock", "unlock"} -> {"locked"}
      [] op = "toggle" -> {"on"}
      [] op \in {"publish", "unpublish"} -> {"published"}
      [] op \in {"up", "down"} -> {"place"}
      [] op \in {"resolve", "dismiss"} -> {"state", "resolved"}
      [] op \in Remedies \cup {"look", "list"} -> {}

\* A button changes the field it is labelled with and no other, unless the row
\* was changed since it was shown: requests that carry a whole row carry the
\* other fields as they are.
OnlyMeantFields ==
    \A a \in Admins, k \in Lanes :
        LET q == runs[a][k].steps[1]
            saw == runs[a][k].saw
        IN  (/\ runs[a][k] # NoRun /\ runs[a][k].reply = None
             /\ runs'[a][k] # NoRun /\ runs'[a][k].reply # None
             /\ q.op \notin {"create", "update", "delete"} /\ q.id # None
             /\ db[q.id] = saw /\ db'[q.id] # None)
            => \A f \in DOMAIN saw \ About(q.op) : db'[q.id][f] = saw[f]

OnlyMeantChanges == [][OnlyMeantFields]_vars
=============================================================================
