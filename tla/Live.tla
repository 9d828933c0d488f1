-------------------------------- MODULE Live --------------------------------
(***************************************************************************)
(* The parts of the web client that are kept current by the event stream:  *)
(* the notification bell beside the notifications page, the message bell   *)
(* beside an open conversation, the badges of the administrators' sidebar; *)
(* and the list of conversations, which polls.  Each of the first four     *)
(* subscribes on its own (useStream), reads a starting value over REST,    *)
(* and adds up the events that follow.                                     *)
(*                                                                         *)
(* A row is a notification, a message, a report, a moderation verdict or a *)
(* failed bot call; `done` says it is read, or resolved.  The server       *)
(* stores a change first and publishes its event later: `jobs` are what    *)
(* is to be published.  `exact` is a history: what was read from the       *)
(* server and has missed no change since.                                  *)
(***************************************************************************)
EXTENDS Integers, Sequences, FiniteSets

CONSTANTS
    Scenes,     \* which of "notices", "chat", "list", "office" to look at
    Limit,      \* rows the dropdown shows (8 in the code)
    PageSize,   \* rows the notifications page asks for (100 in the code)
    Window,     \* messages a load returns, the latest (50 in the code)
    MaxRows,    \* bound on rows
    MaxPresses, \* bound on what the user does
    MaxFaults   \* bound on requests that fail, connections that drop, late verdicts

ASSUME LiveAssumption ==
    /\ Scenes \subseteq {"notices", "chat", "list", "office"}
    /\ {Limit, PageSize, Window} \subseteq Nat \ {0}
    /\ MaxRows \in Nat /\ MaxPresses \in Nat /\ MaxFaults \in Nat

VARIABLES
    scene,     \* what the user looks at
    rows,      \* the server's rows, in order of their identifiers
    jobs,      \* the events of changes the server has stored and not yet published
    link,      \* each subscriber's connection
    wire,      \* events on it that have not been handled
    everOpen,  \* hasBeenOpenRef of the badges
    asks,      \* requests in flight
    count,     \* the numbers shown on bells and badges
    dropdown, items,  \* the bell's dropdown: is it open, what does it list
    page, listed,      \* the page: "here" while the scene's page is open, and its rows
    sidebar,   \* unread messages in the polled list of conversations
    sending,   \* a message is on its way
    presses, faults,  \* bounds
    exact      \* history, see above

shown == <<count, dropdown, items, page, listed, sidebar, sending>>
network == <<link, wire, everOpen>>
vars == <<scene, rows, jobs, network, asks, shown, presses, faults, exact>>

Subscribers == {"bell", "mail", "chat", "badges"}
Kinds == {"notice", "message", "report", "verdict", "failure"}
KindsOf(s) == CASE s = "notices" -> {"notice"} [] s \in {"chat", "list"} -> {"message"}
                [] s = "office" -> {"report", "verdict", "failure"}

\* The subscriber whose events keep a thing current.
KeptBy(c) == CASE c = "notice" -> "bell" [] c = "message" -> "mail" [] c = "thread" -> "chat"
               [] OTHER -> "badges"
ThingsOf(w) == {c \in Kinds \cup {"thread"} : KeptBy(c) = w}

Row(kind, mine) == [kind |-> kind, mine |-> mine, done |-> FALSE]

\* What the count endpoints return: the unread rows for me, the pending reports,
\* and every warning or block, dealt with or not: no verdict is ever done here.
Open(rs, kind) == Cardinality({i \in DOMAIN rs : rs[i].kind = kind /\ ~rs[i].mine /\ ~rs[i].done})

AllDone(rs) == [i \in DOMAIN rs |-> [rs[i] EXCEPT !.done = @ \/ ~rs[i].mine]]

Bump(kind) == [count EXCEPT ![kind] = @ + 1]
Drop(kind) == [count EXCEPT ![kind] = IF @ > 0 THEN @ - 1 ELSE 0]

-----------------------------------------------------------------------------
(* Requests.  `sound` is history: the answer misses no change.             *)

Ask(by, op, row) ==
    [by |-> by, op |-> op, row |-> row, stage |-> "sent", seen |-> << >>, number |-> 0, sound |-> FALSE]

\* Nobody looks at the answer to some requests, whether it comes or not.
Unheeded(a) == a.by = "gone" \/ a.op = "readOne" \/ (a.op = "readAll" /\ a.by = "chat")

\* The other requests in flight, and a once it is answered with `answer`.
Replied(as, a, answer) == as \cup (IF Unheeded(a) THEN {} ELSE {answer})

\* A mark of row i asked for by w that the server has not seen.
Marking(w, i) == \E a \in asks : a.by = w /\ a.op = "readOne" /\ a.stage = "sent" /\ a.row = i

\* Requests whose effect was cleaned up: their answers are ignored.
Cancelled(by, op) == {a \in asks : a.by = by /\ a.op = op}

\* Answers on their way that a change overtakes.
Disturbed(as) == {[a EXCEPT !.sound = FALSE] : a \in as}

\* What a handler of the server has yet to publish; `late` tells a second verdict.
Job(type, i, late) == [type |-> type, row |-> i, late |-> late]

\* Events that w has not handled, whether published or not.
Awaiting(w) == wire[w] # << >> \/ jobs # {}

\* What the badges, and a bell, ask for at once.
Counters == {"count", "tally"}
Counts(w) == IF w = "badges" THEN Counters ELSE {"count"}

Press == presses < MaxPresses /\ presses' = presses + 1

-----------------------------------------------------------------------------
\* The layout is mounted: bells and badges ask for their numbers and connect.
Mounted(s) == CASE s = "notices" -> {"bell"} [] s = "chat" -> {"mail"} [] s = "office" -> {"badges"}
                [] s = "list" -> {}

Init ==
    /\ scene \in Scenes
    /\ rows \in {<< >>} \cup {<<Row(k, FALSE)>> : k \in KindsOf(scene)} /\ jobs = {}
    /\ link = [w \in Subscribers |-> IF w \in Mounted(scene) THEN "connecting" ELSE "idle"]
    /\ wire = [w \in Subscribers |-> << >>] /\ everOpen = FALSE
    /\ asks = UNION {{Ask(w, op, 0) : op \in Counts(w)} : w \in Mounted(scene)}
    /\ count = [k \in Kinds |-> 0]
    /\ dropdown = FALSE /\ items = << >>
    /\ page = "elsewhere" /\ listed = << >>
    /\ sidebar = 0 /\ sending = FALSE
    /\ presses = 0 /\ faults = 0 /\ exact = {}

-----------------------------------------------------------------------------
(* The connections.                                                        *)

\* The badges ask again when the connection comes back, not when it first opens.
Connect(w) ==
    /\ link[w] \in {"connecting", "reconnecting"}
    /\ link' = [link EXCEPT ![w] = "open"]
    /\ everOpen' = (everOpen \/ w = "badges")
    /\ asks' = IF w = "badges" /\ everOpen THEN asks \cup {Ask("badges", op, 1) : op \in Counters} ELSE asks
    /\ UNCHANGED <<scene, rows, jobs, wire, presses, faults, exact>> /\ UNCHANGED shown

\* The error handler closes it, and a timer connects again; an attempt that fails is
\* only a longer one.  What was on it is lost, and the counts asked for on reconnecting
\* are cancelled.
Disconnect(w) ==
    /\ link[w] = "open" /\ faults < MaxFaults /\ faults' = faults + 1
    /\ link' = [link EXCEPT ![w] = "reconnecting"]
    /\ wire' = [wire EXCEPT ![w] = << >>]
    /\ asks' = {a \in asks : ~(a.by = w /\ a.op \in Counters /\ a.row = 1)}
    /\ exact' = IF wire[w] = << >> THEN exact ELSE exact \ ThingsOf(w)
    /\ UNCHANGED <<scene, rows, jobs, everOpen, presses>> /\ UNCHANGED shown

Lists(i) == \E n \in DOMAIN listed : listed[n].row = i

Entry(rs, i) == [row |-> i, done |-> rs[i].done]

First(s, n) == SubSeq(s, 1, IF Len(s) < n THEN Len(s) ELSE n)

\* "notification.new": the badge, and the list if the dropdown is open.
HandleNotice(e) ==
    /\ count' = Bump("notice")
    /\ items' = IF dropdown THEN First(<<[row |-> e.row, done |-> FALSE]>> \o items, Limit) ELSE items
    /\ UNCHANGED <<asks, dropdown, page, listed, sidebar, sending>>

\* "message.new" in the message bell: not for what I sent from elsewhere.
HandleMail(e) ==
    /\ count' = IF rows[e.row].mine THEN count ELSE Bump("message")
    /\ UNCHANGED <<asks, dropdown, items, page, listed, sidebar, sending>>

\* Slip: an event that comes while sending is taken for the own message.
HandleChatIdle(e) ==
    /\ listed' = IF Lists(e.row) \/ sending THEN listed ELSE Append(listed, [row |-> e.row, done |-> FALSE])
    /\ asks' = IF rows[e.row].mine THEN asks ELSE asks \cup {Ask("chat", "readAll", 0)}
    /\ UNCHANGED <<count, dropdown, items, page, sidebar, sending>>

\* "message.new" in the conversation: appended once, and read if it is not mine.
HandleChat(e) ==
    /\ listed' = IF Lists(e.row) THEN listed ELSE Append(listed, [row |-> e.row, done |-> FALSE])
    /\ asks' = IF rows[e.row].mine THEN asks ELSE asks \cup {Ask("chat", "readAll", 0)}
    /\ UNCHANGED <<count, dropdown, items, page, sidebar, sending>>

\* Slip: a verdict on a report counts up as well.
HandleOfficeUp(e) ==
    /\ count' = Bump(rows[e.row].kind)
    /\ UNCHANGED <<asks, dropdown, items, page, listed, sidebar, sending>>

\* The badges: one up for a report, a verdict, a failure, one down for a verdict on a report.
HandleOffice(e) ==
    /\ count' = IF e.type = "resolved" THEN Drop("report") ELSE Bump(rows[e.row].kind)
    /\ UNCHANGED <<asks, dropdown, items, page, listed, sidebar, sending>>

Handle(w) ==
    /\ wire[w] # << >>
    /\ wire' = [wire EXCEPT ![w] = Tail(@)]
    /\ LET e == Head(wire[w])
       IN  CASE w = "bell" -> HandleNotice(e) [] w = "mail" -> HandleMail(e)
             [] w = "chat" -> HandleChat(e) [] w = "badges" -> HandleOffice(e)
    /\ UNCHANGED <<scene, rows, jobs, link, everOpen, presses, faults, exact>>

-----------------------------------------------------------------------------
(* The server.                                                             *)

\* Somebody else writes or reports, a bot flags something or fails: stored.
Arrive(kind) ==
    /\ kind \in KindsOf(scene) /\ Len(rows) < MaxRows
    /\ rows' = Append(rows, Row(kind, FALSE))
    /\ jobs' = jobs \cup {Job("new", Len(rows) + 1, FALSE)}
    /\ asks' = Disturbed(asks)
    /\ UNCHANGED <<scene, network, presses, faults, exact>> /\ UNCHANGED shown

\* Another administrator decides a report.  He found it pending when his request
\* was checked, and the update does not look again: he may be late.  The counter
\* is off if he is, or if nobody has been told of the report yet.
Decide(i) ==
    /\ rows[i].kind = "report" /\ Job("resolved", i, rows[i].done) \notin jobs
    /\ IF rows[i].done THEN faults < MaxFaults /\ faults' = faults + 1 ELSE UNCHANGED faults
    /\ rows' = [rows EXCEPT ![i].done = TRUE]
    /\ jobs' = jobs \cup {Job("resolved", i, rows[i].done)}
    /\ asks' = Disturbed(asks)
    /\ exact' = IF rows[i].done \/ Job("new", i, FALSE) \in jobs THEN exact \ {"report"} ELSE exact
    /\ UNCHANGED <<scene, network, presses>> /\ UNCHANGED shown

\* Requests whose answer shows the row of job j.
Replying(j) == {a \in asks : a.op = "send" /\ a.stage = "stored" /\ a.row = j.row}

\* What an event misses: things whose connection is not open, unless it does not
\* concern them or an answer will tell them.
Missed(j) ==
    {c \in exact : /\ link[KeptBy(c)] # "open"
                   /\ rows[j.row].mine => c = "thread" /\ ~\E a \in Replying(j) : a.by = "chat"}

\* The event reaches the connections that are open; then a message is answered.
Publish(j) ==
    /\ wire' = [w \in Subscribers |-> IF link[w] = "open"
                  THEN Append(wire[w], [type |-> j.type, row |-> j.row]) ELSE wire[w]]
    /\ jobs' = jobs \ {j}
    /\ asks' = (asks \ Replying(j)) \cup {[a EXCEPT !.stage = "ok"] : a \in Replying(j)}
    /\ exact' = exact \ Missed(j)
    /\ UNCHANGED <<scene, rows, link, everOpen, presses, faults>> /\ UNCHANGED shown

\* The same user reads everything in another tab: this one is not told.
ReadElsewhere ==
    /\ scene # "office" /\ AllDone(rows) # rows /\ Press
    /\ rows' = AllDone(rows)
    /\ asks' = Disturbed(asks) /\ exact' = exact \ KindsOf(scene)
    /\ UNCHANGED <<scene, jobs, network, faults>> /\ UNCHANGED shown

\* A counter may count on an answer if no event and no mark of its own is on its way.
Sound(a) ==
    \/ a.op = "load"
    \/ /\ a.op \in Counters \cup {"readAll"} /\ a.by \in Subscribers /\ ~Awaiting(a.by)
       /\ ~\E b \in asks \ {a} : b.by = a.by /\ b.op = "readOne" /\ b.stage = "sent"

Answer(a, rs, number) ==
    [a EXCEPT !.stage = "ok", !.seen = rs, !.number = number, !.sound = Sound(a)]

\* The kind of rows that are counted for a.
CountedFor(a) ==
    CASE a.by = "badges" -> IF a.op = "count" THEN "report" ELSE "verdict"
      [] a.by = "bell" -> "notice" [] OTHER -> "message"

\* A number, or the rows; how many of them are listed is said below.
ServeRead(a) ==
    /\ a.op \in Counters \cup {"list", "load", "poll"}
    /\ asks' = (asks \ {a}) \cup
                {IF a.op \in Counters \cup {"poll"} THEN Answer(a, << >>, Open(rows, CountedFor(a)))
                 ELSE Answer(a, rows, 0)}
    /\ UNCHANGED <<rows, jobs, exact>>

\* Marks do not reach the bells by events; they are not told of marks of a page.
ServeMark(a) ==
    /\ a.op \in {"readOne", "readAll"}
    /\ LET after == IF a.op = "readAll" THEN AllDone(rows) ELSE [rows EXCEPT ![a.row].done = TRUE]
           rest == IF after = rows THEN asks \ {a} ELSE Disturbed(asks \ {a})
           known == a.by = "bell" /\ (a.op = "readAll" \/ after # rows)
       IN  /\ rows' = after
           /\ asks' = Replied(rest, a, Answer(a, << >>, 0))
           /\ exact' = IF known \/ after = rows THEN exact ELSE exact \ KindsOf(scene)
    /\ UNCHANGED jobs

\* Send: stored; published to both sides, and answered, later.
ServeSend(a) ==
    /\ a.op = "send" /\ Len(rows) < MaxRows
    /\ rows' = Append(rows, Row("message", TRUE))
    /\ jobs' = jobs \cup {Job("new", Len(rows) + 1, FALSE)}
    /\ asks' = Replied(Disturbed(asks \ {a}), a, [a EXCEPT !.stage = "stored", !.row = Len(rows) + 1])
    /\ UNCHANGED exact

Serve(a) ==
    /\ a.stage = "sent"
    /\ ServeRead(a) \/ ServeMark(a) \/ ServeSend(a)
    /\ UNCHANGED <<scene, network, presses, faults>> /\ UNCHANGED shown

\* A request fails, before the server saw it or after, which is the same to one
\* that only reads.  One whose answer nobody heeds may as well never be served.
Fail(a) ==
    /\ ~Unheeded(a)
    /\ a.stage \in (IF a.op \in {"readAll", "send"} THEN {"sent", "stored", "ok"} ELSE {"sent"})
    /\ \/ faults < MaxFaults /\ faults' = faults + 1
       \/ a.op = "send" /\ a.stage = "sent" /\ Len(rows) = MaxRows /\ UNCHANGED faults
    /\ asks' = (asks \ {a}) \cup {[a EXCEPT !.stage = "failed"]}
    /\ exact' = IF a.op \in {"readAll", "send"} THEN exact \ (KindsOf(scene) \cup {"thread"})
                ELSE exact
    /\ UNCHANGED <<scene, rows, jobs, network, presses>> /\ UNCHANGED shown

-----------------------------------------------------------------------------
(* The answers.                                                            *)

\* What an answer shows of c is exact if it is sound, and cannot be said otherwise.
Known(cs, sound) == IF sound THEN exact \cup cs ELSE exact \ cs

\* The number of a bell.
Counted(a) ==
    /\ count' = [count EXCEPT ![CountedFor(a)] = a.number]
    /\ exact' = Known({CountedFor(a)}, a.sound)
    /\ asks' = asks \ {a}
    /\ UNCHANGED <<dropdown, items, page, listed, sidebar, sending>>

\* What was asked for together.
Together(a) == {b \in asks : b.by = a.by /\ b.op \in Counters /\ b.row = a.row}

\* The badges take the count of reports and the tally of verdicts in at once.
Seeded(a, b) ==
    /\ count' = [count EXCEPT !["report"] = a.number, !["verdict"] = b.number]
    /\ exact' = (exact \ {"report", "verdict"}) \cup
                   {c \in {"report", "verdict"} : IF c = "report" THEN a.sound ELSE b.sound}
    /\ asks' = asks \ Together(a)
    /\ UNCHANGED <<dropdown, items, page, listed, sidebar, sending>>

\* The newest first, at most n.
Newest(rs, n) == First([i \in DOMAIN rs |-> Entry(rs, Len(rs) + 1 - i)], n)

\* The dropdown's list, and the notifications page's.
Listed(a) ==
    /\ IF a.by = "bell" THEN items' = Newest(a.seen, Limit) /\ UNCHANGED listed
       ELSE listed' = Newest(a.seen, PageSize) /\ UNCHANGED items
    /\ asks' = asks \ {a}
    /\ UNCHANGED <<count, dropdown, page, sidebar, sending, exact>>

\* The latest n, the oldest of them first.
Latest(rs, n) ==
    LET before == IF Len(rs) > n THEN Len(rs) - n ELSE 0
    IN  [i \in 1..(Len(rs) - before) |-> Entry(rs, before + i)]

\* The conversation replaces what it showed, then marks everything read; older
\* messages are never asked for.
Loaded(a) ==
    /\ listed' = Latest(a.seen, Window)
    /\ asks' = (asks \ {a}) \cup {Ask("chat", "readAll", 0)}
    /\ exact' = Known({"thread"}, a.sound)
    /\ UNCHANGED <<count, dropdown, items, page, sidebar, sending>>

\* Slip: the number never goes down.
PolledUp(a) ==
    /\ sidebar' = IF a.number > sidebar THEN a.number ELSE sidebar
    /\ asks' = asks \ {a}
    /\ UNCHANGED <<count, dropdown, items, page, listed, sending, exact>>

Polled(a) ==
    /\ sidebar' = a.number
    /\ asks' = asks \ {a}
    /\ UNCHANGED <<count, dropdown, items, page, listed, sending, exact>>

Ticked(entries) == [n \in DOMAIN entries |-> [entries[n] EXCEPT !.done = TRUE]]

\* markAllRead: the bell's own list and number, or the page's list.
AllRead(a) ==
    /\ CASE a.by = "bell" -> /\ items' = Ticked(items) /\ count' = [count EXCEPT !["notice"] = 0]
                             /\ exact' = Known({"notice"}, a.sound) /\ UNCHANGED listed
         [] a.by = "page" -> listed' = Ticked(listed) /\ UNCHANGED <<items, count, exact>>
    /\ asks' = asks \ {a}
    /\ UNCHANGED <<dropdown, page, sidebar, sending>>

\* Slip: appended without looking for it.
SentBlindly(a) ==
    /\ listed' = Append(listed, [row |-> a.row, done |-> FALSE])
    /\ sending' = FALSE
    /\ asks' = asks \ {a}
    /\ UNCHANGED <<count, dropdown, items, page, sidebar, exact>>

\* The message sent is appended unless its event came first.
Sent(a) ==
    /\ listed' = IF Lists(a.row) THEN listed
                 ELSE Append(listed, [row |-> a.row, done |-> FALSE])
    /\ sending' = FALSE
    /\ asks' = asks \ {a}
    /\ UNCHANGED <<count, dropdown, items, page, sidebar, exact>>

\* A failed load is followed by the mark as well, and what was asked for together
\* fails together; other failures change nothing.
Failed(a) ==
    /\ asks' = CASE a.op = "load" -> (asks \ {a}) \cup {Ask("chat", "readAll", 0)}
                 [] a.op \in Counters -> asks \ Together(a)
                 [] OTHER -> asks \ {a}
    /\ sending' = (sending /\ a.op # "send")
    /\ UNCHANGED <<count, dropdown, items, page, listed, sidebar, exact>>

Apply(a) ==
    /\ IF a.stage = "failed" THEN Failed(a)
       ELSE /\ a.stage = "ok"
            /\ CASE a.op = "count" /\ a.by # "badges" -> Counted(a)
                 [] a.op \in Counters /\ a.by = "badges" -> \E b \in Together(a) :
                        a.op = "count" /\ b.op = "tally" /\ b.stage = "ok" /\ Seeded(a, b)
                 [] a.op = "list" -> Listed(a)
                 [] a.op = "load" -> Loaded(a) [] a.op = "poll" -> Polled(a)
                 [] a.op = "readAll" -> AllRead(a) [] a.op = "send" -> Sent(a)
    /\ UNCHANGED <<scene, rows, jobs, network, presses, faults>>

-----------------------------------------------------------------------------
(* The user.                                                               *)

\* The dropdown asks for its list each time it opens; closing cancels that.
Toggle ==
    /\ scene = "notices" /\ Press
    /\ dropdown' = ~dropdown
    /\ asks' = IF dropdown THEN asks \ Cancelled("bell", "list")
               ELSE asks \cup {Ask("bell", "list", 0)}
    /\ UNCHANGED <<scene, rows, jobs, network, count, items, page, listed, sidebar, sending, faults, exact>>

Unread(entries) == {n \in DOMAIN entries : ~entries[n].done}

\* The entries of row i, marked.
Marked(entries, i) ==
    [n \in DOMAIN entries |-> [entries[n] EXCEPT !.done = @ \/ entries[n].row = i]]

\* markOne of the bell: at once in the list and the number, then on the server;
\* following the link closes the dropdown.
MarkOne(n) ==
    /\ dropdown /\ n \in Unread(items) /\ Press
    /\ items' = Marked(items, items[n].row)
    /\ count' = Drop("notice")
    /\ dropdown' = FALSE
    /\ asks' = Disturbed(asks \ Cancelled("bell", "list")) \cup {Ask("bell", "readOne", items[n].row)}
    /\ exact' = IF \/ rows[items[n].row].done \/ Awaiting("bell")
                   \/ Marking("bell", items[n].row)
                THEN exact \ {"notice"} ELSE exact
    /\ UNCHANGED <<scene, rows, jobs, network, page, listed, sidebar, sending, faults>>

\* "Mark all read" of the bell, offered while its number is not 0.
MarkAll ==
    /\ dropdown /\ count["notice"] > 0 /\ Press
    /\ asks' = asks \cup {Ask("bell", "readAll", 0)}
    /\ UNCHANGED <<scene, rows, jobs, network, shown, faults, exact>>

\* The same on the notifications page, which has no number and tells no bell.
PageMarkOne(n) ==
    /\ scene = "notices" /\ page = "here" /\ n \in Unread(listed) /\ Press
    /\ listed' = Marked(listed, listed[n].row)
    /\ asks' = asks \cup {Ask("page", "readOne", listed[n].row)}
    /\ UNCHANGED <<scene, rows, jobs, network, count, dropdown, items, page, sidebar, sending, faults, exact>>

PageMarkAll ==
    /\ scene = "notices" /\ page = "here" /\ Unread(listed) # {} /\ Press
    /\ asks' = asks \cup {Ask("page", "readAll", 0)}
    /\ UNCHANGED <<scene, rows, jobs, network, shown, faults, exact>>

\* The page of the scene is opened.  The message bell asks again on every
\* navigation; the conversation connects and loads; the failures count as seen.
Visit ==
    /\ page = "elsewhere" /\ Press
    /\ page' = "here" /\ listed' = << >>
    /\ asks' = CASE scene = "notices" -> asks \cup {Ask("page", "list", 0)}
                 [] scene = "chat" -> (asks \ Cancelled("mail", "count")) \cup
                        {Ask("mail", "count", 0), Ask("chat", "load", 0)}
                 [] scene = "list" -> asks \cup {Ask("page", "poll", 0)}
                 [] scene = "office" -> asks
    /\ count' = IF scene = "office" THEN [count EXCEPT !["failure"] = 0] ELSE count
    /\ link' = IF scene = "chat" THEN [link EXCEPT !["chat"] = "connecting"] ELSE link
    /\ UNCHANGED <<scene, rows, jobs, wire, everOpen, dropdown, items, sidebar, sending, faults, exact>>

\* Requests of a page that is gone still reach the server, and then nobody.
Orphaned(as) ==
    {a \in as : a.by \notin {"page", "chat"}} \cup
    {[a EXCEPT !.by = "gone"] : a \in {b \in as : b.by \in {"page", "chat"} /\ b.stage = "sent"}}

\* And left: its connection is closed, what it asked for is ignored.
Leave ==
    /\ page = "here" /\ Press
    /\ page' = "elsewhere" /\ listed' = << >>
    /\ sidebar' = 0 /\ sending' = FALSE
    /\ asks' = LET rest == asks \ (Cancelled("page", "list") \cup Cancelled("chat", "load")
                                   \cup Cancelled("page", "poll") \cup Cancelled("mail", "count"))
               IN  Orphaned(rest) \cup (IF scene = "chat" THEN {Ask("mail", "count", 0)} ELSE {})
    /\ link' = [link EXCEPT !["chat"] = "idle"] /\ wire' = [wire EXCEPT !["chat"] = << >>]
    /\ exact' = exact \ {"thread"}
    /\ UNCHANGED <<scene, rows, jobs, everOpen, count, dropdown, items, faults>>

\* handleSend: one message at a time.
SendMessage ==
    /\ scene = "chat" /\ page = "here" /\ ~sending /\ Press
    /\ sending' = TRUE
    /\ asks' = asks \cup {Ask("chat", "send", 0)}
    /\ UNCHANGED <<scene, rows, jobs, network, count, dropdown, items, page, listed, sidebar, faults, exact>>

\* Every ten seconds, whether or not the last answer has come; two at most are
\* followed here.
Poll ==
    /\ scene = "list" /\ page = "here"
    /\ Cardinality(Cancelled("page", "poll")) < 2
    /\ asks' = asks \cup {Ask("page", "poll", 0)}
    /\ UNCHANGED <<scene, rows, jobs, network, shown, presses, faults, exact>>

-----------------------------------------------------------------------------
Next ==
    \/ \E w \in Subscribers : Connect(w) \/ Disconnect(w) \/ Handle(w)
    \/ \E k \in Kinds : Arrive(k)
    \/ \E i \in DOMAIN rows : Decide(i)
    \/ \E j \in jobs : Publish(j)
    \/ ReadElsewhere
    \/ \E a \in asks : Serve(a) \/ Fail(a) \/ Apply(a)
    \/ Toggle \/ MarkAll \/ PageMarkAll \/ Visit \/ Leave \/ SendMessage \/ Poll
    \/ \E n \in DOMAIN items : MarkOne(n)
    \/ \E n \in DOMAIN listed : PageMarkOne(n)

Spec == Init /\ [][Next]_vars

Polls == Cancelled("page", "poll")

\* The interval ticks or the server answers a poll, and answers are taken in.
FairSpec ==
    /\ Spec
    /\ WF_vars(Poll \/ \E a \in Polls : Serve(a))
    /\ WF_vars(\E a \in Polls : Apply(a))
-----------------------------------------------------------------------------
(* Properties.                                                             *)

\* Numbers are never negative, and what is on the wire or listed is stored.
TypeOK ==
    LET Entries == Seq([row: DOMAIN rows, done: BOOLEAN])
    IN  /\ rows \in Seq([kind: KindsOf(scene), mine: BOOLEAN, done: BOOLEAN])
        /\ jobs \subseteq [type: {"new", "resolved"}, row: DOMAIN rows, late: BOOLEAN]
        /\ link \in [Subscribers -> {"idle", "connecting", "open", "reconnecting"}]
        /\ wire \in [Subscribers -> Seq([type: {"new", "resolved"}, row: DOMAIN rows])]
        /\ count \in [Kinds -> Nat] /\ sidebar \in Nat
        /\ items \in Entries /\ Len(items) <= Limit /\ listed \in Entries
        /\ exact \subseteq Kinds \cup {"thread"}

\* Nothing of a subscriber is on its way.
Quiet(w) == ~Awaiting(w) /\ ~\E a \in asks : a.by = w /\ a.op \notin Counters \cup {"poll"}

\* "Seeded from the same REST endpoints ... then kept in sync via SSE events":
\* a number read while nothing was on its way, which has missed no change since,
\* is the server's once its events are handled, whatever came, went and was
\* marked meanwhile; after a reconnect the badges are read again.
CountsExactApart ==
    \A c \in exact \cap Kinds : Quiet(KeptBy(c)) => count[c] = Open(rows, c)

\* "Dedupe against the SSE echo": no message is shown twice in a conversation,
\* in whichever order its event, the answer to send and the load arrive.
ShownOnce ==
    scene = "chat" => \A m, n \in DOMAIN listed : listed[m].row = listed[n].row => m = n

\* Widgets and events are well typed, and no message is shown twice.
WidgetsSound == TypeOK /\ ShownOnce

\* A conversation whose load met no new message, and whose stream missed none,
\* shows every message from the oldest it lists on, and no fewer than the latest
\* Window ones.
ThreadComplete ==
    ("thread" \in exact /\ Quiet("chat")) =>
        \A i \in DOMAIN rows :
            (i > Len(rows) - Window \/ \E n \in DOMAIN listed : n = 1 /\ i >= listed[n].row) => Lists(i)

\* The polled list of conversations comes to agree with the server again and
\* again while it is open, even if polls overtake one another.
SidebarCatchesUp == []<>(page # "here" \/ scene # "list" \/ sidebar = Open(rows, "message"))
=============================================================================
